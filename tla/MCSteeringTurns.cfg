SPECIFICATION FairSpec
CONSTANTS
  h1 = h1
  h2 = h2
  Hooks = {h1, h2}
  MaxSteers = 1
  QueueLimit = 2
  MaxTurns = 2
  DeferredLimit = 2
INVARIANTS
  AnswerFollowsCorrections
PROPERTIES
  SteersSettle
CHECK_DEADLOCK FALSE
