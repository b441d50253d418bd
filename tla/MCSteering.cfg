SPECIFICATION Spec
CONSTANTS
  h1 = h1
  Hooks = {h1}
  MaxSteers = 2
  QueueLimit = 2
  MaxTurns = 1
  DeferredLimit = 1
INVARIANTS
  TypeOK
  UnconfirmedIsGuarded
  HeardInQueueOrder
PROPERTIES
  BlockedIsFinal
  ImplementsCorrections
CHECK_DEADLOCK FALSE
