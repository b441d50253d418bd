SPECIFICATION DSpec
CONSTANTS
  o1 = o1
  o2 = o2
  v1 = v1
  v2 = v2
  Ops = {o1, o2}
  Versions = {v1, v2}
  MaxEdits = 1
  NoFile = NoFile
SYMMETRY Symmetry
INVARIANTS
  TypeOK
  NothingLost
  Reversible
  ConsistentWasTrue
  AloneTellsTheTruth
PROPERTIES
  PublishesOverItsPlan
CHECK_DEADLOCK FALSE
