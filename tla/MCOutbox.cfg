SPECIFICATION Spec
CONSTANTS
  Records = {r1, r2}
  Operators = {o1, o2}
INVARIANTS
  TypeOK
  RetryableIsUnsent
  AtMostOnce
  EffectIsOnRecord
  SentIsTrue
  ScanIsStable
PROPERTIES
  SentIsFinal
  ImplementsLedger
SYMMETRY Symmetry
