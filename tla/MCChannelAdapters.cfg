SPECIFICATION Spec
CONSTANTS
  a1 = a1
  a2 = a2
  s1 = s1
  s2 = s2
  s3 = s3
  Adapters = {a1, a2}
  Sessions = {s1, s2, s3}
  AdapterOf <- ThreeSessions
  Conversations = {c1, c2, c3}
  Faults = {}
  EarlierStatus = "failed-before-start"
  MaxOrphans = 1
INVARIANTS
  OneProvider
  ResumesSavedConversation
PROPERTIES
  KeepsConversation
  RecordChangesUnderLock
  ReleasesAfterExit
SYMMETRY Symmetry
