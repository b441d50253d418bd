SPECIFICATION Spec
CONSTANTS
  a1 = a1
  a2 = a2
  s1 = s1
  s2 = s2
  s3 = s3
  Adapters = {a1}
  Sessions = {s1, s2}
  AdapterOf <- OneAdapter
  Conversations = {c1, c2, c3}
  Faults = {"write"}
  EarlierStatus = "none"
  MaxOrphans = 1
INVARIANTS
  ResumesSavedConversation
