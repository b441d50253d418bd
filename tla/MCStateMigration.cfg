SPECIFICATION Spec
CONSTANTS
  a1 = a1
  a2 = a2
  m1 = m1
  w1 = w1
  c1 = c1
  c2 = c2
  t1 = t1
  t2 = t2
  x = x
  y = y
  p = p
  q = q
  r = r
  Adapters = {a1, a2}
  Migrators = {m1}
  Channels = {c1, c2}
  Owners = {x, y}
  Tmps = {t1, t2}
  Keys = {p, q, r}
  Canon <- TwoSpellings
  Writers = {w1}
  MaxStamp = 2
  None = None
SYMMETRY Symmetry
INVARIANTS
  TypeOK
  BoundToItsOwner
  OwnedStoreIsWhole
PROPERTIES
  PublishesTheSource
  NeverReplaced
CHECK_DEADLOCK FALSE
