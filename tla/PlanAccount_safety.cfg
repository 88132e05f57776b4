CONSTANTS
  a1 = a1
  a2 = a2
  m1 = m1
  m2 = m2
  s1 = s1
  s2 = s2
  w1 = w1
  w2 = w2
  None = None
  Accounts = {a1, a2}
  Models = {m1, m2}
  Catalog <- OwnCatalog
  Slots = {s1, s2}
  Screens = {w1, w2}
  MaxSessions = 3
  MaxEdits = 2
SYMMETRY Symmetry
SPECIFICATION Spec
INVARIANTS
  IInv
  OneAccountPerRun
  EnabledAsVerified
PROPERTIES
  SessionKept
  NewSessionKept
CHECK_DEADLOCK FALSE
