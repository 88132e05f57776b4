CONSTANTS
  schedule = schedule
  manual = manual
  m1 = m1
  m2 = m2
  a1 = a1
  a2 = a2
  b1 = b1
  b2 = b2
  k1 = k1
  None = None
  Runs = {schedule, manual}
  Manual = {manual}
  Items = {m1, m2}
  Albums = {a1, a2}
  AlbumOf <- OfTwo
  Bases = {b1, b2}
  Keys = {k1}
  Fold <- OneFold
SPECIFICATION Spec
INVARIANTS
  OwnDraft
PROPERTIES
  HonestExit
CHECK_DEADLOCK FALSE
