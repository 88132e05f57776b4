CONSTANTS
  s1 = s1
  s2 = s2
  a = a
  b = b
  None = None
  Slots = {s1, s2}
  Sources = {a, b}
  MaxAttempts = 1
  FallbackCap = 1
  MaxHits = 2
  MaxEdits = 2
SYMMETRY Symmetry
SPECIFICATION Spec
INVARIANTS
  IInv
  StopBounded
  OneHitPerWait
  FallbackWithinCap
PROPERTIES
  WaitStands
CHECK_DEADLOCK FALSE
