CONSTANTS
  s1 = s1
  s2 = s2
  a = a
  b = b
  None = None
  Slots = {s1}
  Sources = {a}
  MaxAttempts = 2
  FallbackCap = 1
  MaxHits = 2
  MaxEdits = 2
SPECIFICATION Spec
INVARIANTS
  GPTKeepsAttempts
CHECK_DEADLOCK FALSE
