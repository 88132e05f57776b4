CONSTANTS
  s1 = s1
  s2 = s2
  a = a
  b = b
  None = None
  Slots = {s1, s2}
  Sources = {a}
  MaxAttempts = 1
  FallbackCap = 1
  MaxHits = 2
  MaxEdits = 2
SPECIFICATION FairSpec
PROPERTIES
  StopEndsRun
  GPTProbedAgain
CHECK_DEADLOCK FALSE
