CONSTANTS
  i1 = i1
  i2 = i2
  a1 = a1
  None = None
  Other = Other
  Instances = {i1, i2}
  Once = {i1}
  Albums = {a1}
  CallMax = 3
  StaleRunning = 4
  GeniusWaitMax = 1
  NudgeMax = 1
  NudgeCooldown = 1
  MaxRequests = 3
  MaxFaults = 2
SPECIFICATION Spec
INVARIANTS
  DoubleRunsAreLate
  DoneIsLatest
  CooldownCostsOne
  
PROPERTIES
  NotesKept
CHECK_DEADLOCK FALSE
