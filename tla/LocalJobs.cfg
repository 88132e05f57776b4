CONSTANTS
  i1 = i1
  a1 = a1
  p1 = p1
  s1 = s1
  None = None
  Other = Other
  Instances = {i1}
  Once = {i1}
  Albums = {a1}
  CallMax = 1
  StaleRunning = 2
  GeniusWaitMax = 1
  NudgeMax = 0
  NudgeCooldown = 1
  MaxRequests = 2
  MaxFaults = 1
  Pollers = {p1}
  Shimmed = {}
  Slots = {s1}
  Lease = 2
  Margin = 1
  FallbackMax = 1
  MaxGenre = 1
SPECIFICATION JobsFairSpec
INVARIANTS
  FallbackFitsLease
CHECK_DEADLOCK FALSE
PROPERTIES
  RequestsAnswered
  GenreServed
