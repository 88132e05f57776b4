CONSTANTS
  song = song
  f1 = f1
  f2 = f2
  f3 = f3
  c1 = c1
  c2 = c2
  None = None
  Items = {song}
  Genius = {}
  Fps = {f1, f2}
  Korean = {f2}
  Oversized = {}
  Clients = {c1}
  DailyCap = 1
  MaxRunning = 2
  MaxAttempts = 2
  TemporaryMaxAttempts = 2
  MaxClaims = 3
  MaxEdits = 2
  MaxDays = 2
SPECIFICATION FairSpec
INVARIANTS
  AttemptsBounded
  BudgetRespected
PROPERTIES
  RequestResolved
CHECK_DEADLOCK FALSE
