CONSTANTS
  song = song
  f1 = f1
  f2 = f2
  f3 = f3
  c1 = c1
  c2 = c2
  None = None
  Items = {song}
  Genius = {}
  Fps = {f1, f2, f3}
  Korean = {f3}
  Oversized = {}
  Clients = {c1, c2}
  DailyCap = 3
  MaxRunning = 2
  MaxAttempts = 2
  TemporaryMaxAttempts = 3
  MaxClaims = 2
  MaxEdits = 2
  MaxDays = 0
SYMMETRY Symmetry
SPECIFICATION Spec
INVARIANTS
  IInv
  ClaimExclusive
  ShownIsStored
  BudgetRespected
PROPERTIES
  ManualKept
  PublishesCurrent
  DoneImmutable
  StoppedStays
  KeepsPromise
  OvertakenNeverPublishes
CHECK_DEADLOCK FALSE
