CONSTANTS
  Keys = {1, 2, 3, 4}
  Lyrics = {3, 4}
  Skippable = {2}
  Limit = 2
  MaxRequests = 2
  MaxChanges = 2
SPECIFICATION FairSpec
INVARIANTS
  IInv
  LapCovers
  OncePerRequest
PROPERTIES
  LapComplete
  EveryKeyOffered
CHECK_DEADLOCK FALSE
