SPECIFICATION PSpec
CONSTANTS
  Copies = {c1, c2}
  MaxRuns = 3
INVARIANTS
  PTypeOK
  NothingLost
  EntriesBoot
  PassMeansInstalled
CHECK_DEADLOCK FALSE
