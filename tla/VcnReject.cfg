SPECIFICATION LSafeSpec
CONSTANTS
  PreStates <- MCPreStates
  SecureReads = TRUE
  REG_POLL_TIMEOUT_LOOPS = 2
  MaxBoots = 2
  LiveBits = {7}
  MaxChanges = 0
  MaxRejects = 2
INVARIANTS
  SuccessIsReal
PROPERTIES
  SkipsOnlyEnabled
CHECK_DEADLOCK FALSE
