SPECIFICATION LSafeSpec
CONSTANTS
  PreStates <- MCPreStates
  SecureReads = FALSE
  REG_POLL_TIMEOUT_LOOPS = 2
  MaxBoots = 2
  LiveBits = {7}
  MaxChanges = 0
  MaxRejects = 0
INVARIANT
  ClockPartDone
CHECK_DEADLOCK FALSE
