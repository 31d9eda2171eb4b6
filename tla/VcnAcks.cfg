SPECIFICATION LSafeSpec
CONSTANTS
  PreStates <- MCPreStates
  SecureReads = TRUE
  REG_POLL_TIMEOUT_LOOPS = 2
  MaxBoots = 1
  LiveBits = {7}
  MaxChanges = 0
  MaxRejects = 1
INVARIANT
  VerifiedAcks
CHECK_DEADLOCK FALSE
