SPECIFICATION LSpec
CONSTANTS
  PreStates <- MCPreStates
  SecureReads = FALSE
  REG_POLL_TIMEOUT_LOOPS = 2
  MaxBoots = 3
  MaxRejects = 0
  LiveBits = {7}
  MaxChanges = 1
INVARIANTS
  TypeOK
  ReplayPrefix
  HardwareOrder
  OwnBitsKept
  RInv
PROPERTIES
  SequenceEnds
CHECK_DEADLOCK FALSE
