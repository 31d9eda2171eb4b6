SPECIFICATION JSpec
CONSTANTS
  PreStates <- MCPreStates
  SecureReads = FALSE
  REG_POLL_TIMEOUT_LOOPS = 2
  MaxBoots = 2
  MaxRejects = 0
  MaxDropped = 2
INVARIANTS
  JTypeOK
  SuccessIsSeen
  EnabledIsReal
  EnabledMeansPowered
  NoChangeMeansUnpowered
CHECK_DEADLOCK FALSE
