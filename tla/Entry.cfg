SPECIFICATION ESpec
CONSTANTS
  PreStates <- MCPreStates
  SecureReads = TRUE
  REG_POLL_TIMEOUT_LOOPS = 2
  MaxBoots = 2
  MaxRejects = 1
  Variants <- MCVariants
  BootOptions = 2
INVARIANTS
  ETypeOK
  OncePerBoot
  OsAfterSequence
PROPERTIES
  BootGoesOn
CHECK_DEADLOCK FALSE
