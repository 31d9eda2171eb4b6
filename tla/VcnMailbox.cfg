SPECIFICATION MSpec
CONSTANTS
  PreStates <- MCPreStates
  SecureReads = FALSE
  REG_POLL_TIMEOUT_LOOPS = 2
  MaxBoots = 2
  MaxRejects = 1
  MAILBOX_TIMEOUT_LOOPS = 2
INVARIANTS
  MailboxInv
PROPERTIES
  ImplementsSequence
CHECK_DEADLOCK FALSE
