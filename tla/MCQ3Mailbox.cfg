SPECIFICATION MSpec
CONSTANTS
  MaxCalls = 3
  MAILBOX_TIMEOUT_LOOPS = 2
  MaxResets = 2
  SmuStatus <- MCSmuStatus
INVARIANTS
  MTypeOK
  ExecutesWhatWasAsked
  MailboxLeftOpen
  IInv
PROPERTIES
  ImplementsCall
  EveryCallReturns
CHECK_DEADLOCK FALSE
