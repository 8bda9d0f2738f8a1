SPECIFICATION Spec
CONSTANTS
  Payloads <- PlainMails
  Faults = {"fin", "rst", "expunge"}
  MaxAddrs = 2
  CmdLen = 2
  MaxRead = 40
  Delivery = "bytes"
CHECK_DEADLOCK FALSE
INVARIANT TypeOK
INVARIANT MailComplete
INVARIANT HeadersComplete
INVARIANT SubjectsComplete
INVARIANT NetworkErrorsAreReal
PROPERTY ImplementsExchange
