SPECIFICATION TlsFairSpec
CONSTANTS
  Payloads <- PlainMails
  Faults = {"fin", "rst"}
  MaxAddrs = 1
  CmdLen = 2
  MaxRead = 40
  Delivery = "bytes"
CHECK_DEADLOCK FALSE
INVARIANT MailComplete
INVARIANT NetworkErrorsAreReal
INVARIANT NeverMissingByMistake
PROPERTY LossNoticed
