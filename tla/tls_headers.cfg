SPECIFICATION TlsSpec
CONSTANTS
  Payloads <- OneMail
  Faults = {}
  MaxAddrs = 1
  CmdLen = 1
  MaxRead = 40
  Delivery = "replies"
CHECK_DEADLOCK FALSE
INVARIANT HeadersByTls
