SPECIFICATION Spec
CONSTANTS
  Payloads <- OneMail
  Faults = {}
  MaxAddrs = 1
  CmdLen = 1
  MaxRead = 40
  Delivery = "bytes"
CHECK_DEADLOCK FALSE
INVARIANT NoMutualWait
