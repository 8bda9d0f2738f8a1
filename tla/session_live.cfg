SPECIFICATION FairSpec
CONSTANTS
  Payloads <- PlainMails
  Faults = {"fin", "rst", "expunge"}
  MaxAddrs = 1
  CmdLen = 2
  MaxRead = 40
  Delivery = "lines"
CHECK_DEADLOCK FALSE
PROPERTY Terminates
PROPERTY LossNoticed
