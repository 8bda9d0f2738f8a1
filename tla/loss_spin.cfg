SPECIFICATION FairSpec
CONSTANTS
  Payloads <- OneMail
  Faults = {"fin"}
  MaxAddrs = 1
  CmdLen = 1
  MaxRead = 40
  Delivery = "replies"
CHECK_DEADLOCK FALSE
PROPERTY LossEndsRun
