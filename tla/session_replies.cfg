SPECIFICATION Spec
CONSTANTS
  Payloads <- PlainMails
  Faults = {}
  MaxAddrs = 1
  CmdLen = 1
  MaxRead = 40
  Delivery = "replies"
INVARIANT InStep
INVARIANT RefusalsReported
INVARIANT MailVerbatim
