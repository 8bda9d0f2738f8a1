SPECIFICATION Spec
CONSTANTS
  Tokens <- AllTokens
  Mails = {}
  Multiparts <- TwoParts
  HeaderBlocks = {}
CHECK_DEADLOCK FALSE
INVARIANT MimePrintsFirstText
