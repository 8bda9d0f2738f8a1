SPECIFICATION Spec
CONSTANTS
  Tokens <- AllTokens
  Mails <- AllMails
  Multiparts <- AllMultiparts
  HeaderBlocks <- AllHeaderBlocks
CHECK_DEADLOCK FALSE
INVARIANT TypeOK
INVARIANT RetrievePrintsMail
INVARIANT RetrieveInContent
INVARIANT MimePrintsFirstPart
INVARIANT MimePrintsNoOther
INVARIANT ParsePrintsHeaders
INVARIANT ParseInventsNothing
PROPERTY Ends
