SPECIFICATION Spec
CONSTANTS
  Chars <- AllChars
  Numeral <- Numbers
  IntSpan = 4096
  Invocations <- AllInvocations
  BufferSize = 12
  BufferSizeTls = 14
CHECK_DEADLOCK FALSE
INVARIANT TypeOK
INVARIANT ArgumentsTaken
INVARIANT OneCommandOneLine
INVARIANT FolderFits
INVARIANT CommandsAsMeant
