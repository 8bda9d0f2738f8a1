SPECIFICATION Spec
CONSTANTS
  BufferSize = 4
  IntMax = 31
  MaxReply = 40
CHECK_DEADLOCK FALSE
INVARIANT TypeOK
INVARIANT InBounds
INVARIANT NoWrappedLength
