SPECIFICATION Spec
CONSTANTS
  U32 = 16
  Word = 64
  Numbers <- MCNumbers
  Buffers <- MCBuffers
  ReadOnly <- MCReadOnly
  Length <- MCLength
  Message <- MCMessage
  picture = picture
  text = text
INVARIANTS
  DrawnAsWide
CHECK_DEADLOCK FALSE
