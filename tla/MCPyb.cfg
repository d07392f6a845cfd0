SPECIFICATION Spec
CONSTANTS
  U32 = 16
  Word = 64
  Numbers <- MCNumbers
  Buffers <- MCBuffers
  ReadOnly <- MCReadOnly
  Length <- MCLength
  Message <- MCMessage
  picture = picture
  text = text
INVARIANTS
  TypeOK
  BlitInBuffer
  SentInOrder
  KeptIsBuilt
CHECK_DEADLOCK FALSE
