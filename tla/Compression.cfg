SPECIFICATION Spec
CONSTANTS
  WindowBits = 3
  LookaheadBits = 2
  ByteBits = 3
  Letters = {2, 5}
  MaxLen = 9
  CompressOver = 3
  CompCap = 10
  InBuf = 2
  AskBuf = 5
  OutCap = 12
INVARIANTS
  TypeOK
  NeverWrongByte
  WindowfulArrives
  CompressedIsComplete
PROPERTIES
  Completes
CHECK_DEADLOCK FALSE
