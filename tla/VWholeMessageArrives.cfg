SPECIFICATION Spec
CONSTANTS
  WindowBits = 3
  LookaheadBits = 2
  ByteBits = 3
  Letters = {2, 5}
  MaxLen = 10
  CompressOver = 3
  CompCap = 11
  InBuf = 2
  AskBuf = 5
  OutCap = 12
INVARIANT
  WholeMessageArrives
CHECK_DEADLOCK FALSE
