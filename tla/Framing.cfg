SPECIFICATION Spec
CONSTANTS
  LenSize = 2
  CrcSize = 1
  IdSize = 2
  MaxId = 3
  Hs2Size = 2
  NonceSize = 1
  TagSize = 1
  MaxMsg = 5
  HsSize = 4
  KeySize = 1
  MacSize = 1
  Tap = 8
  Fifo = 7
  TextBuf = 3
  Misread = {0, 2, 3, 4, 5}
  MaxFaults = 4
INVARIANTS
  TypeOK
  IntactFrameArrives
  SecondFrameArrives
PROPERTIES
  ReadsEnd
