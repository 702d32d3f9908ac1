SPECIFICATION Spec
CONSTANTS
  Key = {1, 3}
  IdLimit = 2
  PreSize = 4
  HdrSize = 7
  IdSize = 8
  CipherSize = 16
  MacSize = 32
  Hs1Size = 72
  Hs3Size = 80
  SentCipher = 32
  Pieces = {3}
  MaxNonce = 2
  MaxLight = 1
  MaxEvents = 2
INVARIANT
  PicoTakesSentKey
CHECK_DEADLOCK FALSE
