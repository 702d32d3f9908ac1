SPECIFICATION Spec
CONSTANTS
  Key = {1, 3}
  IdLimit = 2
  PreSize = 4
  HdrSize = 7
  IdSize = 8
  CipherSize = 16
  MacSize = 32
  Hs1Size = 72
  Hs3Size = 80
  SentCipher = 32
  Pieces = {3, 4, 5, 6}
  MaxNonce = 2
  MaxLight = 2
  MaxEvents = 2
INVARIANTS
  TypeOK
  PartsOfOneKey
PROPERTIES
  ImplementsMutualAuth
  FallsQuiet
CHECK_DEADLOCK FALSE
