SPECIFICATION Spec
CONSTANTS
  Key = {k1, k2}
  None = None
  Junk = Junk
  Pushed <- MCPushed
  MaxNonce = 2
  MaxFrames = 2
  MaxEvents = 4
INVARIANTS
  TypeOK
  NeverZeroKey
PROPERTIES
  ImplementsMutualAuth
  FallsQuiet
CHECK_DEADLOCK FALSE
