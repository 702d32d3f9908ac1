SPECIFICATION Spec
CONSTANTS
  Key = {k1, k2}
  None = None
  Torn = Torn
  Baud = {b1, b2}
  Insane = Insane
  MaxInputs = 4
INVARIANTS
  TypeOK
  IdNamesMac
PROPERTIES
  ForceActsOnNewest
  RequestsServed
  LastFrameReported
CHECK_DEADLOCK FALSE
