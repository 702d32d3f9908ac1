SPECIFICATION WindowSpec
CONSTANTS
  Cap = 3
  Nonce = {Zero, n1, n2, n3, n4}
  Zero = Zero
  MaxAdded = 9
INVARIANTS
  WindowTypeOK
  RingIsRecent
  ReplayDistance
  FreshPasses
