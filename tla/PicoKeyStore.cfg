SPECIFICATION Spec
CONSTANTS
  Key = {k1, k2}
  ManualId = ManualId
  Garbled = Garbled
  None = None
  CounterLimit = 3
  MaxSalts = 4
SYMMETRY KeySymmetry
INVARIANTS
  TypeOK
  PairCoherence
  ActiveKeyBacked
  BootFindsValidSlot
PROPERTIES
  NoNonceReuse
