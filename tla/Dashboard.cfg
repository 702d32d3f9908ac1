SPECIFICATION Spec
CONSTANTS
  MaxThreads = 2
  MaxKeys = 2
  MaxInputs = 3
  Retries = 2
  Window = 0
INVARIANTS
  TypeOK
  AgreedAsReported
PROPERTIES
  ProofDecays
  ShownIdSettles
