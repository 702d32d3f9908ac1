SPECIFICATION QueueSpec
CONSTANTS
  Size = 3
  Garbage = Garbage
  MaxOffered = 8
INVARIANTS
  QueueTypeOK
  RingIsBacklog
  NoLostWakeup
  InOrder
PROPERTIES
  QueuedIsPosted
