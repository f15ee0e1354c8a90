SPECIFICATION Spec
CONSTANTS
  BufferSize = 3
  MaxBytes = 3
  MaxOpens = 2
  MaxPurges = 1
INVARIANTS
  TypeOK
  InOrder
  ReadFull
  StaleBounded
  ListenerAlone
PROPERTIES
  Delivered
CHECK_DEADLOCK FALSE
