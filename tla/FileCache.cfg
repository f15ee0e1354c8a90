SPECIFICATION Spec
CONSTANTS
  Bytes <- MCBytes
  Fill = 1
  PageBytes = 2
  MaxSize = 5
  NoWrite = NoWrite
  MaxFaults = 2
INVARIANTS
  TypeOK
  PageCoherent
PROPERTY
  ImplementsByteFile
