SPECIFICATION Spec
CONSTANTS
  Tracks <- MCTracks
  Memory <- MCMemory
  Sizes <- MCSizes
  CheckPeriod = 2
  NoPacket = NoPacket
INVARIANTS
  TypeOK
  PacketIsTrack
  PairsKept
  StaysInStep
  SignalsPatched
  SyncBetweenPairs
