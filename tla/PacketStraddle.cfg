SPECIFICATION Spec
CONSTANTS
  Tracks <- MCTracks
  Memory <- MCMemory
  Sizes <- MCEvenSizes
  CheckPeriod = 2
  NoPacket = NoPacket
INVARIANT
  NoStraddle
