SPECIFICATION Spec
CONSTANTS
  l1 = l1
  pcImage = pcImage
  cpcImage = cpcImage
  Empty = Empty
  Loaders <- MCLoaders
  Images <- MCImages
  TracksOf <- MCTracksOf
  ModeOf <- MCModeOf
  Modes <- MCModes
  Hold <- MCHold
  MaxTracks = 2
  CheckPeriod = 2
  SyncRounds = 2
  FtdiLib = FALSE
  MaxLoads = 2
  MaxUnplugs = 1
  MaxFaults = 1
INVARIANTS
  TypeOK
  HandshakeHolds
  WholeImage
  SyncsMatch
  SyncLostOnlyByFault
PROPERTIES
  PulseHeld
