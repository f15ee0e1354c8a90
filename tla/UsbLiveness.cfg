SPECIFICATION FairSpec
CONSTANTS
  l1 = l1
  pcImage = pcImage
  cpcImage = cpcImage
  Empty = Empty
  Loaders <- MCLoaders
  Images <- MCImages
  TracksOf <- MCOneTrackOf
  ModeOf <- MCModeOf
  Modes <- MCModes
  Hold <- MCHold
  MaxTracks = 1
  CheckPeriod = 2
  SyncRounds = 1
  FtdiLib = FALSE
  MaxLoads = 2
  MaxUnplugs = 1
  MaxFaults = 0
PROPERTIES
  LossNoticed
  LoadCompletes
  StartHonoured
