SPECIFICATION Spec
CONSTANTS
  Tracks <- MCTracks
  Present <- MCPresent
  Layouts <- MCLayouts
  Calls <- MCCalls
  Cursors <- MCCursors
  Encodings = {"mfm", "fm"}
  MaxCached = 2
  TrackLength = 14
  NoCall = NoCall
  None = None
INVARIANTS
  TypeOK
  CacheGapless
  CountMatches
  ListInOrder
  ReadHonest
  WrongOnlyAfterStaleHit
PROPERTIES
  DirectoryKept
  CallsReturn
CHECK_DEADLOCK FALSE
