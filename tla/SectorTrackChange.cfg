SPECIFICATION Spec
CONSTANTS
  Tracks <- MCTracks
  Present <- MCPresent
  Layouts <- MCLayouts
  Calls <- MCCalls
  Cursors <- MCCursors
  Encodings = {"mfm", "fm"}
  MaxCached = 2
  TrackLength = 14
  NoCall = NoCall
  None = None
INVARIANT
  EndReached
CHECK_DEADLOCK FALSE
