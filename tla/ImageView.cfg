SPECIFICATION Spec
CONSTANTS
  Platforms <- MCPlatforms
  MaxImages = 2
  MaxClicks = 2
INVARIANTS
  TypeOK
  DisplayKept
  PointingAlone
  ViewCurrent
  ImagesReleased
  StuckByLostSignal
PROPERTIES
  UpdateShown
