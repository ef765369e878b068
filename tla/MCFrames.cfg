CONSTANTS
  XResolution = 3
  YResolution = 3
  UINT16_RANGE = 65536
  MAX_DRAWS = 2
  Sprites <- MCSprites
  Places <- MCPlaces
SPECIFICATION FramesSpec
INVARIANT DrawsFit
PROPERTY DisplayPromised
CHECK_DEADLOCK FALSE
