SPECIFICATION ImagingSpec
CONSTANTS
  Width = 5
  Height = 2
  Frames <- MCFrames
  TopValue = 6
  OFFSET = 1
  MIN_PIXELS = 2
  MAX_GROUPS = 2
  MAX_ACTIVE_PIXELS = 6
  IntMod = 64
  ShortMod = 256
  CAMERA_WIDTH = 12
  CAMERA_HEIGHT = 8
  MIN_SPOT_LIMIT = 1
  SIZE_TOLERANCE = 1
  QuantumX = 4
  QuantumY = 2
  AreaCorners <- MCCorners
  LastSpots <- MCLastSpots
  BRIGHTNESS = 5
  MAX_DIFFERENCE = 6
INVARIANTS GroupsAreSpots DepthBounded WindowFollows
CHECK_DEADLOCK FALSE
