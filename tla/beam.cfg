SPECIFICATION Spec
CONSTANTS
  MaxRequests = 2
  MaxFaults = 2
  CalMin = 1
  CalMax = 5
  CalIncrement = 2
  CalDivider = 2
  Spiral <- MCSpiral
  MinPairs = 3
  Detector <- MCDetector
  SensitivityPart = 1
  Guess = 2
  TrackMin = 1
  TrackMax = 8
  TrackIncrement = 3
  TrackDivider = 2
  Steerings <- MCSteerings
  Losable <- MCLosable
INVARIANTS OwnFrame BacklogCounted MirrorHeals
PROPERTIES CalibrationSound CalibrationEndsOrStalls AcquisitionEnds
CHECK_DEADLOCK FALSE
