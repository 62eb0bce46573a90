\* The steering mirror may be written and laserOff is called with the number 0, as at
\* the end of main: does its success mean that the laser is off?
CONSTANTS
  Attempts = 2
  NumberMod = 2
  LaserNumbers <- ZeroOnly
  MaxRequests = 4
  MaxLate = 2
  MaxKills = 1
SPECIFICATION Spec
PROPERTY
  OffMeansOff
CHECK_DEADLOCK FALSE
