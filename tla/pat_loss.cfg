\* Loss timers and the end of a session, with commands queueing up.
CONSTANTS
  Commands <- TrackingCommands
  MaxPending = 2
  LossWait = 1
  Sweep = 2
SPECIFICATION FairSpec
PROPERTIES
  BeaconTimeoutHonest
  CalibTimeoutHonest
  EndPatHonoured
  EndProcessHonoured
  DeadCameraLeavesTracking
CHECK_DEADLOCK FALSE
