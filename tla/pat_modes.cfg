\* One command of each kind, one pending at a time; the loss timers are checked in pat_loss.
CONSTANTS
  Commands <- ModeCommands
  MaxPending = 1
  LossWait = 0
  Sweep = 1
SPECIFICATION Spec
VIEW Control
INVARIANTS
  TypeOK
  PointingUsesTransform
  TrackingAims
  OpenLoopReason
CHECK_DEADLOCK FALSE
