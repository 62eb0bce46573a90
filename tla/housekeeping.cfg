\* Two handlers, one process that dies by itself, enables set all or none, one waiting message of each
\* kind, one alert of each handler at a time.
CONSTANTS
  h0 = h0
  h1 = h1
  Handlers <- TwoHandlers
  Settings <- AllOrNone
  MaxFailures = 1
  MaxAlerts = 1
  MaxControl = 1
SPECIFICATION FairSpec
INVARIANTS
  WatchdogMap
  AlwaysWatched
PROPERTY DeadRestarted
CHECK_DEADLOCK FALSE
