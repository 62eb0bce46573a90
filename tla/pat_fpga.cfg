\* Calls begin until four requests are sent and two are late, two looks at the answers per check, one
\* restart of PAT.
CONSTANTS
  Attempts = 2
  NumberMod = 2
  LaserNumbers <- ZeroOnly
  MaxRequests = 4
  MaxLate = 2
  MaxKills = 1
SPECIFICATION Spec
INVARIANTS
  LaserNeedsHeater
  EndsDark
PROPERTIES
  FsmOwnAck
  CallReturns
CHECK_DEADLOCK FALSE
