\* Six accesses, tokens that go round within them, two tries to connect.
CONSTANTS
  probe = probe
  unmapped = unmapped
  Probe = probe
  Mapped <- OneMapped
  Unmapped <- OneUnmapped
  TokenMod = 3
  Tries = 2
  MaxRequests = 6
SPECIFICATION FairSpec
INVARIANTS
  OwnAnswer
PROPERTIES
  WaitReturns
  PromiseKept
CHECK_DEADLOCK FALSE
