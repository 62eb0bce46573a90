SPECIFICATION Spec
CONSTANTS
  h1 = h1
  h2 = h2
  Handlers = {h1, h2}
  MaxCommands = 3
  MaxInbox = 2
  MaxKills = 1
INVARIANT MainIsWanted
PROPERTY StatusCatchesUp
CHECK_DEADLOCK FALSE
