\* Two handlers, three commands, two crashes or needless restarts.
CONSTANTS
  h0 = h0
  h1 = h1
  Handlers <- TwoHandlers
  MaxCommands = 3
  MaxFailures = 2
SPECIFICATION FairSpec
INVARIANTS
  OneLossPerProcess
PROPERTIES
  EveryCommandDecided
  NobodyForgotten
CHECK_DEADLOCK FALSE
