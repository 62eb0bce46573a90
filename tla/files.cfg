SPECIFICATION Spec
CONSTANTS
  h1 = h1
  h2 = h2
  A = A
  B = B
  C = C
  Handlers = {h1, h2}
  Files = {A, B, C}
  Length <- MCLength
  MaxCommands = 5
  MaxCrashes = 1
SYMMETRY MCSymmetry
INVARIANT OnlyWholeFilesArrive
PROPERTY StagedUntilArrived
CHECK_DEADLOCK FALSE
