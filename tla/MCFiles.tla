-------------------------------- MODULE MCFiles --------------------------------
EXTENDS FileTransfer, TLC

CONSTANTS h1, h2, A, B, C

MCLength == [f \in Files |-> IF f = C THEN 1 ELSE 2]
MCSymmetry == Permutations(Handlers) \cup Permutations({A, B})
===============================================================================
