-------------------------------- MODULE MCImaging --------------------------------
EXTENDS Imaging

\* Dark pictures with any pixels at 5, at most one of them at 6, or at 7, which is more than
\* the histogram holds.
MCFrames ==
  LET lit(s) == [p \in 0..(Width * Height - 1) |-> IF p \in s THEN 5 ELSE 0]
      plain == {lit(s) : s \in SUBSET (0..(Width * Height - 1))}
  IN plain \cup {[f EXCEPT ![p] = v] : v \in 6..7, f \in plain, p \in 0..(Width * Height - 1)}

MCCorners == {<<0, 0>>, <<3, 1>>, <<8, 6>>}

Spot(x, y, n) == [x |-> x, y |-> y, valueMax |-> 6, valueSum |-> 6 * n, pixelCount |-> n]
MCLastSpots == {Spot(0, 0, 0), Spot(7, 2, 3)}
===============================================================================
