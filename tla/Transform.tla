------------------------------- MODULE Transform -------------------------------
(***************************************************************************)
(* pat/calibration.cpp: what a calibration computes from its pairs, the      *)
(* affine transform from the detector to the mirror and the sensitivity     *)
(* matrix, both by least squares, and the functions that apply them.        *)
(*                                                                          *)
(* A double is a fraction: the numerators are kept beside one denominator,  *)
(* so rounding is left out and a division by zero is a denominator of 0.    *)
(***************************************************************************)
EXTENDS Integers, Sequences

CONSTANT SensitivityPart   \* 4 in the code: the first quarter of the pairs

ASSUME SensitivityPartAssumption == SensitivityPart \in Nat \ {0}

\* A pair of a spot (x0, y0) on the detector and angles (x1, y1), or a difference of two.
Coordinates == {"x0", "y0", "x1", "y1"}

Minus(p, q) == [c \in Coordinates |-> p[c] - q[c]]

Total(s) ==
  LET sum[i \in 0..Len(s)] == IF i = 0 THEN 0 ELSE sum[i - 1] + s[i]
  IN sum[Len(s)]

\* The matrix that best takes the spots to the angles: YXSum times the inverse of XXSum.
LeastSquares(data) ==
  LET S(a, b) == Total([i \in DOMAIN data |-> data[i][a] * data[i][b]])
  IN [m00 |-> S("x1", "x0") * S("y0", "y0") - S("x1", "y0") * S("y0", "x0"),
      m01 |-> S("x1", "y0") * S("x0", "x0") - S("x1", "x0") * S("x0", "y0"),
      m10 |-> S("y1", "x0") * S("y0", "y0") - S("y1", "y0") * S("y0", "x0"),
      m11 |-> S("y1", "y0") * S("x0", "x0") - S("y1", "x0") * S("x0", "y0"),
      d |-> S("x0", "x0") * S("y0", "y0") - S("x0", "y0") * S("y0", "x0")]

\* The centre of mass, times the number of pairs, and the pairs around it, times that too.
Centers(data) == [c \in Coordinates |-> Total([i \in DOMAIN data |-> data[i][c]])]

Centred(data) ==
  [i \in DOMAIN data |->
     Minus([c \in Coordinates |-> Len(data) * data[i][c]], Centers(data))]

\* t0 and t1 are over the number of pairs, too.
AffineParameters(data) ==
  LET a == LeastSquares(Centred(data))
      centers == Centers(data)
  IN [a |-> a, n |-> Len(data),
      t0 |-> a.d * centers.x1 - a.m00 * centers.x0 - a.m01 * centers.y0,
      t1 |-> a.d * centers.y1 - a.m10 * centers.x0 - a.m11 * centers.y0]

\* Differences of neighbours, of the first pairs only.
SensitivityMatrix(data) ==
  LeastSquares([i \in 1..(Len(data) \div SensitivityPart) - 1 |->
                  Minus(data[i + 1], data[i])])

\* affineTransformX and Y, transformDx and Dy.
AffineTransform(p, x, y) ==
  [x |-> p.n * (p.a.m00 * x + p.a.m01 * y) + p.t0,
   y |-> p.n * (p.a.m10 * x + p.a.m11 * y) + p.t1, over |-> p.n * p.a.d]

TransformD(s, x, y) ==
  [x |-> s.m00 * x + s.m01 * y, y |-> s.m10 * x + s.m11 * y, over |-> s.d]

-------------------------------------------------------------------------------
\* A fraction, in both coordinates, and not one over 0.
Is(fraction, x, y) ==
  fraction.over # 0 /\ fraction.x = fraction.over * x /\ fraction.y = fraction.over * y

\* The two take every spot, and every difference of spots, to its angles.
TransformsFit(data) ==
  LET affine == AffineParameters(data)
      sensitivity == SensitivityMatrix(data)
  IN \A p, q \in {data[i] : i \in DOMAIN data} :
       /\ Is(AffineTransform(affine, p.x0, p.y0), p.x1, p.y1)
       /\ Is(TransformD(sensitivity, p.x0 - q.x0, p.y0 - q.y0), p.x1 - q.x1, p.y1 - q.y1)
===============================================================================
