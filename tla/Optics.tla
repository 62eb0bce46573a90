--------------------------------- MODULE Optics ---------------------------------
(***************************************************************************)
(* The arithmetic between a spot and what PAT does about it: windows of the *)
(* camera (camera.cpp, tracking.cpp), the exposure control and the integral *)
(* controller (tracking.cpp), the units of the mirror's DAC (fsm.cpp).      *)
(*                                                                          *)
(* Floating-point quantities are integers here, in units of the caller's.   *)
(***************************************************************************)
EXTENDS Integers, Sequences

CONSTANTS
  CAMERA_WIDTH, CAMERA_HEIGHT,
  MIN_SPOT_LIMIT,          \* TRACK_MIN_SPOT_LIMIT
  SIZE_TOLERANCE,          \* 30 + TRACK_WINDOW_SIZE_TOLERANCE
  QuantumX, QuantumY       \* 16 and 8 in the code

ASSUME WindowAssumption ==
  /\ {CAMERA_WIDTH, CAMERA_HEIGHT, QuantumX, QuantumY} \subseteq Nat \ {0}
  /\ MIN_SPOT_LIMIT \in Nat /\ SIZE_TOLERANCE \in Nat

Abs(n) == IF n < 0 THEN -n ELSE n
AtLeast(n, low) == IF n < low THEN low ELSE n
AtMost(n, high) == IF n > high THEN high ELSE n

-------------------------------------------------------------------------------
(* Windows.  An axis of a window is where it starts and how long it is. *)

\* setCenteredWindow: only the far end of a window in the interior is clamped.
CenteredAxis(centre, length, canvas) ==
  IF centre > length \div 2
  THEN LET start == centre - length \div 2
       IN [start |-> start,
           length |-> IF start + length > canvas THEN canvas - start ELSE length]
  ELSE [start |-> 0, length |-> centre + length \div 2]

CenteredWindow(x, y, w) ==
  [x |-> CenteredAxis(x, w, CAMERA_WIDTH), y |-> CenteredAxis(y, w, CAMERA_HEIGHT)]

RoundUp(n, quantum) == IF n % quantum # 0 THEN n + (quantum - (n % quantum)) ELSE n

ShiftedAxis(spot, size, quantum) ==  \* faulty: what the start gives way is not made up for
  LET from == spot - size \div 2
  IN IF from >= 0
     THEN [start |-> from - (from % quantum), length |-> RoundUp(size, quantum)]
     ELSE [start |-> 0, length |-> RoundUp(size + from, quantum)]

\* updateTrackingWindow, one axis: size around the spot, in multiples of the quantum.
TrackingAxis(spot, size, quantum) ==
  LET from == spot - size \div 2
  IN IF from >= 0
     THEN [start |-> from - (from % quantum), length |-> RoundUp(size + (from % quantum), quantum)]
     ELSE [start |-> 0, length |-> RoundUp(size + from, quantum)]

\* The window still fits the spot, which is at x, y in the picture.
Settled(x, y, width, window) ==
  LET size == width + 2 * MIN_SPOT_LIMIT
      limit == AtLeast(width, MIN_SPOT_LIMIT)
  IN /\ Abs(window.x.length - size) <= SIZE_TOLERANCE
     /\ Abs(window.y.length - size) <= SIZE_TOLERANCE
     /\ x >= limit /\ x <= window.x.length - limit
     /\ y >= limit /\ y <= window.y.length - limit

\* updateTrackingWindow, for a spot of that width in a picture of that area.
TrackingWindow(area, x, y, width, window) ==
  LET size == width + 2 * MIN_SPOT_LIMIT
  IN IF Settled(x, y, width, window) THEN window
     ELSE [x |-> TrackingAxis(area.x.start + x, size, QuantumX),
           y |-> TrackingAxis(area.y.start + y, size, QuantumY)]

Covers(axis, n) == axis.start <= n /\ n < axis.start + axis.length

-------------------------------------------------------------------------------
(* findSpotCandidate: the group most like the last spot, none of them when it is sure. *)

Difference(g, old) ==
  Abs(g.x - old.x) + Abs(g.y - old.y)
  + IF old.pixelCount = 0 THEN 0
    ELSE Abs(g.pixelCount - old.pixelCount) + Abs(g.valueMax \div 2 - old.valueMax \div 2)

SpotCandidate(groups, old) ==
  CHOOSE i \in 1..Len(groups) :
    /\ \A j \in 1..Len(groups) : Difference(groups[i], old) <= Difference(groups[j], old)
    /\ \A j \in 1..(i - 1) : Difference(groups[j], old) # Difference(groups[i], old)

-------------------------------------------------------------------------------
(* controlExposure, with its limits and the divider as arguments. *)

Lowered(exposure, divider, min) == AtLeast(exposure - exposure \div divider, min)
Raised(exposure, divider, max) == AtMost(exposure + exposure \div divider, max)

ControlExposure(difference, tolerance, exposure, divider, min, max) ==
  IF Abs(difference) <= tolerance THEN exposure
  ELSE IF difference > 0 THEN Lowered(exposure, divider, min)
  ELSE Raised(exposure, divider, max)

-------------------------------------------------------------------------------
(* control and setNormalizedAngles; one is the full range of an axis of the mirror. *)

\* An integral step is cut on one side only.
Delta(error, maxDelta) == AtMost(error, maxDelta)

\* Anti-windup.
Action(action, delta, one) ==
  IF Abs(action + delta) > one THEN (IF action + delta > one THEN one ELSE -one)
  ELSE action + delta

\* The two ends of an axis around the bias, for an angle in units of one.
DacUnits(angle, bias, max, one) ==
  LET n == (max * AtLeast(AtMost(angle, one), -one)) \div one
  IN <<bias + n, bias - n>>
===============================================================================
