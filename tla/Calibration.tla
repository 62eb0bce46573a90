------------------------------ MODULE Calibration ------------------------------
(***************************************************************************)
(* pat/calibration.cpp: the search for an exposure, the spiral that pairs   *)
(* mirror angles with the laser's spots, and the tests of laser and mirror. *)
(*                                                                          *)
(* Windows are left out, and brightness is abstracted to the classes the    *)
(* code tells apart: what a picture turns out to be is open, whatever its   *)
(* exposure.                                                                *)
(***************************************************************************)
EXTENDS Camera, Mirror, Transform

CONSTANTS
  CalMin, CalMax,   \* CALIB_MIN_EXPOSURE, CALIB_MAX_EXPOSURE
  CalIncrement,     \* CALIB_EXP_INCREMENT
  CalDivider,       \* CALIB_EXP_DIVIDER
  Spiral,           \* the angles of the pattern, 100 in the code
  MinPairs,         \* 50 in the code
  Detector(_, _)    \* where the spot is, for the drive of the two axes

ASSUME CalibrationAssumption ==
  /\ CalMin \in Nat \ {0} /\ CalMax \in Nat /\ CalMin <= CalMax
  /\ CalIncrement \in Nat \ {0} /\ CalDivider \in Nat \ {0}
  /\ Spiral \in Seq(Int \X Int) /\ MinPairs \in Nat

VARIABLES
  pc,            \* where PAT's thread is
  task,          \* what for
  coarse,        \* exposure: the next one of a search
  fine,          \* exposure: the next one of the tuning
  preferredExpo,
  turn,          \* angles, corners or checks that are done
  points,        \* the pairs: a spot and the angles it was wanted for
  troubled,      \* something went wrong since the run began (history)
  calibrated     \* the last run returned true (haveCalibKnowledge)

locals == <<coarse, fine, turn, points>>
calVars == <<pc, task, locals, preferredExpo, troubled, calibrated>>

CalInit ==
  /\ pc = "idle" /\ task = "none"
  /\ coarse = 0 /\ fine = 0 /\ turn = 0 /\ points = <<>>
  /\ preferredExpo = CalMin /\ troubled = FALSE /\ calibrated = FALSE

\* What the code makes of a picture.  none: no group of pixels; faint: a group, but
\* verifyFrame fails; dim, bright: outside the tolerance around HAPPY_BRIGHTNESS;
\* low, high: inside it, at most and at least HAPPY_BRIGHTNESS.
Looks == {"none", "faint", "dim", "low", "high", "bright"}
Grouped == Looks \ {"none"}
Verified == Grouped \ {"faint"}
AtMostHappy == {"faint", "dim", "low"}
AtLeastHappy == {"high", "bright"}
Happy == {"low", "high"}

Missed == {"late", "bad"}

Lit == [laser |-> TRUE, mirror |-> output]
Dark == [laser |-> FALSE, mirror |-> output]

\* The task goes on, or it is over and its locals die.
Goto(next) == pc' = next /\ UNCHANGED task
Return ==
  /\ pc' = "idle" /\ task' = "none"
  /\ coarse' = 0 /\ fine' = 0 /\ turn' = 0 /\ points' = <<>>
  /\ troubled' = FALSE

\* A picture for the calibration.
CalShot(scene, got) ==
  /\ Shot(scene, got)
  /\ troubled' = (troubled \/ got # "frame")
  /\ UNCHANGED <<mirrorVars, calibrated>>

\* The mirror is aimed; commands may get lost.
Aim(a, lost) ==
  /\ SetNormalizedAngles(a, lost)
  /\ IF lost = {} THEN UNCHANGED faults ELSE a # reached /\ Fault
  /\ UNCHANGED <<outstanding, queuedCount, frameId, own, stray, doubles>>

-------------------------------------------------------------------------------
(* findExposureRange, with verifyFrame. *)

\* A picture at exposure e: a verified one is tuned, a failure goes on with the
\* exposure after it.
Search(e, after, got, look) ==
  /\ CalShot(Lit, got)
  /\ coarse' = after
  /\ IF got = "frame" /\ look \in Verified
     THEN preferredExpo' = e /\ Goto("tune")
     ELSE UNCHANGED preferredExpo /\ Goto("range")
  /\ UNCHANGED <<fine, turn, points>>

RangeFirst(got, look) == pc = "range0" /\ Search(CalMin, CalMin, got, look)

RangeNext(got, look) ==
  pc = "range" /\ coarse <= CalMax /\ Search(coarse, coarse + CalIncrement, got, look)

-------------------------------------------------------------------------------
(* windowAndTune. *)

Down(e) == e - e \div CalDivider
Up(e) == e + e \div CalDivider

TuneEnds(e) == preferredExpo' = e /\ Goto("found") /\ fine' = 0

Tune(got, look) ==
  /\ pc = "tune"
  /\ CalShot(Lit, got)
  /\ IF got # "frame" \/ look = "none"
     THEN UNCHANGED <<fine, preferredExpo>> /\ Goto("range")
     ELSE IF look \in Happy THEN TuneEnds(preferredExpo)
     ELSE /\ UNCHANGED preferredExpo
          /\ IF look = "bright"
             THEN fine' = Down(preferredExpo) /\ Goto("down")
             ELSE fine' = Up(preferredExpo) /\ Goto("up")
  /\ UNCHANGED <<coarse, turn, points>>

\* One pass of a tuning loop: done when the picture is, else the next exposure.
Try(done, after, got, look) ==
  /\ CalShot(Lit, got)
  /\ IF got = "frame" /\ look \in done
     THEN TuneEnds(fine)
     ELSE fine' = after /\ UNCHANGED <<preferredExpo, pc, task>>
  /\ UNCHANGED <<coarse, turn, points>>

CanAlwaysGoDown == fine >= CalMin  \* faulty: an exposure that no longer shrinks

CanGoDown == fine >= CalMin /\ fine \div CalDivider >= 1
CanGoUp == fine <= CalMax

TuneDown(got, look) ==
  pc = "down" /\ CanGoDown /\ Try(AtMostHappy, Down(fine), got, look)

TuneUp(got, look) ==
  pc = "up" /\ CanGoUp /\ Try(AtLeastHappy, Up(fine), got, look)

\* Out of exposures: the last one has to do.
TuneLimit ==
  /\ \/ pc = "down" /\ ~CanGoDown /\ TuneEnds(CalMin)
     \/ pc = "up" /\ ~CanGoUp /\ TuneEnds(CalMax)
  /\ UNCHANGED <<cameraVars, mirrorVars, coarse, turn, points, troubled, calibrated>>

-------------------------------------------------------------------------------
(* run. *)

\* The mirror is centred and the search begins.  What an earlier wait has left in
\* the queue is not skipped, nor is a mirror off centre that is believed there moved.
RunBegin(lost) ==
  /\ pc = "idle"
  /\ Aim(Centre, lost)
  /\ pc' = "range0" /\ task' = "calibrate"
  /\ troubled' = (outstanding # <<>> \/ output' # Volts(Centre))
  /\ UNCHANGED <<locals, preferredExpo, calibrated>>

RunFails ==
  /\ task = "calibrate" /\ pc = "range" /\ coarse > CalMax
  /\ Return
  /\ calibrated' = FALSE
  /\ UNCHANGED <<cameraVars, mirrorVars, preferredExpo>>

SpiralAim(lost) ==
  /\ task = "calibrate" /\ pc = "found" /\ turn < Len(Spiral)
  /\ Aim(Spiral[turn + 1], lost)
  /\ troubled' = (troubled \/ lost # {})
  /\ Goto("spiral")
  /\ UNCHANGED <<locals, preferredExpo, calibrated>>

Pair(a) == [spot |-> Had(Lit), angles |-> a]

SpiralShotBehind(got, look) ==  \* faulty: the angles of the turn before
  /\ pc = "spiral"
  /\ CalShot(Lit, got)
  /\ points' = IF got = "frame" /\ look \in Grouped
                THEN Append(points, Pair(IF turn = 0 THEN Centre ELSE Spiral[turn]))
                ELSE points
  /\ turn' = turn + 1
  /\ Goto("found")
  /\ UNCHANGED <<coarse, fine, preferredExpo>>

\* A spot is paired with the angles that were set last.
SpiralShot(got, look) ==
  /\ pc = "spiral"
  /\ CalShot(Lit, got)
  /\ points' = IF got = "frame" /\ look \in Grouped
                THEN Append(points, Pair(Spiral[turn + 1]))
                ELSE points
  /\ turn' = turn + 1
  /\ Goto("found")
  /\ UNCHANGED <<coarse, fine, preferredExpo>>

\* The mirror is reset; too few pairs are a failure.
RunEnd(lost) ==
  /\ task = "calibrate" /\ pc = "found" /\ turn = Len(Spiral)
  /\ Aim(Centre, lost)
  /\ calibrated' = (Len(points) >= MinPairs)
  /\ Return
  /\ UNCHANGED preferredExpo

-------------------------------------------------------------------------------
(* testFSM: the laser must be seen at each corner, away from the one before. *)

Corners == <<Centre, <<1, 0>>, <<1, 1>>, <<0, 1>>, Centre>>

FsmBegin ==
  /\ pc = "idle"
  /\ pc' = "corner" /\ task' = "fsm test"
  /\ UNCHANGED <<cameraVars, mirrorVars, locals, preferredExpo, troubled, calibrated>>

FsmAim(lost) ==
  /\ pc = "corner"
  /\ Aim(Corners[turn + 1], lost)
  /\ Goto("check")
  /\ UNCHANGED <<locals, preferredExpo, troubled, calibrated>>

\* The displacement is measured along the axis that was to move.
Displaced(spot, before, k) ==
  LET Along(m) == IF k % 2 = 1 THEN m.XP - m.XM ELSE m.YP - m.YM
  IN Along(spot.mirror) # Along(before.mirror)

\* checkLaserOn and the displacement; between corners logImage saves a picture.
FsmCheck(got, look) ==
  LET on == got = "frame" /\ look \in Verified
      good == on /\ (turn > 0 => Displaced(Had(Lit), points[1].spot, turn))
  IN /\ pc = "check"
     /\ Shot(Lit, got)
     /\ IF good /\ turn < 4
        THEN /\ points' = <<Pair(Corners[turn + 1])>>
             /\ turn' = turn + 1 /\ Goto("save")
             /\ UNCHANGED <<coarse, fine, troubled>>
        ELSE Return
     /\ UNCHANGED <<mirrorVars, preferredExpo, calibrated>>

FsmSave(got) ==
  /\ pc = "save"
  /\ Shot(Lit, got)
  /\ Goto("corner")
  /\ UNCHANGED <<mirrorVars, locals, preferredExpo, troubled, calibrated>>

-------------------------------------------------------------------------------
\* The pairs as run keeps them, with the places of the spots.
Measured ==
  [i \in DOMAIN points |->
     LET m == points[i].spot.mirror
         place == Detector(m.XP - m.XM, m.YP - m.YM)
     IN [x0 |-> place[1], y0 |-> place[2],
         x1 |-> points[i].angles[1], y1 |-> points[i].angles[2]]]

RunSucceeds == task = "calibrate" /\ task' = "none" /\ calibrated'

\* A run that succeeds has the pairs it needs, and when no picture, request or mirror
\* command went wrong on the way, each pair is the laser's spot under just the angles it
\* is paired with (run).
PairsSound ==
  [][ RunSucceeds
      => /\ Len(points) >= MinPairs
         /\ ~troubled => \A i \in 1..Len(points) :
              points[i].spot = [laser |-> TRUE, mirror |-> Volts(points[i].angles)]
    ]_<<calVars, cameraVars, mirrorVars>>

\* And what such a run computes from its pairs, whichever are missing, takes the spots to
\* their angles (calculateAffineParameters, calculateSensitivityMatrix).
CalibrationSound ==
  /\ PairsSound
  /\ [][RunSucceeds /\ ~troubled => TransformsFit(Measured)]_<<calVars, cameraVars, mirrorVars>>

\* Some of the angles of the spiral, in its order.
Selections(n) ==
  {pick \in [1..n -> 1..Len(Spiral)] : \A i, j \in 1..n : i < j => pick[i] < pick[j]}

\* The steps from angles i and from angles j to the next are not parallel.
Turning(pick, i, j) ==
  LET To(l, axis) == Spiral[pick[l + 1]][axis] - Spiral[pick[l]][axis]
  IN To(i, 1) * To(j, 2) # To(j, 1) * To(i, 2)

\* What the spiral is for: whichever angles have no pair, while enough have one the first of
\* those, of which the sensitivity matrix is made, are not on a line.  In the code at most
\* 11 of the 100 angles are on a line, and the first are at least 50 / 4.
Determined ==
  \A n \in MinPairs..Len(Spiral) : \A pick \in Selections(n) :
    \E i, j \in 1..(n \div SensitivityPart) - 1 : Turning(pick, i, j)

\* The upward tuning adds exposure / CALIB_EXP_DIVIDER, which is 0 for a low exposure.
Stalled == pc = "up" /\ CanGoUp /\ Up(fine) = fine

\* A calibration ends, or hangs where the upward tuning adds nothing: there it stays for
\* as long as the spot is too dim (windowAndTune, findExposureRange).
CalibrationEndsOrStalls == task = "calibrate" ~> task = "none" \/ Stalled
===============================================================================
