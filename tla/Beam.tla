---------------------------------- MODULE Beam ----------------------------------
(***************************************************************************)
(* What PAT (main.cpp) does with its camera, its laser and its mirror, one  *)
(* job at a time: calibrations, tests, pictures, acquisition and tracking.  *)
(* Which job comes when is Pat's matter; here any may follow any.           *)
(***************************************************************************)
EXTENDS Tracking

CONSTANT Losable   \* the sets of mirror commands that may get lost together

ASSUME LosableAssumption == {} \in Losable /\ Losable \subseteq SUBSET Ends

vars == <<calVars, cameraVars, mirrorVars>>

Init == CalInit /\ CameraInit /\ MirrorInit

-------------------------------------------------------------------------------
(* CMD_CALIB_LASER_TEST and the laser test of the self test. *)

\* The self test looks for an exposure first, and does without when none is found.
LaserTestBegin(lost) ==
  /\ pc = "idle"
  /\ Aim(Centre, lost)
  /\ \E first \in {"range0", "found"} : pc' = first
  /\ task' = "laser test"
  /\ UNCHANGED <<locals, preferredExpo, troubled, calibrated>>

\* Laser on, checked and saved, laser off, checked and saved, and all again; a laser
\* that is not seen on is not switched off, and a self test saves that picture too.
LaserCheck(got, look) ==
  LET on == turn % 2 = 0
      passed == got = "frame" /\ (on <=> look \in Verified)
  IN /\ task = "laser test" /\ turn < 4
     /\ pc = "found" \/ (pc = "range" /\ coarse > CalMax)
     /\ Shot(IF on THEN Lit ELSE Dark, got)
     /\ coarse' = 0
     /\ turn' = IF on /\ ~passed THEN turn + 2 ELSE turn + 1
     /\ \/ Goto(IF on THEN "lit image" ELSE "dark image")
        \/ ~passed /\ Goto("found")
     /\ UNCHANGED <<fine, points, trackConstant>>

LaserImage(got) ==
  /\ \/ pc = "lit image" /\ Shot(Lit, got)
     \/ pc = "dark image" /\ Shot(Dark, got)
  /\ Goto("found")
  /\ UNCHANGED <<locals, trackConstant>>

LaserTestOver ==
  /\ task = "laser test" /\ turn = 4 /\ pc = "found"
  /\ Return
  /\ UNCHANGED <<cameraVars, mirrorVars, preferredExpo, calibrated>>

\* CMD_GET_IMAGE: logImage.
GetImage(got) ==
  /\ pc = "idle"
  /\ Shot(Dark, got)
  /\ UNCHANGED <<pc, task, locals, trackConstant>>

-------------------------------------------------------------------------------
ShotStep(got, look) ==
  \/ RangeFirst(got, look) \/ RangeNext(got, look)
  \/ Tune(got, look) \/ TuneDown(got, look) \/ TuneUp(got, look)
  \/ SpiralShot(got, look)
  \/ FsmCheck(got, look)
  \/ SweepGuess(got, look) \/ SweepUp(got, look)
  \/ AcquireTune(got, look) \/ AcquireDown(got, look) \/ AcquireUp(got, look)
  \/ TrackLaser(got, look)
  \/ LaserCheck(got, look)

SaveStep(got) ==
  \/ FsmSave(got) \/ LaserImage(got)
  \/ Skip(got) \/ Acquired(got) \/ TrackBeacon(got)

AimStep(lost) ==
  \/ SpiralAim(lost) \/ RunEnd(lost) \/ FsmAim(lost)
  \/ \E a \in Steerings : AcquiredPoint(a, lost) \/ TrackSteer(a, lost)

\* PAT gets on with its job.
Work ==
  \/ \E got \in {"frame"} \cup Missed, look \in Looks : ShotStep(got, look)
  \/ \E got \in {"frame"} \cup Missed : SaveStep(got)
  \/ \E lost \in Losable : AimStep(lost)
  \/ TuneLimit \/ RunFails \/ LaserTestOver
  \/ SkipBegin \/ Skipped \/ AcquireLimit \/ AcquireFails

\* A command begins a job, or ends one of those that listen.
Command ==
  \/ \E lost \in Losable : RunBegin(lost) \/ LaserTestBegin(lost)
  \/ FsmBegin \/ AcquireBegin
  \/ \E got \in {"frame"} \cup Missed : GetImage(got) \/ AcquireEnded(got)
  \/ TrackEnds

Next == Work \/ Command

Spec == Init /\ [][Next]_vars /\ WF_vars(Work)
===============================================================================
