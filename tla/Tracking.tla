-------------------------------- MODULE Tracking --------------------------------
(***************************************************************************)
(* pat/tracking.cpp, as main.cpp calls it: the acquisition of the beacon,   *)
(* and the loop that pictures beacon and laser in turn and steers by them.  *)
(*                                                                          *)
(* Windows and the exposure control of the loop are left out (see Optics).  *)
(***************************************************************************)
EXTENDS Calibration

CONSTANTS
  Guess,            \* TRACK_GUESS_EXPOSURE
  TrackMin,         \* TRACK_MIN_EXPOSURE
  TrackMax,         \* maxBcnExposure
  TrackIncrement,   \* TRACK_ACQUISITION_EXP_INCREMENT
  TrackDivider,     \* TRACK_TUNING_EXP_DIVIDER
  Steerings         \* angles the loop may steer to

\* With the code's values the sweep downwards is over before its first picture.
ASSUME TrackingAssumption ==
  /\ {Guess, TrackMin, TrackIncrement, TrackDivider} \subseteq Nat \ {0} /\ TrackMax \in Nat
  /\ Guess - TrackIncrement < TrackMin
  /\ Steerings \subseteq Int \X Int

trackConstant == <<mirrorVars, preferredExpo, troubled, calibrated>>

Between(next) == Goto(next) /\ UNCHANGED <<turn, points>>

\* The laser is switched off for the acquisition.
AcquireBegin ==
  /\ pc = "idle"
  /\ pc' = "acquire" /\ task' = "acquire"
  /\ UNCHANGED <<cameraVars, locals, trackConstant>>

\* ignoreNextFrames, before the guess and again when the acquisition is done: as many
\* pictures are skipped as are counted now.
SkipBegin ==
  /\ pc \in {"acquire", "clear"}
  /\ Goto(IF pc = "acquire" THEN "skip" ELSE "skip again")
  /\ turn' = queuedCount
  /\ own' = TRUE /\ stray' = FALSE
  /\ UNCHANGED <<outstanding, queuedCount, frameId, doubles, faults, coarse, fine, points, trackConstant>>

Skip(got) ==
  /\ pc \in {"skip", "skip again"} /\ turn > 0
  /\ SkipFrame(got)
  /\ turn' = turn - 1
  /\ UNCHANGED <<pc, task, coarse, fine, points, trackConstant>>

Skipped ==
  /\ pc \in {"skip", "skip again"} /\ turn <= 0
  /\ pc' = IF pc = "skip" THEN "guess" ELSE "beacon"
  /\ task' = IF pc = "skip" THEN task ELSE "track"
  /\ turn' = 0
  /\ UNCHANGED <<cameraVars, coarse, fine, points, trackConstant>>

-------------------------------------------------------------------------------
(* runAcquisition, with windowAndTune and autoTuneExposure. *)

TrackDown(e) == e - e \div TrackDivider
TrackUp(e) == e + e \div TrackDivider

SameExposure(e) == e  \* faulty: the sweep does not go on after a failed tuning

NextExposure(e) == e + TrackIncrement

\* A picture of the sweep; fine holds its exposure for the tuning.
Sweep(e, got, look) ==
  /\ Shot(Dark, got)
  /\ coarse' = NextExposure(e)
  /\ IF got = "frame" /\ look \in Verified
     THEN fine' = e /\ Between("acquire tune")
     ELSE fine' = 0 /\ Between("sweep")
  /\ UNCHANGED trackConstant

SweepGuess(got, look) == pc = "guess" /\ Sweep(Guess, got, look)

SweepUp(got, look) == pc = "sweep" /\ coarse <= TrackMax /\ Sweep(coarse, got, look)

\* autoTuneExposure's first picture.
AcquireTune(got, look) ==
  /\ pc = "acquire tune"
  /\ Shot(Dark, got)
  /\ IF got # "frame" \/ look = "none" THEN fine' = 0 /\ Between("sweep")
     ELSE IF look \in Happy THEN fine' = 0 /\ Between("acquired")
     ELSE IF look = "bright" THEN fine' = TrackDown(fine) /\ Between("acquire down")
     ELSE fine' = TrackUp(fine) /\ Between("acquire up")
  /\ UNCHANGED <<coarse, trackConstant>>

AcquireTry(done, after, got, look) ==
  /\ Shot(Dark, got)
  /\ IF got = "frame" /\ look \in done
     THEN fine' = 0 /\ Between("acquired")
     ELSE fine' = after /\ UNCHANGED <<pc, task, turn, points>>
  /\ UNCHANGED <<coarse, trackConstant>>

TrackCanGoDown == fine >= TrackMin /\ fine \div TrackDivider >= 1
TrackCanGoUp == fine <= TrackMax

AcquireDown(got, look) ==
  pc = "acquire down" /\ TrackCanGoDown /\ AcquireTry(AtMostHappy, TrackDown(fine), got, look)

AcquireUp(got, look) ==
  pc = "acquire up" /\ TrackCanGoUp /\ AcquireTry(AtLeastHappy, TrackUp(fine), got, look)

\* Out of exposures: unlike the calibration's, this tuning has failed.
AcquireLimit ==
  /\ \/ pc = "acquire down" /\ ~TrackCanGoDown
     \/ pc = "acquire up" /\ ~TrackCanGoUp
  /\ fine' = 0 /\ Between("sweep")
  /\ UNCHANGED <<cameraVars, coarse, trackConstant>>

\* The sweep is over, or END_PAT or END_PROCESS is polled on the way; PAT saves a
\* picture in the latter case.
AcquireFails ==
  /\ pc = "sweep" /\ coarse > TrackMax
  /\ Return
  /\ UNCHANGED <<cameraVars, mirrorVars, preferredExpo, calibrated>>

AcquireEnded(got) ==
  /\ pc = "sweep"
  /\ Shot(Dark, got)
  /\ Return
  /\ UNCHANGED <<mirrorVars, preferredExpo, calibrated>>

-------------------------------------------------------------------------------
(* main.cpp: ACQUISITION when it has succeeded, CL_BEACON, CL_CALIB, OPEN_LOOP. *)

\* A picture is saved, the mirror pointed open-loop.
Acquired(got) ==
  /\ pc = "acquired"
  /\ Shot(Dark, got)
  /\ coarse' = 0 /\ Goto("point")
  /\ UNCHANGED <<fine, turn, points, trackConstant>>

Steer(a, lost, next) ==
  /\ Aim(a, lost)
  /\ Goto(next)
  /\ UNCHANGED <<locals, preferredExpo, troubled, calibrated>>

AcquiredPoint(a, lost) ==
  /\ pc = "point" /\ Steer(a, lost, "clear")

\* The laser is off for the beacon and on for its own spot; a spot that is seen
\* steers the mirror.  The loop is left for good or for another acquisition.
TrackBeacon(got) ==
  /\ pc = "beacon"
  /\ Shot(Dark, got) /\ Goto("laser")
  /\ UNCHANGED <<locals, trackConstant>>

TrackLaser(got, look) ==
  /\ pc = "laser"
  /\ Shot(Lit, got)
  /\ Goto(IF got = "frame" /\ look \in Grouped THEN "steer" ELSE "beacon")
  /\ UNCHANGED <<locals, trackConstant>>

TrackSteer(a, lost) ==
  /\ pc = "steer" /\ Steer(a, lost, "beacon")

TrackEnds ==
  /\ pc \in {"beacon", "laser"}
  /\ Return
  /\ UNCHANGED <<cameraVars, mirrorVars, preferredExpo, calibrated>>

-------------------------------------------------------------------------------
\* An acquisition ends, in a lock on the beacon or without one, whatever the pictures
\* show (runAcquisition, autoTuneExposure, ignoreNextFrames).
AcquisitionEnds == task = "acquire" ~> task # "acquire"
===============================================================================
