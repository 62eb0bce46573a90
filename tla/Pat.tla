---------------------------------- MODULE Pat ----------------------------------
(***************************************************************************)
(* The control skeleton of the pointing, acquisition and tracking (PAT)     *)
(* process: pat/main.cpp with Tracking::runAcquisition, Calibration::run    *)
(* and Calibration::testFSM.                                                *)
(*                                                                          *)
(* The process is one thread of nested loops.  "at" says which loop it is   *)
(* in; one action is one pass of that loop body, one phase handler or one   *)
(* standby command, with every call it makes.  Pixels, exposures and        *)
(* offsets are abstracted to the verdict the code reaches on a frame.       *)
(***************************************************************************)
EXTENDS Integers, Sequences

CONSTANTS
  Commands,    \* the commands the ground may send, a subset of Command
  MaxPending,  \* bound on the commands waiting in pat_control_port
  LossWait,    \* PERIOD_BEACON_LOSS and PERIOD_CALIB_LOSS, in clock ticks
  Sweep        \* exposures runAcquisition tries after its first guess

StartOps == {"START_PAT", "START_PAT_OPEN_LOOP", "START_PAT_BUS_FEEDBACK",
             "START_PAT_OPEN_LOOP_BUS_FEEDBACK"}
OpenLoopOps == {"START_PAT_OPEN_LOOP", "START_PAT_OPEN_LOOP_BUS_FEEDBACK"}
FeedbackOps == {"START_PAT_BUS_FEEDBACK", "START_PAT_OPEN_LOOP_BUS_FEEDBACK"}

\* SETTING stands for every command that only stores a number (windows,
\* offsets, periods), for TEST_BUS_FEEDBACK and for unknown commands.
PlainOps == {"STATIC_POINT", "BCN_ALIGN", "TX_ALIGN", "UPDATE_FSM",
             "CALIB_TEST", "CALIB_LASER_TEST", "FSM_TEST", "SELF_TEST",
             "GET_IMAGE", "ENABLE_DITHER", "SETTING", "END_PAT", "END_PROCESS"}

\* main_entry_flag of a START command: SKIP_CALIB_FLAG, DO_CALIB_FLAG, another.
Command == [op : StartOps, flag : {"SKIP", "DO", "OTHER"}]
             \cup [op : PlainOps, flag : {"NONE"}]

ASSUME CommandsAssumption == Commands \subseteq Command
ASSUME BoundsAssumption == /\ MaxPending \in Nat
                           /\ LossWait \in Nat
                           /\ Sweep \in Nat \ {0}

VARIABLES
  at,              \* where the thread is
  phase,           \* the variable of that name
  camera,          \* camera_initialized
  openLoop, busFeedback, bcnAlignment, dithering, \* mode flags, never cleared
  staticInit,      \* static_pointing_initialized
  endPat,          \* track.received_end_pat_cmd
  sweep,           \* exposures runAcquisition still tries
  calKnow,         \* haveCalibKnowledge
  bcnKnow,         \* haveBeaconKnowledge
  transform,       \* the affine transform has been computed
  mirror,          \* how the last command to the steering mirror was made
  lossB, lossC,    \* age of startBeaconLoss and startCalibLoss
  darkB, darkC,    \* age of the last confident beacon and calib frame (history)
  passed, failed,  \* self_test_passed, self_test_failed
  queue,           \* commands not yet received from pat_control_port
  frames,          \* the camera still delivers frames
  stop             \* the SIGINT flag

sensors == <<calKnow, bcnKnow, transform, lossB, lossC, darkB, darkC>>
modes   == <<openLoop, busFeedback, bcnAlignment, dithering>>
tests   == <<passed, failed>>
outside == <<frames, stop>>
vars == <<at, phase, camera, modes, staticInit, endPat, sweep, sensors, mirror,
          tests, queue, outside>>

Places == {"camera", "standby", "poll", "phase", "acquire", "shutdown",
           "ended", "crashed", "stalled", "stalledTest", "stalledSelf"}
Phases == {"CALIBRATION", "ACQUISITION", "CL_INIT", "CL_BEACON", "CL_CALIB",
           "OPEN_LOOP", "STATIC_POINT"}
ClosedLoop == {"CL_INIT", "CL_BEACON", "CL_CALIB"}
Tracking   == ClosedLoop \cup {"OPEN_LOOP"}

\* straight: normalized (0,0); center: the calibrated centre of the detector;
\* manual: offset by UPDATE_FSM; tracking: from the beacon; test: left by testFSM.
Mirror   == {"unset", "straight", "center", "manual", "tracking", "test"}
Computed == {"center", "manual", "tracking"}  \* went through affineTransform

Ages  == 0 .. LossWait + 1        \* ages saturate one tick after the time-out
Older(age) == IF age > LossWait THEN age ELSE age + 1
Alive == at \notin {"ended", "crashed"}
InMain == at \in {"poll", "phase", "acquire", "stalled"}

\* In a tuning loop that goes round with the same exposure, entered from the
\* calibration phase, from CMD_CALIB_TEST or from CMD_SELF_TEST.
Stalled == at \in {"stalled", "stalledTest", "stalledSelf"}

Init ==
  /\ camera \in BOOLEAN
  /\ at = IF camera THEN "standby" ELSE "camera"
  /\ mirror = IF camera THEN "straight" ELSE "unset"
  /\ phase = "CALIBRATION"
  /\ openLoop = FALSE /\ busFeedback = FALSE /\ bcnAlignment = FALSE
  /\ dithering = FALSE /\ staticInit = FALSE /\ endPat = FALSE
  /\ calKnow = FALSE /\ bcnKnow = FALSE /\ transform = FALSE
  /\ lossB = LossWait + 1 /\ lossC = LossWait + 1
  /\ darkB = LossWait + 1 /\ darkC = LossWait + 1
  /\ passed = FALSE /\ failed = FALSE
  /\ sweep = 0 /\ queue = <<>> /\ frames = TRUE /\ stop = FALSE

-------------------------------------------------------------------------------
(* Verdicts of the calls a handler makes. *)

\* A frame: "spot" passes every check, "jump" is bright but too different from
\* the last one, "weak" fails another check, "none" is waitForFrame() failing.
Verdict == IF frames THEN {"spot", "jump", "weak", "none"} ELSE {"none"}

\* How Calibration::run ends, if it does: the mirror is at (0,0) whether it succeeds
\* or not, and the transform is replaced only when it succeeds.
RunCalibration(ok) ==
  /\ ok => frames
  /\ mirror' = "straight"
  /\ transform' = (transform \/ ok)
  /\ darkC' = IF ok THEN 0 ELSE darkC
  /\ UNCHANGED <<bcnKnow, lossB, lossC, darkB>>

\* windowAndTune raises a low exposure by a part of it that is 0: it takes the same
\* picture over and over, without a poll, while the spot is as dim as it was.
Stall(place) ==
  /\ frames
  /\ at' = place
  /\ mirror' = "straight"
  /\ UNCHANGED sensors

\* Using the camera of a process that never opened it dereferences config and
\* fi, which Camera::initialize did not set.
Crash ==
  /\ at' = "crashed"
  /\ UNCHANGED <<phase, modes, staticInit, endPat, sweep, sensors, mirror, tests>>

-------------------------------------------------------------------------------
(* The camera initialization loop. *)

\* One pass: poll, then initialize() again unless the command left the loop.
CameraLoop ==
  /\ at = "camera"
  /\ IF queue # <<>> /\ Head(queue).op \in {"STATIC_POINT", "END_PROCESS"}
     THEN /\ at' = IF Head(queue).op = "STATIC_POINT" THEN "poll" ELSE "ended"
          /\ phase' = IF Head(queue).op = "STATIC_POINT" THEN "STATIC_POINT" ELSE phase
          /\ UNCHANGED camera
     ELSE /\ camera' \in BOOLEAN
          /\ at' = IF stop THEN "ended" ELSE IF camera' THEN "standby" ELSE "camera"
          /\ UNCHANGED phase
  /\ mirror' = IF at' \in {"poll", "standby"} THEN "straight" ELSE mirror
  /\ queue' = IF queue = <<>> THEN queue ELSE Tail(queue)
  /\ UNCHANGED <<modes, staticInit, endPat, sweep, sensors, tests, outside>>

-------------------------------------------------------------------------------
(* The standby loop. *)

\* STANDBY = false; the two lines before the main loop reset endPat.
EnterMain(p) ==
  /\ at' = "poll"
  /\ phase' = p
  /\ endPat' = FALSE

StartPat(c) ==
  /\ c.op \in StartOps
  /\ c.flag \in {"SKIP", "DO"}
  /\ EnterMain(IF c.flag = "SKIP" /\ calKnow THEN "ACQUISITION" ELSE "CALIBRATION")
  /\ openLoop' = (openLoop \/ c.op \in OpenLoopOps)
  /\ busFeedback' = (busFeedback \/ c.op \in FeedbackOps)
  /\ UNCHANGED <<bcnAlignment, dithering, staticInit, sweep, sensors, mirror, tests>>

StartStaticPoint(c) ==
  /\ c.op = "STATIC_POINT"
  /\ EnterMain("STATIC_POINT")
  /\ UNCHANGED <<modes, staticInit, sweep, sensors, mirror, tests>>

BcnAlign(c) ==
  /\ c.op = "BCN_ALIGN"
  /\ EnterMain("ACQUISITION")
  /\ bcnAlignment' = TRUE
  /\ openLoop' = TRUE
  /\ UNCHANGED <<busFeedback, dithering, staticInit, sweep, sensors, mirror, tests>>

PointManuallyUnchecked(c) ==  \* faulty: no look at haveCalibKnowledge
  /\ c.op \in {"TX_ALIGN", "UPDATE_FSM"}
  /\ mirror' = IF c.op = "TX_ALIGN" THEN "center" ELSE "manual"
  /\ UNCHANGED <<at, phase, modes, staticInit, endPat, sweep, sensors, tests>>

\* TX_ALIGN and UPDATE_FSM_X/Y point through the transform, if it may be used.
PointManually(c) ==
  /\ c.op \in {"TX_ALIGN", "UPDATE_FSM"}
  /\ mirror' = IF ~calKnow THEN mirror
               ELSE IF c.op = "TX_ALIGN" THEN "center" ELSE "manual"
  /\ UNCHANGED <<at, phase, modes, staticInit, endPat, sweep, sensors, tests>>

CalibTestEnds == \E ok \in BOOLEAN : RunCalibration(ok) /\ calKnow' = ok

\* CMD_CALIB_TEST: nothing happens when laserOn fails.
CalibTest(c) ==
  /\ c.op = "CALIB_TEST"
  /\ \/ UNCHANGED <<at, mirror, sensors>>
     \/ camera /\ UNCHANGED at /\ CalibTestEnds
     \/ camera /\ Stall("stalledTest")
     \/ ~camera /\ Crash
  /\ UNCHANGED <<phase, modes, staticInit, endPat, sweep, tests>>

\* CMD_GET_IMAGE, CMD_CALIB_LASER_TEST and CMD_FSM_TEST use the camera first;
\* testFSM leaves the mirror displaced when a check fails under way.
HardwareTest(c) ==
  /\ c.op \in {"GET_IMAGE", "CALIB_LASER_TEST", "FSM_TEST"}
  /\ camera
  /\ mirror' \in CASE c.op = "GET_IMAGE" -> {mirror}
                   [] c.op = "CALIB_LASER_TEST" -> {"straight"}
                   [] c.op = "FSM_TEST" ->
                        {mirror, "straight", IF frames THEN "test" ELSE "straight"}
  /\ UNCHANGED <<at, phase, modes, staticInit, endPat, sweep, sensors, tests>>

TestWithoutCamera(c) ==
  /\ c.op \in {"GET_IMAGE", "CALIB_LASER_TEST", "FSM_TEST", "SELF_TEST"}
  /\ ~camera
  /\ Crash

\* "bad" is the first test that fails.  The camera test is never that one: its
\* result is overwritten with PASS before it is looked at.
SelfTestEnds(bad) ==
  /\ (camera /\ frames) \/ bad \in {"fpga", "laser"}
  /\ \/ bad = "fpga" /\ UNCHANGED <<mirror, sensors>>
     \/ bad = "laser" /\ mirror' = "straight" /\ UNCHANGED sensors
     \/ bad = "fsm" /\ mirror' \in {"straight", "test"} /\ UNCHANGED sensors
     \/ /\ bad \in {"calibration", "offset", "none"}
        /\ RunCalibration(bad # "calibration")
        /\ calKnow' = (calKnow \/ bad # "calibration")
  /\ passed' = (passed \/ bad = "none")
  /\ failed' = (failed \/ ~passed')

LaterTests == {"laser", "fsm", "calibration", "offset", "none"}

\* CMD_SELF_TEST tunes the exposure twice, for the laser test and to calibrate.
SelfTest(c) ==
  /\ c.op = "SELF_TEST"
  /\ \/ UNCHANGED at /\ \E bad \in {"fpga"} \cup LaterTests : SelfTestEnds(bad)
     \/ camera /\ Stall("stalledSelf") /\ UNCHANGED tests
  /\ UNCHANGED <<phase, modes, staticInit, endPat, sweep>>

\* Commands that leave the control state alone, but for the dithering flag;
\* END_PAT and a START with an unknown flag are among them.
OtherCommand(c) ==
  /\ \/ c.op \in {"ENABLE_DITHER", "SETTING", "END_PAT"}
     \/ c.op \in StartOps /\ c.flag = "OTHER"
  /\ dithering' = (dithering \/ c.op = "ENABLE_DITHER")
  /\ UNCHANGED <<at, phase, openLoop, busFeedback, bcnAlignment, staticInit,
                 endPat, sweep, sensors, mirror, tests>>

EndProcess(c) ==
  /\ c.op = "END_PROCESS"
  /\ at' = "shutdown"
  /\ UNCHANGED <<phase, modes, staticInit, endPat, sweep, sensors, mirror, tests>>

StandbyCommand ==
  /\ at = "standby" /\ ~stop /\ queue # <<>>
  /\ queue' = Tail(queue)
  /\ LET c == Head(queue) IN
       \/ StartPat(c) \/ StartStaticPoint(c) \/ BcnAlign(c) \/ PointManually(c)
       \/ CalibTest(c) \/ HardwareTest(c) \/ TestWithoutCamera(c)
       \/ SelfTest(c) \/ OtherCommand(c) \/ EndProcess(c)
  /\ UNCHANGED <<camera, outside>>

StandbyStop ==
  /\ at = "standby" /\ stop
  /\ at' = "shutdown"
  /\ UNCHANGED <<phase, camera, modes, staticInit, endPat, sweep, sensors,
                 mirror, tests, queue, outside>>

-------------------------------------------------------------------------------
(* The main loop: stop flag, poll, exit flag, then the phase handler. *)

\* At most one command is taken; only the end commands have a control effect,
\* and a START received here is thrown away.
MainPoll ==
  /\ at = "poll"
  /\ IF stop THEN at' = "shutdown" /\ UNCHANGED queue
     ELSE LET op == IF queue = <<>> THEN "none" ELSE Head(queue).op IN
          /\ queue' = IF queue = <<>> THEN queue ELSE Tail(queue)
          /\ at' = CASE op = "END_PROCESS" -> "shutdown"
                     [] op # "END_PROCESS" /\ (op = "END_PAT" \/ endPat) -> "standby"
                     [] OTHER -> "phase"
  /\ UNCHANGED <<phase, camera, modes, staticInit, endPat, sweep, sensors,
                 mirror, tests, outside>>

\* What every handler but ACQUISITION leaves alone.
InPhase(p) ==
  /\ at = "phase" /\ phase = p
  /\ UNCHANGED <<camera, modes, endPat, sweep, tests, queue, outside>>

CalibrationEnds ==
  \E ok \in BOOLEAN :
    /\ RunCalibration(ok)
    /\ calKnow' = ok
    /\ phase' = IF ok THEN "ACQUISITION" ELSE phase

\* laserOn or Calibration::run may fail; the phase is retried without limit.
CalibrationPhase ==
  /\ InPhase("CALIBRATION")
  /\ \/ /\ at' = "poll" /\ calKnow' = FALSE
        /\ UNCHANGED <<phase, mirror, bcnKnow, transform, lossB, lossC, darkB, darkC>>
     \/ camera /\ at' = "poll" /\ CalibrationEnds
     \/ camera /\ Stall("stalled") /\ UNCHANGED phase
     \/ ~camera /\ Crash
  /\ UNCHANGED staticInit

\* What a stall waits for: the spot has become brighter, and the calibration or the
\* self test goes on to its end.
SpotBrightens ==
  /\ frames
  /\ \/ at = "stalled" /\ at' = "poll" /\ CalibrationEnds /\ UNCHANGED tests
     \/ /\ at = "stalledTest" /\ at' = "standby" /\ CalibTestEnds
        /\ UNCHANGED <<phase, tests>>
     \/ /\ at = "stalledSelf" /\ at' = "standby" /\ UNCHANGED phase
        /\ \E bad \in LaterTests : SelfTestEnds(bad)
  /\ UNCHANGED <<camera, modes, staticInit, endPat, sweep, queue, outside>>

AimNowhere == mirror  \* faulty: no initial pointing

\* controlOpenLoop at the beacon, skipped in beacon alignment.
Aim == IF bcnAlignment THEN mirror ELSE "tracking"

\* The handler's reaction to runAcquisition returning true.
Acquired ==
  /\ bcnKnow' = TRUE
  /\ darkB' = 0
  /\ mirror' = Aim
  /\ phase' = IF openLoop THEN "OPEN_LOOP" ELSE "CL_INIT"
  /\ at' = "poll"
  /\ UNCHANGED <<calKnow, transform, lossB, lossC, darkC>>

\* ... and to its returning false, or to laserOff failing.
NotAcquired ==
  /\ bcnKnow' = FALSE
  /\ at' = "poll"
  /\ UNCHANGED <<phase, mirror, calKnow, transform, lossB, lossC, darkB, darkC>>

\* laserOff, then the guessed exposure, tried before any poll.
AcquisitionPhase ==
  /\ at = "phase" /\ phase = "ACQUISITION"
  /\ \/ NotAcquired /\ UNCHANGED sweep
     \/ camera /\ frames /\ Acquired /\ UNCHANGED sweep
     \/ camera /\ at' = "acquire" /\ sweep' = Sweep /\ UNCHANGED <<phase, mirror, sensors>>
     \/ ~camera /\ Crash
  /\ UNCHANGED <<camera, modes, staticInit, endPat, tests, queue, outside>>

AcquireEndForgotten ==  \* faulty: END_PAT leaves no mark for the main loop
  /\ at = "acquire" /\ queue # <<>>
  /\ \/ Head(queue).op = "END_PAT" /\ at' = "poll"
     \/ Head(queue).op = "END_PROCESS" /\ at' = "shutdown"
  /\ queue' = Tail(queue)
  /\ sweep' = 0
  /\ UNCHANGED <<phase, camera, modes, staticInit, endPat, sensors,
                 mirror, tests, outside>>

AcquireEndAlike ==  \* faulty: END_PROCESS only ends the session
  /\ at = "acquire" /\ queue # <<>>
  /\ Head(queue).op \in {"END_PAT", "END_PROCESS"}
  /\ endPat' = TRUE /\ at' = "poll"
  /\ queue' = Tail(queue)
  /\ sweep' = 0
  /\ UNCHANGED <<phase, camera, modes, staticInit, sensors, mirror,
                 tests, outside>>

\* runAcquisition: each exposure of the sweep is preceded by a poll that takes
\* one command.  END_PAT returns to the main loop, which polls once more.
AcquireEnd ==
  /\ at = "acquire" /\ queue # <<>>
  /\ \/ Head(queue).op = "END_PAT" /\ endPat' = TRUE /\ at' = "poll"
     \/ Head(queue).op = "END_PROCESS" /\ at' = "shutdown" /\ UNCHANGED endPat
  /\ queue' = Tail(queue)
  /\ sweep' = 0
  /\ UNCHANGED <<phase, camera, modes, staticInit, sensors, mirror,
                 tests, outside>>

SweepGoesOn == TRUE  \* faulty: the search never gives up

\* searching_up || searching_down after this exposure.
Searching == sweep > 1

AcquireExposure ==
  /\ at = "acquire"
  /\ ~(queue # <<>> /\ Head(queue).op \in {"END_PAT", "END_PROCESS"})
  /\ queue' = IF queue = <<>> THEN queue ELSE Tail(queue)
  /\ \/ frames /\ Acquired /\ sweep' = 0
     \/ Searching /\ sweep' = sweep - 1 /\ UNCHANGED <<at, phase, mirror, sensors>>
     \/ ~Searching /\ sweep' = 0 /\ NotAcquired
  /\ UNCHANGED <<camera, modes, staticInit, endPat, tests, outside>>

ClInit ==
  /\ InPhase("CL_INIT")
  /\ phase' = "CL_BEACON" /\ at' = "poll"
  /\ UNCHANGED <<staticInit, sensors, mirror>>

BeaconVerdictNoRestart(seen, lost) ==  \* faulty: startBeaconLoss is not set
  /\ bcnKnow' = (seen \/ (bcnKnow /\ ~lost))
  /\ darkB' = IF seen THEN 0 ELSE darkB
  /\ UNCHANGED <<lossB, calKnow, transform, lossC, darkC>>

\* The loss timer starts when a known spot is lost, and only then.
BeaconVerdict(seen, lost) ==
  /\ bcnKnow' = (seen \/ (bcnKnow /\ ~lost))
  /\ lossB' = IF lost /\ bcnKnow THEN 0 ELSE lossB
  /\ darkB' = IF seen THEN 0 ELSE darkB
  /\ UNCHANGED <<calKnow, transform, lossC, darkC>>

BeaconTimedOut == ~bcnKnow' /\ lossB' > LossWait

\* A frame that never arrives neither ends nor starts a loss here.
ClBeacon ==
  /\ InPhase("CL_BEACON")
  /\ \E v \in Verdict \cup {"laserFailed"} :
       BeaconVerdict(v = "spot", v \in {"jump", "weak", "laserFailed"})
  /\ phase' = IF BeaconTimedOut THEN "ACQUISITION" ELSE "CL_CALIB"
  /\ at' = "poll"
  /\ UNCHANGED <<staticInit, mirror>>

CalibVerdictNoRestart(seen, lost) ==  \* faulty: startCalibLoss is not set
  /\ calKnow' = (seen \/ (calKnow /\ ~lost))
  /\ darkC' = IF seen THEN 0 ELSE darkC
  /\ UNCHANGED <<lossC, bcnKnow, transform, lossB, darkB>>

CalibTimedOutBlind == lossC' > LossWait  \* faulty: a spot in view times out

CalibLostByPixels == {"weak", "laserFailed"}  \* faulty: no frame is no loss

CalibLost == {"weak", "none", "laserFailed"}

CalibTimedOut == ~calKnow' /\ lossC' > LossWait

\* A jump of the calibration spot is ignored; a good spot steers the mirror.
CalibVerdict(seen, lost) ==
  /\ calKnow' = (seen \/ (calKnow /\ ~lost))
  /\ lossC' = IF lost /\ calKnow THEN 0 ELSE lossC
  /\ darkC' = IF seen THEN 0 ELSE darkC
  /\ UNCHANGED <<bcnKnow, transform, lossB, darkB>>

ClCalib ==
  /\ InPhase("CL_CALIB")
  /\ \E v \in Verdict \cup {"laserFailed"} :
       /\ CalibVerdict(v = "spot", v \in CalibLost)
       /\ mirror' = IF v = "spot" THEN "tracking" ELSE mirror
  /\ phase' = IF CalibTimedOut THEN "OPEN_LOOP" ELSE "CL_BEACON"
  /\ at' = "poll"
  /\ UNCHANGED staticInit

OpenLoopPhase ==
  /\ InPhase("OPEN_LOOP")
  /\ \E v \in Verdict \cup {"laserFailed"} :
       /\ BeaconVerdict(v = "spot", v # "spot")
       /\ mirror' = IF v = "spot" THEN Aim ELSE mirror
  /\ phase' = IF BeaconTimedOut THEN "ACQUISITION" ELSE phase
  /\ at' = "poll"
  /\ UNCHANGED staticInit

\* The mirror is commanded on the first pass of the process's life; afterwards
\* only dithering moves it, and only with calibration knowledge.
StaticPoint ==
  /\ InPhase("STATIC_POINT")
  /\ \/ /\ ~staticInit
        /\ mirror' = IF calKnow THEN "center" ELSE "straight"
     \/ /\ staticInit
        /\ mirror' \in IF calKnow /\ dithering THEN {mirror, "center"} ELSE {mirror}
  /\ staticInit' = TRUE
  /\ at' = "poll"
  /\ UNCHANGED <<phase, sensors>>

\* laserOff (its result is only logged) and FSM::resetFSM.
Shutdown ==
  /\ at = "shutdown"
  /\ at' = "ended"
  /\ mirror' = "straight"
  /\ UNCHANGED <<phase, camera, modes, staticInit, endPat, sweep, sensors,
                 tests, queue, outside>>

-------------------------------------------------------------------------------
(* The surroundings of the process. *)

program == <<at, phase, camera, modes, staticInit, endPat, sweep, calKnow,
             bcnKnow, transform, mirror, tests>>

\* The command handler publishes a command; ZeroMQ keeps the order.
SendCommand ==
  /\ Alive /\ Len(queue) < MaxPending
  /\ \E c \in Commands : queue' = Append(queue, c)
  /\ UNCHANGED <<program, lossB, lossC, darkB, darkC, outside>>

\* The camera stops delivering frames for good.
CameraDies ==
  /\ Alive /\ frames /\ frames' = FALSE
  /\ UNCHANGED <<program, lossB, lossC, darkB, darkC, queue, stop>>

\* Ctrl-C sets the flag.  A signal that interrupts zmq::poll makes it throw, and
\* main catches nothing; a stall does not poll.
Interrupt ==
  /\ Alive /\ ~stop /\ stop' = TRUE
  /\ \/ UNCHANGED at
     \/ ~Stalled /\ at' = "crashed"
  /\ UNCHANGED <<phase, camera, modes, staticInit, endPat, sweep, sensors, mirror,
                 tests, queue, frames>>

\* steady_clock advances.
Tick ==
  /\ Alive
  /\ \E age \in {lossB, lossC, darkB, darkC} : age <= LossWait
  /\ lossB' = Older(lossB) /\ lossC' = Older(lossC)
  /\ darkB' = Older(darkB) /\ darkC' = Older(darkC)
  /\ UNCHANGED <<program, queue, outside>>

PatStep ==
  \/ CameraLoop \/ StandbyCommand \/ StandbyStop \/ MainPoll
  \/ CalibrationPhase \/ AcquisitionPhase \/ AcquireEnd \/ AcquireExposure
  \/ ClInit \/ ClBeacon \/ ClCalib \/ OpenLoopPhase \/ StaticPoint \/ Shutdown

Next == PatStep \/ SpotBrightens \/ SendCommand \/ CameraDies \/ Interrupt \/ Tick

Spec == Init /\ [][Next]_vars

\* The thread runs on and time passes: every poll and every wait for a frame has a
\* time-out, and every loop but the one of a stall a last pass.  Nothing makes a spot
\* brighter: a stall may be for good.
FairSpec == Spec /\ WF_vars(PatStep) /\ WF_vars(Tick)
-------------------------------------------------------------------------------
(* What the process guarantees. *)

\* Every variable has its type; the sweep and the ages stay within their bounds.
TypeOK ==
  /\ at \in Places /\ phase \in Phases /\ mirror \in Mirror
  /\ camera \in BOOLEAN /\ staticInit \in BOOLEAN /\ endPat \in BOOLEAN
  /\ openLoop \in BOOLEAN /\ busFeedback \in BOOLEAN
  /\ bcnAlignment \in BOOLEAN /\ dithering \in BOOLEAN
  /\ calKnow \in BOOLEAN /\ bcnKnow \in BOOLEAN /\ transform \in BOOLEAN
  /\ lossB \in Ages /\ lossC \in Ages /\ darkB \in Ages /\ darkC \in Ages
  /\ passed \in BOOLEAN /\ failed \in BOOLEAN
  /\ sweep \in 0 .. Sweep
  /\ queue \in Seq(Commands)
  /\ frames \in BOOLEAN /\ stop \in BOOLEAN

\* The mirror is never pointed through the affine transform before a
\* calibration has computed its coefficients (calibration.h leaves them
\* uninitialized): not by tracking, by a manual command, or in static pointing.
PointingUsesTransform == mirror \in Computed => transform

\* While a session tracks, the mirror follows the beacon: whatever was commanded
\* before (a test, a static session, a manual offset), acquisition re-aims it.
\* Beacon alignment is the exception the code makes.
TrackingAims == InMain /\ phase \in Tracking /\ ~bcnAlignment => mirror = "tracking"

\* The process tracks in open loop only because a command asked for it, in this
\* session or an earlier one, or because the calibration spot is lost.
OpenLoopReason == InMain /\ phase = "OPEN_LOOP" => openLoop \/ ~calKnow

\* Tracking falls back to acquisition only when no confident beacon frame came
\* for more than PERIOD_BEACON_LOSS: a loss is never timed from an older one.
BeaconTimeoutHonest ==
  [][at = "phase" /\ phase \in Tracking /\ phase' = "ACQUISITION"
       => darkB' > LossWait]_vars

\* Closed loop falls back to open loop only when no confident calibration frame
\* came for more than PERIOD_CALIB_LOSS.
CalibTimeoutHonest ==
  [][at = "phase" /\ phase \in ClosedLoop /\ phase' = "OPEN_LOOP"
       => darkC' > LossWait]_vars

Pending(op) == \E i \in DOMAIN queue : queue[i].op = op

\* END_PAT ends the session wherever it is received: by the main loop or inside
\* runAcquisition, which must hand it over.  Only a calibration that stalls for good
\* never hears of it.
EndPatHonoured == (InMain /\ Pending("END_PAT")) ~> (~InMain \/ []Stalled)

\* END_PROCESS and Ctrl-C end the process from every loop but that one.
EndProcessHonoured ==
  (stop \/ Pending("END_PROCESS")) ~> (~Alive \/ []Stalled)

\* When the camera stops delivering frames, tracking ends by itself.  CL_BEACON
\* does not count a missing frame as a loss: the way out leads over CL_CALIB.
DeadCameraLeavesTracking ==
  (~frames /\ InMain /\ phase \in Tracking) ~> (~InMain \/ phase = "ACQUISITION")
===============================================================================
