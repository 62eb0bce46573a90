------------------------------- MODULE PatProofs -------------------------------
(***************************************************************************)
(* Proofs about Pat for every set of commands, queue bound, time-out and    *)
(* exposure sweep.  IInv is inductive; the theorems follow from it.         *)
(***************************************************************************)
EXTENDS Pat, TLAPS

\* Knowledge of the calibration spot implies that a calibration once succeeded.
KnowledgeHasTransform == calKnow => transform

\* Only CMD_BCN_ALIGN enters acquisition without a calibration behind it.
SessionHasTransform ==
  InMain /\ phase \in Tracking \cup {"ACQUISITION"} => transform \/ bcnAlignment

AlignmentIsOpenLoop == bcnAlignment => openLoop

ClosedLoopOnly == InMain /\ phase \in ClosedLoop => ~openLoop

\* Loops inside a phase handler are of their phase.
PlacedInPhase ==
  /\ at = "acquire" => phase = "ACQUISITION" /\ sweep > 0
  /\ at = "stalled" => phase = "CALIBRATION"

\* A running loss timer is never older than the last confident frame.
BeaconTimerHonest == InMain /\ phase \in Tracking /\ ~bcnKnow => lossB <= darkB

CalibTimerHonest ==
  InMain /\ phase \in Tracking \cup {"ACQUISITION"} /\ ~calKnow /\ ~openLoop
    => lossC <= darkC

\* The conjuncts about where the thread is and what it knows.
Control ==
  /\ KnowledgeHasTransform /\ SessionHasTransform
  /\ AlignmentIsOpenLoop /\ ClosedLoopOnly /\ PlacedInPhase
  /\ PointingUsesTransform /\ TrackingAims /\ OpenLoopReason

Timers == BeaconTimerHonest /\ CalibTimerHonest

IInv == TypeOK /\ Control /\ Timers

-------------------------------------------------------------------------------
(* Sequences of commands. *)

\* Taking the first command leaves a sequence of commands.
LEMMA TailOfQueue == ASSUME NEW q \in Seq(Commands), q # <<>>
                     PROVE  Tail(q) \in Seq(Commands)
  OBVIOUS

\* What a poll leaves in the queue, whether or not it found a command.
LEMMA QueueTaken == ASSUME NEW q \in Seq(Commands)
                    PROVE  (IF q = <<>> THEN q ELSE Tail(q)) \in Seq(Commands)
  BY TailOfQueue

\* An age stays an age.
LEMMA OlderType == ASSUME NEW age \in Ages
                   PROVE  Older(age) \in Ages
  BY BoundsAssumption DEF Ages, Older

\* Growing older keeps the order of two ages.
LEMMA OlderMonotone == ASSUME NEW a \in Ages, NEW b \in Ages, a <= b
                       PROVE  Older(a) <= Older(b)
  BY BoundsAssumption DEF Ages, Older

\* The inductive invariant holds at the start.
LEMMA InitInv == Init => IInv
<1> SUFFICES ASSUME Init PROVE IInv
  OBVIOUS
<1>1. TypeOK
  <2>1. /\ at \in Places /\ mirror \in Mirror
    BY DEF Init, Places, Mirror
  <2>2. /\ lossB \in Ages /\ lossC \in Ages /\ darkB \in Ages /\ darkC \in Ages
        /\ sweep \in 0 .. Sweep
    BY BoundsAssumption DEF Init, Ages
  <2>3. queue \in Seq(Commands)
    BY DEF Init
  <2> QED
    BY <2>1, <2>2, <2>3 DEF Init, TypeOK, Phases
<1>2. /\ KnowledgeHasTransform /\ AlignmentIsOpenLoop /\ PointingUsesTransform
  BY DEF Init, KnowledgeHasTransform, AlignmentIsOpenLoop, PointingUsesTransform,
         Computed
<1>3. ~InMain
  BY DEF Init, InMain
<1> QED
  BY <1>1, <1>2, <1>3
  DEF IInv, Control, Timers, SessionHasTransform, ClosedLoopOnly, PlacedInPhase, InMain,
      TrackingAims, OpenLoopReason, BeaconTimerHonest, CalibTimerHonest

-------------------------------------------------------------------------------
(* Every step of the thread and of its surroundings preserves IInv.  The     *)
(* shape of the proof: type correctness first, then the control invariants,  *)
(* then the timers, each by cases on the action.                             *)

\* What a run of the calibration leaves behind has its type.
LEMMA CalibrationTyped ==
  ASSUME TypeOK, NEW ok \in BOOLEAN, RunCalibration(ok)
  PROVE  /\ mirror' \in Mirror /\ transform' \in BOOLEAN
         /\ bcnKnow' \in BOOLEAN /\ lossB' \in Ages /\ lossC' \in Ages
         /\ darkB' \in Ages /\ darkC' \in Ages
<1>1. 0 \in Ages
  BY BoundsAssumption DEF Ages
<1> QED
  BY <1>1 DEF RunCalibration, TypeOK, Mirror

\* The same of the sensors and the mirror after CMD_CALIB_TEST, a calibration phase and
\* a self test that ran to its end.
SensorsTyped ==
  /\ mirror' \in Mirror /\ transform' \in BOOLEAN /\ calKnow' \in BOOLEAN
  /\ bcnKnow' \in BOOLEAN /\ lossB' \in Ages /\ lossC' \in Ages
  /\ darkB' \in Ages /\ darkC' \in Ages

\* What a command or a phase leaves that does not touch the sensors has its type.
LEMMA SensorsKept ==
  ASSUME TypeOK, UNCHANGED sensors, mirror' \in Mirror
  PROVE  SensorsTyped
  BY DEF SensorsTyped, TypeOK, sensors

\* CMD_CALIB_TEST leaves typed sensors.
LEMMA CalibTestTyped == ASSUME TypeOK, CalibTestEnds PROVE SensorsTyped
<1> PICK ok \in BOOLEAN : RunCalibration(ok) /\ calKnow' = ok
  BY DEF CalibTestEnds
<1> QED
  BY CalibrationTyped DEF SensorsTyped

\* So does the calibration phase, and it leaves a phase.
LEMMA CalibrationEndsTyped ==
  ASSUME TypeOK, CalibrationEnds PROVE SensorsTyped /\ phase' \in Phases
<1> PICK ok \in BOOLEAN : /\ RunCalibration(ok) /\ calKnow' = ok
                         /\ phase' = IF ok THEN "ACQUISITION" ELSE phase
  BY DEF CalibrationEnds
<1>1. SensorsTyped
  BY CalibrationTyped DEF SensorsTyped
<1> QED
  BY <1>1 DEF TypeOK, Phases

\* So does a self test, and its results are typed.
LEMMA SelfTestTyped ==
  ASSUME TypeOK, NEW bad, SelfTestEnds(bad)
  PROVE  SensorsTyped /\ passed' \in BOOLEAN /\ failed' \in BOOLEAN
<1>1. passed' \in BOOLEAN /\ failed' \in BOOLEAN
  BY DEF SelfTestEnds, TypeOK
<1>2. CASE UNCHANGED sensors /\ mirror' \in {mirror, "straight", "test"}
  <2>1. mirror' \in Mirror
    BY <1>2 DEF TypeOK, Mirror
  <2> QED
    BY <1>1, <1>2, <2>1, SensorsKept
<1>3. CASE /\ RunCalibration(bad # "calibration")
           /\ calKnow' = (calKnow \/ bad # "calibration")
  <2>1. (bad # "calibration") \in BOOLEAN /\ calKnow' \in BOOLEAN
    BY <1>3 DEF TypeOK
  <2> PICK ok \in BOOLEAN : RunCalibration(ok)
    BY <1>3, <2>1
  <2> QED
    BY <1>1, <2>1, CalibrationTyped DEF SensorsTyped
<1> QED
  BY <1>2, <1>3 DEF SelfTestEnds

\* And a stall.
LEMMA StallTyped ==
  ASSUME TypeOK, NEW place, Stall(place) PROVE SensorsTyped
<1>1. mirror' \in Mirror
  BY DEF Stall, Mirror
<1> QED
  BY <1>1, SensorsKept DEF Stall

\* Every step keeps the types.
LEMMA TypeStep == TypeOK /\ PlacedInPhase /\ Next => TypeOK'
<1> SUFFICES ASSUME TypeOK, PlacedInPhase, Next PROVE TypeOK'
  OBVIOUS
<1> USE DEF TypeOK
<1>1. CASE CameraLoop
  BY <1>1, QueueTaken DEF CameraLoop, Places, Phases, Mirror, modes, sensors, tests, outside
<1>2. CASE StandbyCommand
  <2> SUFFICES ASSUME queue # <<>>, queue' = Tail(queue), NEW c, c = Head(queue),
                      UNCHANGED <<camera, outside>>,
                      \/ StartPat(c) \/ StartStaticPoint(c) \/ BcnAlign(c)
                      \/ PointManually(c) \/ CalibTest(c) \/ HardwareTest(c)
                      \/ TestWithoutCamera(c) \/ SelfTest(c) \/ OtherCommand(c)
                      \/ EndProcess(c)
               PROVE  TypeOK'
    BY <1>2 DEF StandbyCommand
  <2>1. /\ queue' \in Seq(Commands) /\ 0 \in Ages
        /\ frames' \in BOOLEAN /\ stop' \in BOOLEAN /\ camera' \in BOOLEAN
    BY TailOfQueue, BoundsAssumption DEF outside, Ages
  <2>2. CASE StartPat(c)
    BY <2>1, <2>2 DEF StartPat, EnterMain, Places, Phases, modes, sensors, tests
  <2>3. CASE StartStaticPoint(c)
    BY <2>1, <2>3 DEF StartStaticPoint, EnterMain, Places, Phases, modes, sensors, tests
  <2>4. CASE BcnAlign(c)
    BY <2>1, <2>4 DEF BcnAlign, EnterMain, Places, Phases, modes, sensors, tests
  <2>5. CASE PointManually(c)
    BY <2>1, <2>5 DEF PointManually, Mirror, modes, sensors, tests
  <2>6. CASE CalibTest(c)
    <3>1. at' \in Places
      BY <2>6 DEF CalibTest, Stall, Crash, Places
    <3>2. SensorsTyped
      <4>1. CASE UNCHANGED <<mirror, sensors>>
        BY <4>1, SensorsKept
      <4> QED
        BY <2>6, <4>1, CalibTestTyped, StallTyped DEF CalibTest, Crash
    <3> QED
      BY <2>1, <2>6, <3>1, <3>2 DEF CalibTest, SensorsTyped, modes, tests
  <2>7. CASE HardwareTest(c)
    BY <2>1, <2>7 DEF HardwareTest, Mirror, modes, sensors, tests
  <2>8. CASE TestWithoutCamera(c)
    BY <2>1, <2>8 DEF TestWithoutCamera, Crash, Places, modes, sensors, tests
  <2>9. CASE SelfTest(c)
    <3>1. at' \in Places
      BY <2>9 DEF SelfTest, Stall, Places
    <3>2. SensorsTyped /\ passed' \in BOOLEAN /\ failed' \in BOOLEAN
      <4>1. CASE Stall("stalledSelf") /\ UNCHANGED tests
        BY <4>1, StallTyped DEF tests
      <4>2. CASE \E bad \in {"fpga"} \cup LaterTests : SelfTestEnds(bad)
        BY <4>2, SelfTestTyped
      <4> QED
        BY <2>9, <4>1, <4>2 DEF SelfTest
    <3> QED
      BY <2>1, <2>9, <3>1, <3>2 DEF SelfTest, SensorsTyped, modes
  <2>10. CASE OtherCommand(c)
    BY <2>1, <2>10 DEF OtherCommand, sensors, tests
  <2>11. CASE EndProcess(c)
    BY <2>1, <2>11 DEF EndProcess, Places, modes, sensors, tests
  <2> QED
    BY <2>2, <2>3, <2>4, <2>5, <2>6, <2>7, <2>8, <2>9, <2>10, <2>11
<1>3. CASE StandbyStop
  BY <1>3 DEF StandbyStop, Places, modes, sensors, tests, outside
<1>4. CASE MainPoll
  <2>1. at' \in Places
    BY <1>4 DEF MainPoll, Places
  <2>2. queue' \in Seq(Commands)
    BY <1>4, QueueTaken DEF MainPoll
  <2> QED
    BY <1>4, <2>1, <2>2 DEF MainPoll, modes, sensors, tests, outside
<1>5. CASE CalibrationPhase
  <2>1. at' \in Places
    BY <1>5 DEF CalibrationPhase, Stall, Crash, Places
  <2>2. SensorsTyped /\ phase' \in Phases
    <3>1. CASE /\ calKnow' = FALSE
               /\ UNCHANGED <<phase, mirror, bcnKnow, transform, lossB, lossC, darkB, darkC>>
      BY <3>1 DEF SensorsTyped
    <3>2. CASE UNCHANGED <<phase, mirror, sensors>>
      BY <3>2, SensorsKept
    <3>3. CASE CalibrationEnds
      BY <3>3, CalibrationEndsTyped
    <3>4. CASE Stall("stalled") /\ UNCHANGED phase
      BY <3>4, StallTyped
    <3> QED
      BY <1>5, <3>1, <3>2, <3>3, <3>4 DEF CalibrationPhase, Crash
  <2> QED
    BY <1>5, <2>1, <2>2 DEF CalibrationPhase, InPhase, SensorsTyped, modes, tests, outside
<1>6. CASE AcquisitionPhase
  <2>1. 0 \in Ages /\ Sweep \in 0 .. Sweep
    BY BoundsAssumption DEF Ages
  <2> QED
    <3>1. bcnKnow' \in BOOLEAN
      BY <1>6 DEF AcquisitionPhase, NotAcquired, Acquired, Crash, sensors
    <3>2. /\ at' \in Places /\ phase' \in Phases /\ mirror' \in Mirror
          /\ darkB' \in Ages /\ sweep' \in 0 .. Sweep
      BY <1>6, <2>1 DEF AcquisitionPhase, NotAcquired, Acquired, Aim, Crash, Places,
        Phases, Mirror, sensors
    <3>3. UNCHANGED <<calKnow, transform, lossB, lossC, darkC>>
      BY <1>6 DEF AcquisitionPhase, NotAcquired, Acquired, Crash, sensors
    <3> QED
      BY <1>6, <3>1, <3>2, <3>3 DEF AcquisitionPhase, modes, tests, outside
<1>7. CASE AcquireEnd
  <2>1. queue' \in Seq(Commands) /\ 0 \in 0 .. Sweep
    BY <1>7, TailOfQueue, BoundsAssumption DEF AcquireEnd
  <2> QED
    <3>1. at' \in Places /\ endPat' \in BOOLEAN
      BY <1>7 DEF AcquireEnd, Places
    <3> QED
      BY <1>7, <2>1, <3>1 DEF AcquireEnd, modes, sensors, tests, outside
<1>8. CASE AcquireExposure
  <2>1. 0 \in Ages /\ 0 \in 0 .. Sweep /\ (Searching => sweep - 1 \in 0 .. Sweep)
    BY BoundsAssumption DEF Ages, Searching
  <2>2. queue' \in Seq(Commands)
    BY <1>8, QueueTaken DEF AcquireExposure
  <2> QED
    <3>1. bcnKnow' \in BOOLEAN
      BY <1>8 DEF AcquireExposure, NotAcquired, Acquired, sensors
    <3>2. /\ at' \in Places /\ phase' \in Phases /\ mirror' \in Mirror
          /\ darkB' \in Ages
      BY <1>8, <2>1 DEF AcquireExposure, NotAcquired, Acquired, Aim, Places,
        Phases, Mirror, sensors
    <3>3. UNCHANGED <<calKnow, transform, lossB, lossC, darkC>>
      BY <1>8 DEF AcquireExposure, NotAcquired, Acquired, sensors
    <3>4. sweep' \in 0 .. Sweep
      BY <1>8, <2>1 DEF AcquireExposure
    <3> QED
      BY <1>8, <2>2, <3>1, <3>2, <3>3, <3>4 DEF AcquireExposure, modes, tests, outside
<1>9. CASE ClInit
  BY <1>9 DEF ClInit, InPhase, Places, Phases, modes, sensors, tests, outside
<1>10. CASE ClBeacon
  <2>1. 0 \in Ages
    BY BoundsAssumption DEF Ages
  <2> QED
    BY <1>10, <2>1 DEF ClBeacon, InPhase, BeaconVerdict, Places, Phases, modes,
      tests, outside
<1>11. CASE ClCalib
  <2>1. 0 \in Ages
    BY BoundsAssumption DEF Ages
  <2> QED
    BY <1>11, <2>1 DEF ClCalib, InPhase, CalibVerdict, Places, Phases, Mirror, modes,
      tests, outside
<1>12. CASE OpenLoopPhase
  <2>1. 0 \in Ages
    BY BoundsAssumption DEF Ages
  <2> QED
    BY <1>12, <2>1 DEF OpenLoopPhase, InPhase, BeaconVerdict, Aim, Places, Phases,
      Mirror, modes, tests, outside
<1>13. CASE StaticPoint
  BY <1>13 DEF StaticPoint, InPhase, Places, Mirror, modes, sensors, tests, outside
<1>14. CASE Shutdown
  BY <1>14 DEF Shutdown, Places, Mirror, modes, sensors, tests, outside
<1>15. CASE SendCommand
  BY <1>15 DEF SendCommand, program, modes, tests, outside
<1>16. CASE CameraDies
  <2>1. frames' \in BOOLEAN
    BY <1>16 DEF CameraDies
  <2> QED
    BY <1>16, <2>1 DEF CameraDies, program, modes, tests
<1>17. CASE Interrupt
  BY <1>17 DEF Interrupt, Places, modes, sensors, tests
<1>18. CASE Tick
  BY <1>18, OlderType DEF Tick, program, modes, tests, outside
<1>19. CASE SpotBrightens
  <2>1. at' \in Places
    BY <1>19 DEF SpotBrightens, Places
  <2>2. /\ SensorsTyped /\ phase' \in Phases
        /\ passed' \in BOOLEAN /\ failed' \in BOOLEAN
    BY <1>19, CalibrationEndsTyped, CalibTestTyped, SelfTestTyped DEF SpotBrightens, tests
  <2> QED
    BY <1>19, <2>1, <2>2 DEF SpotBrightens, SensorsTyped, modes, outside
<1> QED
  BY <1>1, <1>2, <1>3, <1>4, <1>5, <1>6, <1>7, <1>8, <1>9, <1>10, <1>11, <1>12,
     <1>13, <1>14, <1>15, <1>16, <1>17, <1>18, <1>19 DEF Next, PatStep

\* A step that leaves all the variables Control reads alone preserves it.
LEMMA ControlFrame ==
  ASSUME Control,
         UNCHANGED <<at, phase, modes, sweep, calKnow, transform, mirror>>
  PROVE  Control'
  BY DEF Control, KnowledgeHasTransform, SessionHasTransform, AlignmentIsOpenLoop,
         ClosedLoopOnly, PlacedInPhase, PointingUsesTransform, TrackingAims,
         OpenLoopReason, InMain, modes

\* A step that ends outside the main loop need only keep what is not about it.
LEMMA ControlOutside ==
  ASSUME Control, ~InMain', UNCHANGED modes,
         calKnow' => transform', mirror' \in Computed => transform'
  PROVE  Control'
  BY DEF Control, KnowledgeHasTransform, SessionHasTransform, AlignmentIsOpenLoop,
         ClosedLoopOnly, PlacedInPhase, PointingUsesTransform, TrackingAims,
         OpenLoopReason, InMain, modes

\* What a run of the calibration does to the knowledge and the transform.
LEMMA CalibrationKnows ==
  ASSUME TypeOK, NEW ok \in BOOLEAN, RunCalibration(ok)
  PROVE  /\ transform => transform'
         /\ ok => transform'
<1>1. transform' = (transform \/ ok)
  BY DEF RunCalibration
<1> QED
  BY <1>1, Zenon

\* The transform is not forgotten, and who newly knows the spot has one.
Learns == (transform => transform') /\ (calKnow' => transform' \/ calKnow)

\* CMD_CALIB_TEST learns what it knows.
LEMMA CalibTestLearns ==
  ASSUME TypeOK, CalibTestEnds PROVE Learns /\ mirror' = "straight"
<1> PICK ok \in BOOLEAN : RunCalibration(ok) /\ calKnow' = ok
  BY DEF CalibTestEnds
<1> QED
  BY CalibrationKnows DEF Learns, RunCalibration

\* The calibration phase too, and it goes on to acquisition with a transform.
LEMMA CalibrationEndsLearns ==
  ASSUME TypeOK, CalibrationEnds
  PROVE  /\ Learns /\ mirror' = "straight"
         /\ \/ phase' = phase
            \/ phase' = "ACQUISITION" /\ transform' /\ calKnow'
<1> PICK ok \in BOOLEAN : /\ RunCalibration(ok) /\ calKnow' = ok
                         /\ phase' = IF ok THEN "ACQUISITION" ELSE phase
  BY DEF CalibrationEnds
<1> QED
  BY CalibrationKnows DEF Learns, RunCalibration

\* So does the self test.
LEMMA SelfTestLearns ==
  ASSUME TypeOK, NEW bad, SelfTestEnds(bad)
  PROVE  Learns /\ mirror' \in {mirror, "straight", "test"}
<1>1. CASE UNCHANGED sensors /\ mirror' \in {mirror, "straight", "test"}
  BY <1>1 DEF Learns, sensors
<1>2. CASE /\ RunCalibration(bad # "calibration")
           /\ calKnow' = (calKnow \/ bad # "calibration")
  <2>1. (bad # "calibration") \in BOOLEAN
    OBVIOUS
  <2> PICK ok \in BOOLEAN : RunCalibration(ok) /\ calKnow' = (calKnow \/ ok)
    BY <1>2, <2>1
  <2>2. (transform => transform') /\ (ok => transform')
    BY CalibrationKnows
  <2>3. Learns
    BY <2>2, Zenon DEF Learns
  <2> QED
    BY <2>3 DEF RunCalibration
<1> QED
  BY <1>1, <1>2 DEF SelfTestEnds

\* Every step keeps the relations between place, phase, mirror and transform.
LEMMA ControlStep == TypeOK /\ Control /\ Next => Control'
<1> SUFFICES ASSUME TypeOK, Control, Next PROVE Control'
  OBVIOUS
<1>1. CASE CameraLoop
  <2>1. InMain' => phase' = "STATIC_POINT"
    BY <1>1 DEF CameraLoop, InMain
  <2>2. mirror' \in Computed => mirror \in Computed
    BY <1>1 DEF CameraLoop, Computed
  <2>3. at' \notin {"acquire", "stalled"} /\ UNCHANGED <<modes, calKnow, transform>>
    BY <1>1 DEF CameraLoop, sensors
  <2> QED
    BY <2>1, <2>2, <2>3
    DEF Control, KnowledgeHasTransform, SessionHasTransform, AlignmentIsOpenLoop,
         ClosedLoopOnly, PlacedInPhase, PointingUsesTransform, TrackingAims,
         OpenLoopReason, modes, Tracking, ClosedLoop
<1>2. CASE StandbyCommand
  <2> SUFFICES ASSUME at = "standby", NEW c,
                      \/ StartPat(c) \/ StartStaticPoint(c) \/ BcnAlign(c)
                      \/ PointManually(c) \/ CalibTest(c) \/ HardwareTest(c)
                      \/ TestWithoutCamera(c) \/ SelfTest(c) \/ OtherCommand(c)
                      \/ EndProcess(c)
               PROVE  Control'
    BY <1>2 DEF StandbyCommand
  <2>1. ~InMain
    BY DEF InMain
  <2>2. CASE StartPat(c)
    <3>1. /\ at' = "poll"
          /\ phase' \in {"ACQUISITION", "CALIBRATION"}
          /\ phase' = "ACQUISITION" => calKnow
          /\ openLoop => openLoop'
          /\ UNCHANGED <<bcnAlignment, calKnow, transform, mirror>>
      BY <2>2 DEF StartPat, EnterMain, sensors
    <3> QED
      BY <3>1 DEF Control, KnowledgeHasTransform, SessionHasTransform, AlignmentIsOpenLoop,
         ClosedLoopOnly, PlacedInPhase, PointingUsesTransform, TrackingAims,
         OpenLoopReason, Tracking, ClosedLoop
  <2>3. CASE StartStaticPoint(c)
    <3>1. /\ at' = "poll" /\ phase' = "STATIC_POINT"
          /\ UNCHANGED <<modes, calKnow, transform, mirror>>
      BY <2>3 DEF StartStaticPoint, EnterMain, sensors
    <3> QED
      BY <3>1 DEF Control, KnowledgeHasTransform, SessionHasTransform, AlignmentIsOpenLoop,
         ClosedLoopOnly, PlacedInPhase, PointingUsesTransform, TrackingAims,
         OpenLoopReason, Tracking, ClosedLoop, modes
  <2>4. CASE BcnAlign(c)
    <3>1. /\ at' = "poll" /\ phase' = "ACQUISITION"
          /\ bcnAlignment' /\ openLoop'
          /\ UNCHANGED <<calKnow, transform, mirror>>
      BY <2>4 DEF BcnAlign, EnterMain, sensors
    <3> QED
      BY <3>1 DEF Control, KnowledgeHasTransform, SessionHasTransform, AlignmentIsOpenLoop,
         ClosedLoopOnly, PlacedInPhase, PointingUsesTransform, TrackingAims,
         OpenLoopReason, Tracking, ClosedLoop
  <2>5. CASE PointManually(c)
    <3>1. mirror' \in Computed => calKnow \/ mirror \in Computed
      BY <2>5 DEF PointManually, Computed
    <3>2. UNCHANGED <<at, modes, calKnow, transform>>
      BY <2>5 DEF PointManually, sensors
    <3> QED
      BY <2>1, <3>1, <3>2, ControlOutside
      DEF Control, KnowledgeHasTransform, SessionHasTransform, AlignmentIsOpenLoop,
         ClosedLoopOnly, PlacedInPhase, PointingUsesTransform, TrackingAims,
         OpenLoopReason, InMain
  <2>6. CASE CalibTest(c)
    <3>1. at' \in {at, "crashed", "stalledTest"} /\ UNCHANGED modes
      BY <2>6 DEF CalibTest, Stall, Crash
    <3>2. Learns /\ mirror' \in {mirror, "straight"}
      <4>1. CASE CalibTestEnds
        BY <4>1, CalibTestLearns
      <4>2. CASE UNCHANGED sensors /\ mirror' \in {mirror, "straight"}
        BY <4>2 DEF Learns, sensors
      <4> QED
        BY <2>6, <4>1, <4>2 DEF CalibTest, Stall, Crash
    <3> QED
      BY <3>1, <3>2, ControlOutside
      DEF Learns, Control, KnowledgeHasTransform, SessionHasTransform, AlignmentIsOpenLoop,
         ClosedLoopOnly, PlacedInPhase, PointingUsesTransform, TrackingAims,
         OpenLoopReason, InMain, Computed
  <2>7. CASE HardwareTest(c)
    <3>1. UNCHANGED <<at, modes, calKnow, transform>>
      BY <2>7 DEF HardwareTest, sensors
    <3>2. mirror' \in {mirror, "straight", "test"}
      BY <2>7 DEF HardwareTest
    <3> QED
      BY <3>1, <3>2, ControlOutside
      DEF Control, KnowledgeHasTransform, SessionHasTransform, AlignmentIsOpenLoop,
         ClosedLoopOnly, PlacedInPhase, PointingUsesTransform, TrackingAims,
         OpenLoopReason, InMain, Computed
  <2>8. CASE TestWithoutCamera(c)
    <3>1. at' = "crashed" /\ UNCHANGED <<modes, calKnow, transform, mirror>>
      BY <2>8 DEF TestWithoutCamera, Crash, sensors
    <3> QED
      BY <3>1, ControlOutside
      DEF Control, KnowledgeHasTransform, SessionHasTransform, AlignmentIsOpenLoop,
         ClosedLoopOnly, PlacedInPhase, PointingUsesTransform, TrackingAims,
         OpenLoopReason, InMain
  <2>9. CASE SelfTest(c)
    <3>1. at' \in {at, "stalledSelf"} /\ UNCHANGED modes
      BY <2>9 DEF SelfTest, Stall
    <3>2. Learns /\ mirror' \in {mirror, "straight", "test"}
      <4>1. CASE Stall("stalledSelf")
        BY <4>1 DEF Stall, Learns, sensors
      <4>2. CASE \E bad \in {"fpga"} \cup LaterTests : SelfTestEnds(bad)
        BY <4>2, SelfTestLearns
      <4> QED
        BY <2>9, <4>1, <4>2 DEF SelfTest
    <3> QED
      BY <3>1, <3>2, ControlOutside
      DEF Learns, Control, KnowledgeHasTransform, SessionHasTransform, AlignmentIsOpenLoop,
         ClosedLoopOnly, PlacedInPhase, PointingUsesTransform, TrackingAims,
         OpenLoopReason, InMain, Computed
  <2>10. CASE OtherCommand(c)
    <3>1. UNCHANGED <<at, phase, openLoop, bcnAlignment, calKnow, transform, mirror>>
      BY <2>10 DEF OtherCommand, sensors
    <3> QED
      BY <2>1, <3>1 DEF Control, KnowledgeHasTransform, SessionHasTransform, AlignmentIsOpenLoop,
         ClosedLoopOnly, PlacedInPhase, PointingUsesTransform, TrackingAims,
         OpenLoopReason, InMain
  <2>11. CASE EndProcess(c)
    <3>1. at' = "shutdown" /\ UNCHANGED <<modes, calKnow, transform, mirror>>
      BY <2>11 DEF EndProcess, sensors
    <3> QED
      BY <3>1, ControlOutside
      DEF Control, KnowledgeHasTransform, SessionHasTransform, AlignmentIsOpenLoop,
         ClosedLoopOnly, PlacedInPhase, PointingUsesTransform, TrackingAims,
         OpenLoopReason, InMain
  <2> QED
    BY <2>2, <2>3, <2>4, <2>5, <2>6, <2>7, <2>8, <2>9, <2>10, <2>11
<1>3. CASE StandbyStop
  <2>1. at' = "shutdown" /\ UNCHANGED <<modes, calKnow, transform, mirror>>
    BY <1>3 DEF StandbyStop, sensors
  <2> QED
    BY <2>1, ControlOutside
    DEF Control, KnowledgeHasTransform, SessionHasTransform, AlignmentIsOpenLoop,
         ClosedLoopOnly, PlacedInPhase, PointingUsesTransform, TrackingAims,
         OpenLoopReason, InMain
<1>4. CASE MainPoll
  <2>1. /\ InMain /\ at' \notin {"acquire", "stalled"}
        /\ UNCHANGED <<phase, modes, calKnow, transform, mirror>>
    BY <1>4 DEF MainPoll, sensors, InMain
  <2> QED
    BY <2>1 DEF Control, KnowledgeHasTransform, SessionHasTransform, AlignmentIsOpenLoop,
         ClosedLoopOnly, PlacedInPhase, PointingUsesTransform, TrackingAims,
         OpenLoopReason, modes
<1>5. CASE CalibrationPhase
  <2>1. /\ at' \in {"poll", "crashed", "stalled"} /\ mirror' \in {mirror, "straight"}
        /\ phase = "CALIBRATION" /\ UNCHANGED modes
        /\ at' = "stalled" => phase' = phase
    BY <1>5, CalibrationEndsLearns DEF CalibrationPhase, InPhase, Stall, Crash
  <2>2. /\ Learns
        /\ phase' \in {phase, "ACQUISITION"} /\ (phase' # phase => transform')
    <3>1. CASE UNCHANGED <<phase, transform>> /\ (calKnow' => calKnow)
      BY <3>1 DEF Learns
    <3>2. CASE CalibrationEnds
      BY <3>2, CalibrationEndsLearns
    <3> QED
      BY <1>5, <3>1, <3>2 DEF CalibrationPhase, Stall, Crash, sensors
  <2> QED
    BY <2>1, <2>2
    DEF Learns, Tracking, ClosedLoop, modes, Control, KnowledgeHasTransform,
        SessionHasTransform, AlignmentIsOpenLoop,
         ClosedLoopOnly, PlacedInPhase, PointingUsesTransform, TrackingAims,
         OpenLoopReason, InMain, Computed
<1>6. CASE AcquisitionPhase
  <2>1. /\ InMain /\ phase = "ACQUISITION"
        /\ UNCHANGED <<modes, calKnow, transform>>
    BY <1>6 DEF AcquisitionPhase, NotAcquired, Acquired, Crash, InMain, sensors
  <2>2. \/ at' = "poll" /\ UNCHANGED <<phase, mirror>>
        \/ Acquired
        \/ at' = "acquire" /\ sweep' = Sweep /\ UNCHANGED <<phase, mirror>>
        \/ at' = "crashed" /\ UNCHANGED <<phase, mirror>>
    BY <1>6 DEF AcquisitionPhase, NotAcquired, Crash
  <2> QED
    BY <2>1, <2>2, BoundsAssumption
    DEF Control, KnowledgeHasTransform, SessionHasTransform, AlignmentIsOpenLoop,
         ClosedLoopOnly, PlacedInPhase, PointingUsesTransform, TrackingAims,
         OpenLoopReason, InMain, Acquired, Aim, Computed, Tracking, ClosedLoop, modes
<1>7. CASE AcquireEnd
  <2>1. /\ InMain /\ phase = "ACQUISITION" /\ at' \in {"poll", "shutdown"}
        /\ UNCHANGED <<phase, modes, calKnow, transform, mirror>>
    BY <1>7
    DEF AcquireEnd, Control, KnowledgeHasTransform, SessionHasTransform, AlignmentIsOpenLoop,
         ClosedLoopOnly, PlacedInPhase, PointingUsesTransform, TrackingAims,
         OpenLoopReason, InMain, sensors
  <2> QED
    BY <2>1 DEF Control, KnowledgeHasTransform, SessionHasTransform, AlignmentIsOpenLoop,
         ClosedLoopOnly, PlacedInPhase, PointingUsesTransform, TrackingAims,
         OpenLoopReason, InMain, modes
<1>8. CASE AcquireExposure
  <2>1. /\ InMain /\ phase = "ACQUISITION"
        /\ UNCHANGED <<modes, calKnow, transform>>
    BY <1>8 DEF AcquireExposure, NotAcquired, Acquired, InMain, sensors,
                PlacedInPhase, Control
  <2>2. \/ at' = "poll" /\ UNCHANGED <<phase, mirror>>
        \/ Acquired
        \/ at' = "acquire" /\ sweep' > 0 /\ UNCHANGED <<phase, mirror>>
    BY <1>8, BoundsAssumption DEF AcquireExposure, NotAcquired, Searching, TypeOK
  <2> QED
    BY <2>1, <2>2
    DEF Control, KnowledgeHasTransform, SessionHasTransform, AlignmentIsOpenLoop,
         ClosedLoopOnly, PlacedInPhase, PointingUsesTransform, TrackingAims,
         OpenLoopReason, InMain, Acquired, Aim, Computed, Tracking, ClosedLoop, modes
<1>9. CASE ClInit
  <2>1. /\ at = "phase" /\ phase = "CL_INIT" /\ at' = "poll" /\ phase' = "CL_BEACON"
        /\ UNCHANGED <<modes, calKnow, transform, mirror>>
    BY <1>9 DEF ClInit, InPhase, sensors
  <2> QED
    BY <2>1 DEF Control, KnowledgeHasTransform, SessionHasTransform, AlignmentIsOpenLoop,
         ClosedLoopOnly, PlacedInPhase, PointingUsesTransform, TrackingAims,
         OpenLoopReason, InMain, Tracking, ClosedLoop, modes
<1>10. CASE ClBeacon
  <2>1. /\ at = "phase" /\ phase = "CL_BEACON" /\ at' = "poll"
        /\ phase' \in {"ACQUISITION", "CL_CALIB"}
        /\ UNCHANGED <<modes, calKnow, transform, mirror>>
    BY <1>10 DEF ClBeacon, InPhase, BeaconVerdict
  <2> QED
    BY <2>1 DEF Control, KnowledgeHasTransform, SessionHasTransform, AlignmentIsOpenLoop,
         ClosedLoopOnly, PlacedInPhase, PointingUsesTransform, TrackingAims,
         OpenLoopReason, InMain, Tracking, ClosedLoop, modes
<1>11. CASE ClCalib
  <2>1. /\ at = "phase" /\ phase = "CL_CALIB" /\ at' = "poll"
        /\ phase' \in {"OPEN_LOOP", "CL_BEACON"}
        /\ mirror' \in {mirror, "tracking"}
        /\ UNCHANGED <<modes, transform>>
    BY <1>11 DEF ClCalib, InPhase, CalibVerdict
  <2>2. phase' = "OPEN_LOOP" => ~calKnow'
    BY <1>11 DEF ClCalib, CalibTimedOut
  <2>3. ~openLoop /\ ~bcnAlignment /\ transform /\ mirror = "tracking"
    BY <2>1 DEF Control, KnowledgeHasTransform, SessionHasTransform, AlignmentIsOpenLoop,
         ClosedLoopOnly, PlacedInPhase, PointingUsesTransform, TrackingAims,
         OpenLoopReason, InMain, Tracking, ClosedLoop
  <2> QED
    BY <2>1, <2>2, <2>3
    DEF Control, KnowledgeHasTransform, SessionHasTransform, AlignmentIsOpenLoop,
         ClosedLoopOnly, PlacedInPhase, PointingUsesTransform, TrackingAims,
         OpenLoopReason, InMain, Computed, Tracking, ClosedLoop, modes
<1>12. CASE OpenLoopPhase
  <2>1. /\ at = "phase" /\ phase = "OPEN_LOOP" /\ at' = "poll"
        /\ phase' \in {"OPEN_LOOP", "ACQUISITION"}
        /\ mirror' \in {mirror, Aim}
        /\ UNCHANGED <<modes, calKnow, transform>>
    BY <1>12 DEF OpenLoopPhase, InPhase, BeaconVerdict
  <2> QED
    BY <2>1 DEF Control, KnowledgeHasTransform, SessionHasTransform, AlignmentIsOpenLoop,
         ClosedLoopOnly, PlacedInPhase, PointingUsesTransform, TrackingAims,
         OpenLoopReason, InMain, Aim, Computed, Tracking, ClosedLoop, modes
<1>13. CASE StaticPoint
  <2>1. /\ at' = "poll" /\ phase' = "STATIC_POINT"
        /\ mirror' = "center" => calKnow \/ mirror = "center"
        /\ mirror' \in {mirror, "straight", "center"}
        /\ UNCHANGED <<modes, calKnow, transform>>
    BY <1>13 DEF StaticPoint, InPhase, sensors
  <2> QED
    BY <2>1 DEF Control, KnowledgeHasTransform, SessionHasTransform, AlignmentIsOpenLoop,
         ClosedLoopOnly, PlacedInPhase, PointingUsesTransform, TrackingAims,
         OpenLoopReason, Computed, Tracking, ClosedLoop, modes
<1>14. CASE Shutdown
  <2>1. /\ at' = "ended" /\ mirror' = "straight"
        /\ UNCHANGED <<modes, calKnow, transform>>
    BY <1>14 DEF Shutdown, sensors
  <2> QED
    BY <2>1, ControlOutside
    DEF Control, KnowledgeHasTransform, SessionHasTransform, AlignmentIsOpenLoop,
         ClosedLoopOnly, PlacedInPhase, PointingUsesTransform, TrackingAims,
         OpenLoopReason, InMain, Computed
<1>15. CASE SendCommand \/ CameraDies \/ Tick
  <2>1. UNCHANGED <<at, phase, modes, sweep, calKnow, transform, mirror>>
    BY <1>15 DEF SendCommand, CameraDies, Tick, program
  <2> QED
    BY <2>1, ControlFrame
<1>16. CASE Interrupt
  <2>1. UNCHANGED <<phase, modes, sweep, calKnow, transform, mirror>>
    BY <1>16 DEF Interrupt, sensors
  <2>2. CASE at' = at
    BY <2>1, <2>2, ControlFrame
  <2>3. CASE at' = "crashed"
    BY <2>1, <2>3, ControlOutside DEF Control, KnowledgeHasTransform,
       PointingUsesTransform, InMain
  <2> QED
    BY <1>16, <2>2, <2>3 DEF Interrupt
<1>17. CASE SpotBrightens
  <2>1. CASE at = "stalled" /\ at' = "poll" /\ CalibrationEnds
    <3>1. /\ Learns /\ mirror' = "straight" /\ phase = "CALIBRATION" /\ UNCHANGED modes
          /\ phase' \in {phase, "ACQUISITION"} /\ (phase' # phase => transform')
      BY <1>17, <2>1, CalibrationEndsLearns DEF SpotBrightens, Control, PlacedInPhase
    <3> QED
      BY <2>1, <3>1
      DEF Learns, Tracking, ClosedLoop, modes, Control, KnowledgeHasTransform,
          SessionHasTransform, AlignmentIsOpenLoop,
         ClosedLoopOnly, PlacedInPhase, PointingUsesTransform, TrackingAims,
         OpenLoopReason, InMain, Computed
  <2>2. CASE at' = "standby"
    <3>1. Learns /\ mirror' \in {mirror, "straight", "test"} /\ UNCHANGED modes
      BY <1>17, <2>2, CalibTestLearns, SelfTestLearns DEF SpotBrightens
    <3> QED
      BY <2>2, <3>1, ControlOutside
      DEF Learns, Control, KnowledgeHasTransform, SessionHasTransform, AlignmentIsOpenLoop,
         ClosedLoopOnly, PlacedInPhase, PointingUsesTransform, TrackingAims,
         OpenLoopReason, InMain, Computed
  <2> QED
    BY <1>17, <2>1, <2>2 DEF SpotBrightens
<1> QED
  BY <1>1, <1>2, <1>3, <1>4, <1>5, <1>6, <1>7, <1>8, <1>9, <1>10, <1>11, <1>12,
     <1>13, <1>14, <1>15, <1>16, <1>17 DEF Next, PatStep

\* A step that leaves what the loss timers depend on alone preserves them.
LEMMA TimersFrame ==
  ASSUME Timers, InMain' => InMain,
         UNCHANGED <<phase, openLoop, calKnow, bcnKnow, lossB, lossC, darkB, darkC>>
  PROVE  Timers'
  BY DEF Timers, BeaconTimerHonest, CalibTimerHonest

\* A step into standby, shutdown or a phase before tracking owes the timers
\* nothing, as long as acquisition starts with knowledge or in open loop.
LEMMA TimersOutside ==
  ASSUME \/ ~InMain'
         \/ phase' \in {"CALIBRATION", "STATIC_POINT"}
         \/ phase' = "ACQUISITION" /\ (calKnow' \/ openLoop')
  PROVE  Timers'
  BY DEF Timers, BeaconTimerHonest, CalibTimerHonest, Tracking, ClosedLoop

\* The handlers reach their verdict through BeaconVerdict or CalibVerdict.
LEMMA BeaconJudged ==
  ASSUME ClBeacon \/ OpenLoopPhase
  PROVE  \E seen \in BOOLEAN, lost \in BOOLEAN : BeaconVerdict(seen, lost)
<1>1. CASE ClBeacon
  <2> PICK v : BeaconVerdict(v = "spot", v \in {"jump", "weak", "laserFailed"})
    BY <1>1 DEF ClBeacon
  <2>1. /\ (v = "spot") \in BOOLEAN
        /\ (v \in {"jump", "weak", "laserFailed"}) \in BOOLEAN
    OBVIOUS
  <2> QED
    BY <2>1
<1>2. CASE OpenLoopPhase
  <2> PICK v : BeaconVerdict(v = "spot", v # "spot")
    BY <1>2 DEF OpenLoopPhase
  <2>1. (v = "spot") \in BOOLEAN /\ (v # "spot") \in BOOLEAN
    OBVIOUS
  <2> QED
    BY <2>1
<1> QED
  BY <1>1, <1>2

\* A step of closed-loop tracking judges the calibration frame one way or the other.
LEMMA CalibJudged ==
  ASSUME ClCalib
  PROVE  \E seen \in BOOLEAN, lost \in BOOLEAN : CalibVerdict(seen, lost)
<1> PICK v : CalibVerdict(v = "spot", v \in CalibLost)
  BY DEF ClCalib
<1>1. (v = "spot") \in BOOLEAN /\ (v \in CalibLost) \in BOOLEAN
  BY DEF CalibLost
<1> QED
  BY <1>1

\* Every step keeps each loss timer no older than the frame it is about.
LEMMA TimersStep == TypeOK /\ Control /\ Timers /\ Next => Timers'
<1> SUFFICES ASSUME TypeOK, Control, Timers, Next PROVE Timers'
  OBVIOUS
<1>1. CASE CameraLoop
  <2>1. InMain' => phase' = "STATIC_POINT"
    BY <1>1 DEF CameraLoop, InMain
  <2> QED
    BY <2>1, TimersOutside
<1>2. CASE StandbyCommand
  <2> SUFFICES ASSUME at = "standby", NEW c,
                      \/ StartPat(c) \/ StartStaticPoint(c) \/ BcnAlign(c)
                      \/ PointManually(c) \/ CalibTest(c) \/ HardwareTest(c)
                      \/ TestWithoutCamera(c) \/ SelfTest(c) \/ OtherCommand(c)
                      \/ EndProcess(c)
               PROVE  Timers'
    BY <1>2 DEF StandbyCommand
  <2>1. CASE StartPat(c)
    <3>1. \/ phase' = "CALIBRATION"
          \/ phase' = "ACQUISITION" /\ calKnow /\ calKnow' = calKnow
      BY <2>1 DEF StartPat, EnterMain, sensors
    <3> QED
      BY <3>1, TimersOutside
  <2>2. CASE StartStaticPoint(c)
    BY <2>2, TimersOutside DEF StartStaticPoint, EnterMain
  <2>3. CASE BcnAlign(c)
    BY <2>3, TimersOutside DEF BcnAlign, EnterMain
  <2>4. CASE \/ PointManually(c) \/ CalibTest(c) \/ HardwareTest(c)
             \/ TestWithoutCamera(c) \/ SelfTest(c) \/ OtherCommand(c)
             \/ EndProcess(c)
    <3>1. at' \in {at, "crashed", "shutdown", "stalledTest", "stalledSelf"}
      BY <2>4 DEF PointManually, CalibTest, HardwareTest, TestWithoutCamera,
                  SelfTest, OtherCommand, EndProcess, Crash, Stall
    <3> QED
      BY <3>1, TimersOutside DEF InMain
  <2> QED
    BY <2>1, <2>2, <2>3, <2>4
<1>3. CASE StandbyStop \/ Shutdown
  BY <1>3, TimersOutside DEF StandbyStop, Shutdown, InMain
<1>4. CASE MainPoll
  <2>1. /\ InMain
        /\ UNCHANGED <<phase, openLoop, calKnow, bcnKnow, lossB, lossC, darkB, darkC>>
    BY <1>4 DEF MainPoll, InMain, modes, sensors
  <2> QED
    BY <2>1, TimersFrame
<1>5. CASE CalibrationPhase
  <2>1. \/ at' = "crashed"
        \/ phase' = "CALIBRATION"
        \/ phase' = "ACQUISITION" /\ calKnow'
    BY <1>5, CalibrationEndsLearns DEF CalibrationPhase, InPhase, Crash
  <2> QED
    BY <2>1, TimersOutside DEF InMain
<1>6. CASE AcquisitionPhase \/ AcquireExposure
  <2>1. /\ InMain /\ phase = "ACQUISITION"
        /\ UNCHANGED <<openLoop, calKnow, lossC, darkC>>
    BY <1>6 DEF AcquisitionPhase, AcquireExposure, NotAcquired, Acquired, Crash,
                InMain, modes, sensors, Control, PlacedInPhase
  <2>2. Acquired \/ UNCHANGED phase
    BY <1>6 DEF AcquisitionPhase, AcquireExposure, NotAcquired, Crash
  <2> QED
    BY <2>1, <2>2
    DEF Timers, BeaconTimerHonest, CalibTimerHonest, Acquired, InMain, Tracking, ClosedLoop
<1>7. CASE AcquireEnd
  <2>1. /\ InMain
        /\ UNCHANGED <<phase, openLoop, calKnow, bcnKnow, lossB, lossC, darkB, darkC>>
    BY <1>7 DEF AcquireEnd, InMain, modes, sensors
  <2> QED
    BY <2>1, TimersFrame
<1>8. CASE ClInit
  <2>1. /\ InMain /\ phase = "CL_INIT" /\ phase' = "CL_BEACON"
        /\ UNCHANGED <<openLoop, calKnow, bcnKnow, lossB, lossC, darkB, darkC>>
    BY <1>8 DEF ClInit, InPhase, InMain, modes, sensors
  <2> QED
    BY <2>1 DEF Timers, BeaconTimerHonest, CalibTimerHonest, Tracking, ClosedLoop
<1>9. CASE ClBeacon \/ OpenLoopPhase
  <2>1. /\ InMain /\ phase \in Tracking /\ phase' \in Tracking \cup {"ACQUISITION"}
        /\ UNCHANGED <<openLoop, calKnow, lossC, darkC>>
    BY <1>9 DEF ClBeacon, OpenLoopPhase, InPhase, BeaconVerdict, InMain, Tracking,
                ClosedLoop, modes
  <2>2. PICK seen \in BOOLEAN, lost \in BOOLEAN : BeaconVerdict(seen, lost)
    BY <1>9, BeaconJudged
  <2>3. ~bcnKnow' => lossB' <= darkB'
    <3> SUFFICES ASSUME ~bcnKnow' PROVE lossB' <= darkB'
      OBVIOUS
    <3>1. ~seen /\ darkB' = darkB
      BY <2>2 DEF BeaconVerdict
    <3>2. CASE lost /\ bcnKnow
      BY <2>2, <3>1, <3>2, BoundsAssumption DEF BeaconVerdict, TypeOK, Ages
    <3>3. CASE ~lost \/ ~bcnKnow
      <4>1. ~bcnKnow /\ lossB' = lossB
        BY <2>2, <3>1, <3>3 DEF BeaconVerdict
      <4> QED
        BY <2>1, <3>1, <4>1 DEF Timers, BeaconTimerHonest, CalibTimerHonest
    <3> QED
      BY <3>2, <3>3
  <2> QED
    BY <2>1, <2>3 DEF Timers, BeaconTimerHonest, CalibTimerHonest
<1>10. CASE ClCalib
  <2>1. /\ InMain /\ phase \in Tracking /\ phase' \in Tracking
        /\ UNCHANGED <<openLoop, bcnKnow, lossB, darkB>>
    BY <1>10 DEF ClCalib, InPhase, CalibVerdict, InMain, Tracking, ClosedLoop, modes
  <2>2. PICK seen \in BOOLEAN, lost \in BOOLEAN : CalibVerdict(seen, lost)
    BY <1>10, CalibJudged
  <2>3. ~calKnow' /\ ~openLoop => lossC' <= darkC'
    <3> SUFFICES ASSUME ~calKnow', ~openLoop PROVE lossC' <= darkC'
      OBVIOUS
    <3>1. ~seen /\ darkC' = darkC
      BY <2>2 DEF CalibVerdict
    <3>2. CASE lost /\ calKnow
      BY <2>2, <3>1, <3>2, BoundsAssumption DEF CalibVerdict, TypeOK, Ages
    <3>3. CASE ~lost \/ ~calKnow
      <4>1. ~calKnow /\ lossC' = lossC
        BY <2>2, <3>1, <3>3 DEF CalibVerdict
      <4> QED
        BY <2>1, <3>1, <4>1 DEF Timers, BeaconTimerHonest, CalibTimerHonest
    <3> QED
      BY <3>2, <3>3
  <2> QED
    BY <2>1, <2>3 DEF Timers, BeaconTimerHonest, CalibTimerHonest
<1>11. CASE StaticPoint
  BY <1>11, TimersOutside DEF StaticPoint, InPhase
<1>12. CASE SendCommand \/ CameraDies \/ Interrupt
  <2>1. /\ UNCHANGED <<phase, openLoop, calKnow, bcnKnow, lossB, lossC, darkB, darkC>>
        /\ at' \in {at, "crashed"}
    BY <1>12 DEF SendCommand, CameraDies, Interrupt, program, modes, sensors
  <2> QED
    BY <2>1, TimersFrame DEF InMain
<1>13. CASE Tick
  <2>1. UNCHANGED <<at, phase, openLoop, calKnow, bcnKnow>>
    BY <1>13 DEF Tick, program, modes
  <2>2. /\ lossB <= darkB => lossB' <= darkB'
        /\ lossC <= darkC => lossC' <= darkC'
    BY <1>13, OlderMonotone DEF Tick, TypeOK
  <2> QED
    BY <2>1, <2>2 DEF Timers, BeaconTimerHonest, CalibTimerHonest, InMain
<1>14. CASE SpotBrightens
  <2>1. \/ ~InMain'
        \/ phase' = "CALIBRATION"
        \/ phase' = "ACQUISITION" /\ calKnow'
    BY <1>14, CalibrationEndsLearns DEF SpotBrightens, InMain, Control, PlacedInPhase
  <2> QED
    BY <2>1, TimersOutside
<1> QED
  BY <1>1, <1>2, <1>3, <1>4, <1>5, <1>6, <1>7, <1>8, <1>9, <1>10, <1>11, <1>12,
     <1>13, <1>14 DEF Next, PatStep

\* A stuttering step keeps everything.
LEMMA StutterInv == IInv /\ UNCHANGED vars => IInv'
  BY DEF IInv, TypeOK, Control, KnowledgeHasTransform, SessionHasTransform, AlignmentIsOpenLoop,
         ClosedLoopOnly, PlacedInPhase, PointingUsesTransform, TrackingAims,
         OpenLoopReason, Timers, BeaconTimerHonest, CalibTimerHonest, vars, modes, sensors, tests, outside, InMain

-------------------------------------------------------------------------------
(* The theorems. *)

\* The inductive invariant holds in every behaviour of the process.
THEOREM Invariance == Spec => []IInv
<1>1. IInv /\ [Next]_vars => IInv'
  BY TypeStep, ControlStep, TimersStep, StutterInv DEF IInv, Control
<1> QED
  BY InitInv, <1>1, PTL DEF Spec

\* Type correctness of the PAT process.
THEOREM TypeCorrect == Spec => []TypeOK
<1>1. IInv => TypeOK
  BY DEF IInv
<1> QED
  BY Invariance, <1>1, PTL

\* The affine transform is computed before the mirror is pointed through it.
THEOREM PointingSafe == Spec => []PointingUsesTransform
<1>1. IInv => PointingUsesTransform
  BY DEF IInv, Control
<1> QED
  BY Invariance, <1>1, PTL

\* A tracking session points the mirror at the beacon, whatever was done before.
THEOREM TrackingAimed == Spec => []TrackingAims
<1>1. IInv => TrackingAims
  BY DEF IInv, Control
<1> QED
  BY Invariance, <1>1, PTL

\* Open-loop tracking has been asked for or the calibration spot is lost.
THEOREM OpenLoopJustified == Spec => []OpenLoopReason
<1>1. IInv => OpenLoopReason
  BY DEF IInv, Control
<1> QED
  BY Invariance, <1>1, PTL

\* The only steps from tracking back to acquisition are timed-out verdicts.
LEMMA BackToAcquisition ==
  ASSUME Next, at = "phase", phase \in Tracking, phase' = "ACQUISITION"
  PROVE  (ClBeacon \/ OpenLoopPhase) /\ BeaconTimedOut
<1>1. ~(SendCommand \/ CameraDies \/ Interrupt \/ Tick)
  BY DEF SendCommand, CameraDies, Interrupt, Tick, program, Tracking, ClosedLoop
<1>2. ~(CameraLoop \/ StandbyCommand \/ StandbyStop \/ MainPoll \/ AcquireEnd
        \/ AcquireExposure \/ Shutdown)
  BY DEF CameraLoop, StandbyCommand, StandbyStop, MainPoll, AcquireEnd,
         AcquireExposure, Shutdown
<1>3. ~(CalibrationPhase \/ AcquisitionPhase \/ StaticPoint)
  BY DEF CalibrationPhase, AcquisitionPhase, StaticPoint, InPhase, Tracking,
         ClosedLoop
<1>4. ~(ClInit \/ ClCalib \/ SpotBrightens)
  BY DEF ClInit, ClCalib, SpotBrightens
<1> QED
  BY <1>1, <1>2, <1>3, <1>4 DEF Next, PatStep, ClBeacon, OpenLoopPhase, Tracking,
    ClosedLoop, InPhase

\* Tracking falls back to acquisition only after PERIOD_BEACON_LOSS without a
\* confident beacon frame.
THEOREM BeaconTimeoutSafe == Spec => BeaconTimeoutHonest
<1>1. IInv /\ Next => (at = "phase" /\ phase \in Tracking /\ phase' = "ACQUISITION"
                         => darkB' > LossWait)
  <2> SUFFICES ASSUME IInv, Next, at = "phase", phase \in Tracking,
                      phase' = "ACQUISITION"
               PROVE  darkB' > LossWait
    OBVIOUS
  <2>1. (ClBeacon \/ OpenLoopPhase) /\ ~bcnKnow' /\ lossB' > LossWait
    BY BackToAcquisition DEF BeaconTimedOut
  <2>2. PICK seen \in BOOLEAN, lost \in BOOLEAN : BeaconVerdict(seen, lost)
    BY <2>1, BeaconJudged
  <2>3. ~seen /\ darkB' = darkB
    BY <2>1, <2>2 DEF BeaconVerdict
  <2>4. lossB' = lossB /\ ~bcnKnow
    <3>1. ~(lost /\ bcnKnow)
      BY <2>1, <2>2, BoundsAssumption DEF BeaconVerdict
    <3> QED
      BY <2>1, <2>2, <2>3, <3>1 DEF BeaconVerdict
  <2>5. lossB <= darkB
    BY <2>4 DEF IInv, Timers, BeaconTimerHonest, InMain
  <2> QED
    BY <2>1, <2>3, <2>4, <2>5, BoundsAssumption DEF IInv, TypeOK, Ages
<1>2. IInv /\ [Next]_vars =>
        [at = "phase" /\ phase \in Tracking /\ phase' = "ACQUISITION"
           => darkB' > LossWait]_vars
  BY <1>1
<1> QED
  BY Invariance, <1>2, PTL DEF Spec, BeaconTimeoutHonest

\* Closed loop falls back to open loop only after PERIOD_CALIB_LOSS without a
\* confident calibration frame.
THEOREM CalibTimeoutSafe == Spec => CalibTimeoutHonest
<1>1. IInv /\ Next => (at = "phase" /\ phase \in ClosedLoop /\ phase' = "OPEN_LOOP"
                         => darkC' > LossWait)
  <2> SUFFICES ASSUME IInv, Next, at = "phase", phase \in ClosedLoop,
                      phase' = "OPEN_LOOP"
               PROVE  darkC' > LossWait
    OBVIOUS
  <2>1. ClCalib
    <3>1. ~(SendCommand \/ CameraDies \/ Interrupt \/ Tick)
      BY DEF SendCommand, CameraDies, Interrupt, Tick, program, ClosedLoop
    <3>2. ~(CameraLoop \/ StandbyCommand \/ StandbyStop \/ MainPoll \/ AcquireEnd
            \/ AcquireExposure \/ Shutdown)
      BY DEF CameraLoop, StandbyCommand, StandbyStop, MainPoll, AcquireEnd,
             AcquireExposure, Shutdown
    <3>3. ~(CalibrationPhase \/ AcquisitionPhase \/ StaticPoint \/ OpenLoopPhase)
      BY DEF CalibrationPhase, AcquisitionPhase, StaticPoint, OpenLoopPhase,
             InPhase, ClosedLoop
    <3>4. ~(ClInit \/ ClBeacon \/ SpotBrightens)
      BY DEF ClInit, ClBeacon, SpotBrightens
    <3> QED
      BY <3>1, <3>2, <3>3, <3>4 DEF Next, PatStep
  <2>2. ~calKnow' /\ lossC' > LossWait
    BY <2>1 DEF ClCalib, CalibTimedOut
  <2>3. PICK seen \in BOOLEAN, lost \in BOOLEAN : CalibVerdict(seen, lost)
    BY <2>1, CalibJudged
  <2>4. ~seen /\ darkC' = darkC
    BY <2>2, <2>3 DEF CalibVerdict
  <2>5. lossC' = lossC /\ ~calKnow
    <3>1. ~(lost /\ calKnow)
      BY <2>2, <2>3, BoundsAssumption DEF CalibVerdict
    <3> QED
      BY <2>2, <2>3, <2>4, <3>1 DEF CalibVerdict
  <2>6. lossC <= darkC
    BY <2>5 DEF IInv, Control, ClosedLoopOnly, Timers, CalibTimerHonest, InMain,
                Tracking
  <2> QED
    BY <2>2, <2>4, <2>5, <2>6, BoundsAssumption DEF IInv, TypeOK, Ages
<1>2. IInv /\ [Next]_vars =>
        [at = "phase" /\ phase \in ClosedLoop /\ phase' = "OPEN_LOOP"
           => darkC' > LossWait]_vars
  BY <1>1
<1> QED
  BY Invariance, <1>2, PTL DEF Spec, CalibTimeoutHonest
===============================================================================
