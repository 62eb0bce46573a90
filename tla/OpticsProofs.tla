------------------------------ MODULE OpticsProofs ------------------------------
(***************************************************************************)
(* Proofs about what PAT does with light.                                   *)
(*                                                                          *)
(* Beam, for every number of requests and faults, every spiral and every    *)
(* way mirror commands may get lost: the pictures judged are the ones       *)
(* requested, the backlog is counted, and the mirror heals.  OwnFrame is    *)
(* not inductive: it holds because the backlog is empty outside the         *)
(* skipping, where turn counts it down.  That is BacklogKnown.              *)
(*                                                                          *)
(* Image, for every picture and every limit: the recursion is bounded.      *)
(* DepthBounded is not inductive either: DepthKnown says that every call    *)
(* under way has a pixel of its own and that the call which reaches the     *)
(* limit has no neighbour to go on to.                                      *)
(*                                                                          *)
(* Imaging, for every picture, place and earlier spot: the window holds the *)
(* spot.  GroupsKnown says what that needs: a group counted by the result   *)
(* has a pixel, so its centroid and its width are numbers.                  *)
(*                                                                          *)
(* Image, for every picture: the groups are the picture's spots.  Said of   *)
(* the result alone, this is not inductive.  SpotsKnown says how far a scan *)
(* has come: the finished groups measure the regions scanned, the last      *)
(* group grows inside one region, and every pixel that region still lacks   *)
(* is left to a call on the stack.                                          *)
(*                                                                          *)
(* Calibration: a run's pairs are the laser's spots under the angles they   *)
(* are paired with.  RunKnown adds where the mirror and the next picture    *)
(* stand in between, and that the pairs follow the spiral; so the two       *)
(* transforms fit an affine optics, whichever pairs are missing.            *)
(*                                                                          *)
(* Optics, for every spot, window, exposure and error.                      *)
(***************************************************************************)
EXTENDS Beam, Imaging, FiniteSetTheorems, FunctionTheorems, SequenceTheorems,
  WellFoundedInduction, TLAPS

-------------------------------------------------------------------------------
(* Beam. *)

Skipping == pc \in {"skip", "skip again"}

Gots == {"frame", "late", "bad"}

IsSeq(s) == \E S : s \in Seq(S)

Numbers == IsSeq(outstanding) /\ queuedCount \in Int /\ doubles \in Nat

\* As long as nothing has gone wrong, there is no backlog, or turn is what is left of it.
BacklogKnown ==
  ~stray /\ doubles = 0 => IF Skipping THEN turn = Len(outstanding) ELSE outstanding = <<>>

IInv == Numbers /\ BacklogCounted /\ BacklogKnown /\ OwnFrame /\ MirrorHeals

backlog == <<outstanding, queuedCount, own, stray, doubles>>

-------------------------------------------------------------------------------
(* The camera's queue. *)

\* A request more is one entry more.
LEMMA Appended ==
  ASSUME NEW s, IsSeq(s), NEW e
  PROVE  IsSeq(Append(s, e)) /\ Len(Append(s, e)) = Len(s) + 1 /\ Len(s) \in Nat
<1> PICK S : s \in Seq(S) BY DEF IsSeq
<1>1. s \in Seq(S \cup {e}) BY SMT
<1>2. Append(s, e) \in Seq(S \cup {e}) /\ Len(Append(s, e)) = Len(s) + 1 /\ Len(s) \in Nat
  BY <1>1, SMT
<1> QED BY <1>2 DEF IsSeq

\* A delivery is one entry less.
LEMMA Shortened ==
  ASSUME NEW s, IsSeq(s), s # <<>>
  PROVE  IsSeq(Tail(s)) /\ Len(Tail(s)) = Len(s) - 1 /\ Len(s) \in Nat \ {0}
<1> PICK S : s \in Seq(S) BY DEF IsSeq
<1>1. Tail(s) \in Seq(S) /\ Len(Tail(s)) = Len(s) - 1 /\ Len(s) \in Nat \ {0} BY SMT
<1> QED BY <1>1 DEF IsSeq

\* The empty queue is a sequence of length 0.
LEMMA Emptied ==
  ASSUME NEW s, IsSeq(s)
  PROVE  Len(s) \in Nat /\ (Len(s) = 0 <=> s = <<>>)
<1> PICK S : s \in Seq(S) BY DEF IsSeq
<1> QED BY SMT

\* With a request under way the driver has something to deliver.
LEMMA RequestedNotEmpty ==
  ASSUME IsSeq(outstanding), NEW scene
  PROVE  /\ IsSeq(Requested(scene)) /\ Requested(scene) # <<>>
         /\ Len(Requested(scene)) \in Nat
         /\ outstanding = <<>> => Len(Requested(scene)) = 1
<1>1. CASE Len(outstanding) < MaxRequests
  <2>1. Requested(scene) = Append(outstanding, scene) BY <1>1 DEF Requested
  <2>2. /\ IsSeq(Requested(scene))
        /\ Len(Requested(scene)) = Len(outstanding) + 1 /\ Len(outstanding) \in Nat
    BY <2>1, Appended
  <2>3. outstanding = <<>> => Len(outstanding) = 0 BY SMT
  <2>4. Requested(scene) # <<>> BY <2>2, Emptied, SMT
  <2> QED BY <2>2, <2>3, <2>4, SMT
<1>2. CASE ~(Len(outstanding) < MaxRequests)
  <2>1. Requested(scene) = outstanding BY <1>2 DEF Requested
  <2>2. Len(outstanding) \in Nat /\ Len(outstanding) # 0
    BY <1>2, Emptied, CameraAssumption, SMT
  <2> QED BY <2>1, <2>2, Emptied
<1> QED BY <1>1, <1>2

\* Shot keeps the invariant where nothing is skipped.
LEMMA ShotKeeps ==
  ASSUME IInv, NEW scene, NEW got \in Gots, Shot(scene, got),
         ~Skipping, ~Skipping', UNCHANGED mirrorVars
  PROVE  IInv'
<1> DEFINE q == Requested(scene)
           n == queuedCount + Len(q) - Len(outstanding)
<1>1. IsSeq(q) /\ q # <<>> /\ Len(q) \in Nat /\ (outstanding = <<>> => Len(q) = 1)
  BY RequestedNotEmpty DEF IInv, Numbers
<1>2. IsSeq(Tail(q)) /\ Len(Tail(q)) = Len(q) - 1
  BY <1>1, Shortened
<1>3. Len(outstanding) \in Nat BY Emptied DEF IInv, Numbers
<1>4. outstanding' = IF got = "late" THEN q ELSE Tail(q)
  BY Zenon DEF Shot
<1>5. queuedCount' = IF got = "late" THEN n ELSE n - 1
  BY Zenon DEF Shot
<1>6. doubles' = doubles
  BY Zenon DEF Shot
<1>7. stray' <=> (stray \/ got = "late")
  BY Zenon DEF Shot
<1>8. own' <=> (IF got = "frame" THEN Len(q) = 1 ELSE own)
  BY Zenon DEF Shot
<1> HIDE DEF q
<1>9. Numbers'
  BY <1>1, <1>2, <1>3, <1>4, <1>5, <1>6, SMT DEF IInv, Numbers
<1>10. BacklogCounted'
  BY <1>1, <1>2, <1>3, <1>4, <1>5, <1>6, SMT DEF IInv, Numbers, BacklogCounted
<1>11. BacklogKnown'
  <2> SUFFICES ASSUME ~stray', doubles' = 0 PROVE outstanding' = <<>>
    BY DEF BacklogKnown
  <2>1. got # "late" /\ outstanding = <<>> BY <1>7, <1>6 DEF IInv, BacklogKnown
  <2>2. Len(outstanding') = 0 /\ IsSeq(outstanding') BY <1>1, <1>2, <1>4, <2>1, SMT
  <2> QED BY <2>2, Emptied
<1>12. OwnFrame'
  <2> SUFFICES ASSUME ~stray', ~(doubles' > 0) PROVE own'
    BY DEF OwnFrame
  <2>0. doubles = 0 BY <1>6, SMT DEF IInv, Numbers
  <2>1. ~stray /\ doubles = 0 BY <1>7, <2>0
  <2>2. outstanding = <<>> BY <2>1 DEF IInv, BacklogKnown
  <2>3. CASE got = "frame" BY <1>1, <1>8, <2>2, <2>3
  <2>4. CASE got # "frame" BY <1>8, <2>1, <2>4, SMT DEF IInv, OwnFrame
  <2> QED BY <2>3, <2>4
<1>13. MirrorHeals' BY DEF IInv, MirrorHeals, mirrorVars, Volts
<1> QED BY <1>9, <1>10, <1>11, <1>12, <1>13 DEF IInv

-------------------------------------------------------------------------------
(* The mirror. *)

\* Angles of which every command is heard put the outputs where they belong.
LEMMA AnglesHeal ==
  ASSUME MirrorHeals, NEW a, NEW lost, SetNormalizedAngles(a, lost)
  PROVE  MirrorHeals'
<1>1. CASE a = reached
  BY <1>1 DEF SetNormalizedAngles, MirrorHeals, mirrorVars, Volts
<1>2. CASE a # reached
  <2> SUFFICES ASSUME unheard' = {} PROVE output' = Volts(reached')
    BY DEF MirrorHeals
  <2>1. /\ reached' = a /\ lost = {}
        /\ input' = [e \in Ends |-> IF e \in Sent(a) \ lost THEN Volts(a)[e] ELSE input[e]]
        /\ output' = IF "YM" \in lost THEN output ELSE input'
    BY <1>2 DEF SetNormalizedAngles
  <2>2. output' = [e \in Ends |-> Volts(a)[e]]
    BY <2>1 DEF Sent
  <2>3. Volts(a) = [e \in Ends |-> Volts(a)[e]]
    BY DEF Volts, Ends
  <2> QED BY <2>1, <2>2, <2>3
<1> QED BY <1>1, <1>2

\* Commands to the mirror keep the invariant.
LEMMA AimKeeps ==
  ASSUME IInv, NEW a, NEW lost, SetNormalizedAngles(a, lost),
         UNCHANGED backlog, ~Skipping, ~Skipping'
  PROVE  IInv'
<1>1. MirrorHeals' BY AnglesHeal DEF IInv
<1> QED BY <1>1 DEF IInv, Numbers, BacklogCounted, BacklogKnown, OwnFrame, backlog

\* A step that leaves queue and mirror alone.
LEMMA QuietKeeps ==
  ASSUME IInv, UNCHANGED <<backlog, mirrorVars>>, ~Skipping, ~Skipping'
  PROVE  IInv'
BY DEF IInv, Numbers, BacklogCounted, BacklogKnown, OwnFrame, MirrorHeals, backlog, mirrorVars, Volts

-------------------------------------------------------------------------------
(* Skipping. *)

\* The backlog is empty outside the skipping, so turn starts as what is left of it.
LEMMA SkipBeginKeeps ==
  ASSUME IInv, SkipBegin
  PROVE  IInv'
<1>1. /\ Skipping' /\ turn' = queuedCount /\ own' /\ ~stray'
      /\ UNCHANGED <<outstanding, queuedCount, doubles, mirrorVars>>
  BY DEF SkipBegin, Goto, Skipping, trackConstant
<1>2. Len(outstanding) \in Nat BY Emptied DEF IInv, Numbers
<1>3. Numbers' /\ BacklogCounted' /\ MirrorHeals'
  BY <1>1 DEF IInv, Numbers, BacklogCounted, MirrorHeals, mirrorVars, Volts
<1>4. BacklogKnown'
  BY <1>1, <1>2, <1>3, SMT DEF IInv, Numbers, BacklogCounted, BacklogKnown
<1>5. OwnFrame' BY <1>1 DEF OwnFrame
<1> QED BY <1>3, <1>4, <1>5 DEF IInv

\* One picture skipped is one off the backlog and one off turn.
LEMMA SkipKeeps ==
  ASSUME IInv, NEW got \in Gots, Skip(got)
  PROVE  IInv'
<1>1. /\ Skipping /\ Skipping' /\ turn' = turn - 1
      /\ SkipFrame(got) /\ UNCHANGED mirrorVars
  BY DEF Skip, Skipping, trackConstant
<1>2. Len(outstanding) \in Nat /\ (Len(outstanding) = 0 <=> outstanding = <<>>)
  BY Emptied DEF IInv, Numbers
<1>3. outstanding # <<>> => IsSeq(Tail(outstanding)) /\ Len(Tail(outstanding)) = Len(outstanding) - 1
  BY Shortened DEF IInv, Numbers
<1>4. /\ outstanding = <<>> => got = "late"
      /\ outstanding' = IF got = "late" THEN outstanding ELSE Tail(outstanding)
      /\ got = "late" => stray'
      /\ stray => stray'
      /\ own' = own
  BY <1>1 DEF SkipFrame
<1>5. queuedCount' = queuedCount - (IF got = "late" THEN 0 ELSE IF got = "frame" THEN 1 ELSE 2)
  BY <1>1, SMT DEF SkipFrame, Gots
<1>6. doubles' = IF got = "bad" THEN doubles + 1 ELSE doubles
  BY <1>1 DEF SkipFrame
<1>7. Numbers'
  BY <1>2, <1>3, <1>4, <1>5, <1>6, SMT DEF IInv, Numbers
<1>8. BacklogCounted'
  <2>1. Len(outstanding') = IF got = "late" THEN Len(outstanding) ELSE Len(outstanding) - 1
    BY <1>3, <1>4
  <2>2. CASE got = "late"
    BY <1>5, <1>6, <2>1, <2>2, SMT DEF IInv, Numbers, BacklogCounted
  <2>3. CASE got = "frame"
    BY <1>2, <1>5, <1>6, <2>1, <2>3, SMT DEF IInv, Numbers, BacklogCounted
  <2>4. CASE got = "bad"
    BY <1>2, <1>5, <1>6, <2>1, <2>4, SMT DEF IInv, Numbers, BacklogCounted
  <2> QED BY <2>2, <2>3, <2>4 DEF Gots
<1>9. BacklogKnown'
  <2> SUFFICES ASSUME ~stray', doubles' = 0 PROVE turn' = Len(outstanding')
    BY <1>1 DEF BacklogKnown
  <2>1. ~stray /\ got # "late" /\ doubles = 0
    BY <1>4, <1>6, SMT DEF IInv, Numbers
  <2>2. turn = Len(outstanding) BY <1>1, <2>1 DEF IInv, BacklogKnown
  <2> QED BY <1>1, <1>2, <1>3, <1>4, <2>1, <2>2, SMT
<1>10. OwnFrame'
  BY <1>4, <1>6, SMT DEF IInv, OwnFrame, Numbers
<1>11. MirrorHeals' BY <1>1 DEF IInv, MirrorHeals, mirrorVars, Volts
<1> QED BY <1>7, <1>8, <1>9, <1>10, <1>11 DEF IInv

\* turn is down to 0: nothing is left.
LEMMA SkippedKeeps ==
  ASSUME IInv, Skipped
  PROVE  IInv'
<1>1. Skipping /\ ~Skipping' /\ turn <= 0 /\ UNCHANGED <<backlog, mirrorVars>>
  BY DEF Skipped, Skipping, backlog, cameraVars, trackConstant
<1>2. Len(outstanding) \in Nat /\ (Len(outstanding) = 0 <=> outstanding = <<>>)
  BY Emptied DEF IInv, Numbers
<1>3. ~stray /\ doubles = 0 => outstanding = <<>>
  BY <1>1, <1>2, SMT DEF IInv, BacklogKnown
<1>4. BacklogKnown' BY <1>1, <1>3 DEF BacklogKnown, backlog
<1> QED
  BY <1>1, <1>4 DEF IInv, Numbers, BacklogCounted, OwnFrame, MirrorHeals, backlog, mirrorVars, Volts

-------------------------------------------------------------------------------
(* What each action is. *)

Pictures(got) == ~Skipping /\ ~Skipping' /\ UNCHANGED mirrorVars /\ \E scene : Shot(scene, got)

Aims == ~Skipping /\ ~Skipping' /\ UNCHANGED backlog /\ \E a, lost : SetNormalizedAngles(a, lost)

Quiet == ~Skipping /\ ~Skipping' /\ UNCHANGED <<backlog, mirrorVars>>

\* Every step that judges a picture is a Shot where nothing is skipped.
LEMMA ShotStepPictures ==
  ASSUME NEW got, NEW look, ShotStep(got, look)
  PROVE  Pictures(got)
<1>1. CASE RangeFirst(got, look)
  BY <1>1 DEF RangeFirst, Search, CalShot, Goto, Pictures, Skipping
<1>2. CASE RangeNext(got, look)
  BY <1>2 DEF RangeNext, Search, CalShot, Goto, Pictures, Skipping
<1>3. CASE Tune(got, look)
  BY <1>3 DEF Tune, TuneEnds, CalShot, Goto, Pictures, Skipping
<1>4. CASE TuneDown(got, look)
  BY <1>4 DEF TuneDown, Try, TuneEnds, CalShot, Goto, Pictures, Skipping
<1>5. CASE TuneUp(got, look)
  BY <1>5 DEF TuneUp, Try, TuneEnds, CalShot, Goto, Pictures, Skipping
<1>6. CASE SpiralShot(got, look)
  BY <1>6 DEF SpiralShot, CalShot, Goto, Pictures, Skipping
<1>7. CASE FsmCheck(got, look)
  BY <1>7 DEF FsmCheck, Return, Goto, Pictures, Skipping
<1>8. CASE SweepGuess(got, look)
  BY <1>8 DEF SweepGuess, Sweep, Between, Goto, trackConstant, Pictures, Skipping
<1>9. CASE SweepUp(got, look)
  BY <1>9 DEF SweepUp, Sweep, Between, Goto, trackConstant, Pictures, Skipping
<1>10. CASE AcquireTune(got, look)
  BY <1>10 DEF AcquireTune, Between, Goto, trackConstant, Pictures, Skipping
<1>11. CASE AcquireDown(got, look)
  BY <1>11 DEF AcquireDown, AcquireTry, Between, Goto, trackConstant, Pictures, Skipping
<1>12. CASE AcquireUp(got, look)
  BY <1>12 DEF AcquireUp, AcquireTry, Between, Goto, trackConstant, Pictures, Skipping
<1>13. CASE TrackLaser(got, look)
  BY <1>13 DEF TrackLaser, Goto, trackConstant, Pictures, Skipping
<1>14. CASE LaserCheck(got, look)
  BY <1>14 DEF LaserCheck, Goto, trackConstant, Pictures, Skipping
<1> QED
  BY <1>1, <1>2, <1>3, <1>4, <1>5, <1>6, <1>7, <1>8, <1>9, <1>10, <1>11, <1>12, <1>13, <1>14
  DEF ShotStep

\* A step that only saves a picture, or skips one.
LEMMA SaveStepKinds ==
  ASSUME NEW got, SaveStep(got)
  PROVE  Pictures(got) \/ Skip(got)
<1>1. CASE FsmSave(got)
  BY <1>1 DEF FsmSave, Goto, Pictures, Skipping
<1>2. CASE LaserImage(got)
  BY <1>2 DEF LaserImage, Goto, trackConstant, Pictures, Skipping
<1>3. CASE Acquired(got)
  BY <1>3 DEF Acquired, Goto, trackConstant, Pictures, Skipping
<1>4. CASE TrackBeacon(got)
  BY <1>4 DEF TrackBeacon, Goto, trackConstant, Pictures, Skipping
<1> QED BY <1>1, <1>2, <1>3, <1>4 DEF SaveStep

\* Every step that aims the mirror leaves the camera alone.
LEMMA AimStepAims ==
  ASSUME NEW lost, AimStep(lost)
  PROVE  Aims
<1>1. CASE SpiralAim(lost)
  BY <1>1 DEF SpiralAim, Aim, Goto, Aims, Skipping, backlog
<1>2. CASE RunEnd(lost)
  BY <1>2 DEF RunEnd, Return, Aim, Aims, Skipping, backlog
<1>3. CASE FsmAim(lost)
  BY <1>3 DEF FsmAim, Aim, Goto, Aims, Skipping, backlog
<1>4. ASSUME NEW a, AcquiredPoint(a, lost) PROVE Aims
  BY <1>4 DEF AcquiredPoint, Steer, SkipBegin, Aim, Goto, Aims, Skipping, backlog
<1>5. ASSUME NEW a, TrackSteer(a, lost) PROVE Aims
  BY <1>5 DEF TrackSteer, Steer, Aim, Goto, Aims, Skipping, backlog
<1> QED BY <1>1, <1>2, <1>3, <1>4, <1>5 DEF AimStep

\* The kinds of steps PAT takes by itself.
LEMMA WorkKinds ==
  ASSUME Work
  PROVE  \/ \E got \in Gots : Pictures(got) \/ Skip(got)
         \/ Aims \/ Quiet \/ SkipBegin \/ Skipped
<1>1. ASSUME NEW got \in {"frame"} \cup Missed, NEW look, ShotStep(got, look)
      PROVE  got \in Gots /\ Pictures(got)
  BY <1>1, ShotStepPictures DEF Gots, Missed
<1>2. ASSUME NEW got \in {"frame"} \cup Missed, SaveStep(got)
      PROVE  got \in Gots /\ (Pictures(got) \/ Skip(got))
  BY <1>2, SaveStepKinds DEF Gots, Missed
<1>3. ASSUME NEW lost, AimStep(lost) PROVE Aims
  BY <1>3, AimStepAims
<1>4. TuneLimit => Quiet
  BY DEF TuneLimit, TuneEnds, Goto, cameraVars, Quiet, Skipping, backlog
<1>5. RunFails => Quiet
  BY DEF RunFails, Return, cameraVars, Quiet, Skipping, backlog
<1>6. LaserTestOver => Quiet
  BY DEF LaserTestOver, Return, cameraVars, Quiet, Skipping, backlog
<1>7. AcquireLimit => Quiet
  BY DEF AcquireLimit, Between, Goto, cameraVars, trackConstant, Quiet, Skipping, backlog
<1>8. AcquireFails => Quiet
  BY DEF AcquireFails, Return, cameraVars, Quiet, Skipping, backlog
<1> QED BY <1>1, <1>2, <1>3, <1>4, <1>5, <1>6, <1>7, <1>8 DEF Work

\* The kinds of steps the ground asks for.
LEMMA CommandKinds ==
  ASSUME Command
  PROVE  (\E got \in Gots : Pictures(got)) \/ Aims \/ Quiet
<1>1. ASSUME NEW lost, RunBegin(lost) PROVE Aims
  BY <1>1 DEF RunBegin, Aim, Aims, Skipping, backlog
<1>2. ASSUME NEW lost, LaserTestBegin(lost) PROVE Aims
  BY <1>2 DEF LaserTestBegin, Aim, Aims, Skipping, backlog
<1>3. FsmBegin => Quiet
  BY DEF FsmBegin, cameraVars, Quiet, Skipping, backlog
<1>4. AcquireBegin => Quiet
  BY DEF AcquireBegin, cameraVars, trackConstant, Quiet, Skipping, backlog
<1>5. ASSUME NEW got \in {"frame"} \cup Missed, GetImage(got)
      PROVE  got \in Gots /\ Pictures(got)
  BY <1>5 DEF GetImage, trackConstant, Pictures, Skipping, Gots, Missed
<1>6. ASSUME NEW got \in {"frame"} \cup Missed, AcquireEnded(got)
      PROVE  got \in Gots /\ Pictures(got)
  BY <1>6 DEF AcquireEnded, Return, Pictures, Skipping, Gots, Missed
<1>7. TrackEnds => Quiet
  BY DEF TrackEnds, Return, cameraVars, Quiet, Skipping, backlog
<1> QED BY <1>1, <1>2, <1>3, <1>4, <1>5, <1>6, <1>7 DEF Command

-------------------------------------------------------------------------------
(* The theorems. *)

\* The invariant holds at the start.
LEMMA InitGood ==
  ASSUME Init
  PROVE  IInv
<1>1. outstanding = <<>> /\ queuedCount = 0 /\ own /\ ~stray /\ doubles = 0
  BY DEF Init, CameraInit
<1>2. IsSeq(outstanding) /\ Len(outstanding) = 0
  <2>1. outstanding \in Seq({}) /\ Len(outstanding) = 0 BY <1>1, SMT
  <2> QED BY <2>1 DEF IsSeq
<1>3. ~Skipping BY DEF Init, CalInit, Skipping
<1>4. output = Volts(reached) BY DEF Init, MirrorInit
<1> QED
  BY <1>1, <1>2, <1>3, <1>4, SMT
  DEF IInv, Numbers, BacklogCounted, BacklogKnown, OwnFrame, MirrorHeals

\* Every step keeps the invariant.
LEMMA NextGood ==
  ASSUME IInv, [Next]_vars
  PROVE  IInv'
<1>1. ASSUME NEW got \in Gots, Pictures(got) PROVE IInv'
  <2>1. PICK scene : Shot(scene, got) BY <1>1 DEF Pictures
  <2> QED BY <1>1, <2>1, ShotKeeps DEF Pictures
<1>2. ASSUME NEW got \in Gots, Skip(got) PROVE IInv'
  BY <1>2, SkipKeeps
<1>3. CASE Aims
  <2>1. PICK a, lost : SetNormalizedAngles(a, lost) BY <1>3 DEF Aims
  <2> QED BY <1>3, <2>1, AimKeeps DEF Aims
<1>4. CASE Quiet
  BY <1>4, QuietKeeps DEF Quiet
<1>5. CASE SkipBegin
  BY <1>5, SkipBeginKeeps
<1>6. CASE Skipped
  BY <1>6, SkippedKeeps
<1>7. CASE UNCHANGED vars
  BY <1>7 DEF vars, calVars, locals, cameraVars, mirrorVars, IInv, Numbers, BacklogCounted,
              BacklogKnown, OwnFrame, MirrorHeals, Skipping, Volts
<1>8. CASE Work
  BY <1>1, <1>2, <1>3, <1>4, <1>5, <1>6, <1>8, WorkKinds
<1>9. CASE Command
  BY <1>1, <1>3, <1>4, <1>9, CommandKinds
<1> QED BY <1>7, <1>8, <1>9 DEF Next

\* The invariant of camera and mirror under every job of PAT.
THEOREM BeamInvariant == Spec => []IInv
<1>1. Init => IInv BY InitGood
<1>2. IInv /\ [Next]_vars => IInv' BY NextGood
<1> QED BY <1>1, <1>2, PTL DEF Spec

\* Whatever PAT does with its camera and however its waits and the deliveries of frames are
\* interleaved: until a wait times out, and again from the next clearing of the queue on, a
\* picture it judges is the one it requested for the purpose, provided that no request was
\* unlocked twice (waitForFrame, ignoreNextFrames).
THEOREM PictureIsOwn == Spec => []OwnFrame
<1>1. IInv => OwnFrame BY DEF IInv
<1> QED BY <1>1, BeamInvariant, PTL

\* For every number of requests, queuedCount is the driver's backlog, but for the requests
\* unlocked twice (requestFrame, unlockRequest).
THEOREM BacklogIsCounted == Spec => []BacklogCounted
<1>1. IInv => BacklogCounted BY DEF IInv
<1> QED BY <1>1, BeamInvariant, PTL

\* For all angles and every way commands may get lost, the mirror is where FSM believes it
\* once angles have been sent of which all is heard (setNormalizedAngles).
THEOREM MirrorIsHealed == Spec => []MirrorHeals
<1>1. IInv => MirrorHeals BY DEF IInv
<1> QED BY <1>1, BeamInvariant, PTL

-------------------------------------------------------------------------------
(* The pairs of a calibration. *)

\* Where a run may be.
RunPlaces == {"range0", "range", "tune", "down", "up", "found", "spiral"}

\* What the camera sees of the laser while the mirror is driven by m.
LitAt(m) == [laser |-> TRUE, mirror |-> m]

\* As long as nothing has gone wrong, the next picture is its own, the mirror is where it
\* was sent to, which is where the next spot is expected, and the pairs so far are right.
Untroubled ==
  /\ outstanding = <<>>
  /\ output = Volts(reached)
  /\ pc = "spiral" => reached = Spiral[turn + 1]
  /\ \A i \in 1..Len(points) : points[i].spot = LitAt(Volts(points[i].angles))

\* The pairs are for a selection of the angles that are done, whatever has gone wrong.
Selected ==
  /\ turn \in Nat
  /\ pc = "spiral" => turn < Len(Spiral)
  /\ \E pick \in Selections(Len(points)) :
       \A i \in 1..Len(points) : pick[i] <= turn /\ points[i].angles = Spiral[pick[i]]

RunKnown ==
  /\ pc = "idle" => points = <<>> /\ turn = 0
  /\ task = "calibrate" => /\ pc \in RunPlaces /\ IsSeq(points) /\ Selected
                           /\ ~troubled => Untroubled

\* Pictures and settings of a run between its angles; steps of others, and the run's end.
RunGoesOn ==
  /\ pc \in RunPlaces /\ pc' \in RunPlaces \ {"spiral"} /\ UNCHANGED <<points, turn>>
  /\ task' = task
  /\ UNCHANGED mirrorVars
  /\ \/ UNCHANGED <<troubled, outstanding>>
     \/ \E got : CalShot(Lit, got)

Elsewhere ==
  /\ task' # "calibrate"
  /\ pc' = "idle" => points' = <<>> /\ turn' = 0
  /\ task = "calibrate" /\ calibrated' => Len(points) >= MinPairs

\* A picture for which nothing was waiting is the one that was asked for.
LEMMA OwnPicture ==
  ASSUME outstanding = <<>>, NEW scene, Shot(scene, "frame")
  PROVE  outstanding' = <<>> /\ Had(scene) = scene
<1>1. Len(outstanding) = 0 /\ 0 < MaxRequests BY CameraAssumption, SMT
<1>2. Requested(scene) = <<scene>>
  <2>1. Requested(scene) = Append(outstanding, scene) BY <1>1 DEF Requested
  <2>2. Append(<<>>, scene) = <<scene>> BY SMT
  <2> QED BY <2>1, <2>2
<1>3. outstanding' = Tail(Requested(scene)) BY Zenon DEF Shot
<1>4. Tail(<<scene>>) = <<>> /\ Head(<<scene>>) = scene BY SMT
<1> QED BY <1>2, <1>3, <1>4 DEF Had

\* Angles of which all is heard are where the mirror goes, if it was where it was believed.
LEMMA AnglesSet ==
  ASSUME NEW a, NEW lost, SetNormalizedAngles(a, lost)
  PROVE  /\ reached' = a
         /\ output = Volts(reached) /\ lost = {} => output' = Volts(a)
<1>1. CASE a = reached
  BY <1>1 DEF SetNormalizedAngles, mirrorVars, Volts
<1>2. CASE a # reached
  <2>1. /\ reached' = a
        /\ input' = [e \in Ends |-> IF e \in Sent(a) \ lost THEN Volts(a)[e] ELSE input[e]]
        /\ output' = IF "YM" \in lost THEN output ELSE input'
    BY <1>2 DEF SetNormalizedAngles
  <2>2. lost = {} => output' = [e \in Ends |-> Volts(a)[e]] BY <2>1 DEF Sent
  <2>3. Volts(a) = [e \in Ends |-> Volts(a)[e]] BY DEF Volts, Ends
  <2> QED BY <2>1, <2>2, <2>3
<1> QED BY <1>1, <1>2

\* A run between its angles keeps what is known.
LEMMA RunGoesOnKeeps ==
  ASSUME RunKnown, RunGoesOn
  PROVE  RunKnown'
<1>1. pc' # "idle" /\ pc' # "spiral" BY DEF RunGoesOn, RunPlaces
<1>2. SUFFICES ASSUME task' = "calibrate"
               PROVE (~troubled => Untroubled)' /\ IsSeq(points)' /\ Selected'
  BY <1>1 DEF RunKnown, RunGoesOn
<1>3. IsSeq(points') /\ Selected /\ (~troubled => Untroubled)
  BY <1>2 DEF RunKnown, RunGoesOn
<1>4. ASSUME ~troubled' PROVE Untroubled /\ outstanding' = <<>>
  <2>1. CASE UNCHANGED <<troubled, outstanding>> BY <1>3, <1>4, <2>1 DEF Untroubled
  <2>2. ASSUME NEW got, CalShot(Lit, got) PROVE Untroubled /\ outstanding' = <<>>
    <3>1. ~troubled /\ got = "frame" /\ Shot(Lit, got) BY <1>4, <2>2 DEF CalShot
    <3> QED BY <1>3, <3>1, OwnPicture DEF Untroubled
  <2> QED BY <2>1, <2>2 DEF RunGoesOn
<1>5. ASSUME ~troubled' PROVE Untroubled'
  BY <1>1, <1>4, <1>5 DEF Untroubled, RunGoesOn, mirrorVars, LitAt, Volts
<1>6. Selected' BY <1>1, <1>3, Zenon DEF Selected, RunGoesOn
<1> QED BY <1>3, <1>5, <1>6

\* The angles just set are later in the spiral than those of all pairs before.
LEMMA SelectionGrows ==
  ASSUME IsSeq(points), Selected, turn < Len(Spiral), pc' # "spiral", turn' = turn + 1,
         \/ points' = points
         \/ \E p : p.angles = Spiral[turn + 1] /\ points' = Append(points, p)
  PROVE  Selected'
<1>0. turn \in Nat /\ Len(points) \in Nat /\ Len(Spiral) \in Nat
  BY Emptied, CalibrationAssumption DEF Selected
<1>1. PICK pick \in Selections(Len(points)) :
        \A i \in 1..Len(points) : pick[i] <= turn /\ points[i].angles = Spiral[pick[i]]
  BY DEF Selected
<1>2. /\ pick \in [1..Len(points) -> 1..Len(Spiral)]
      /\ \A i, j \in 1..Len(points) : i < j => pick[i] < pick[j]
  BY DEF Selections
<1>3. turn' \in Nat BY <1>0
<1>4. CASE points' = points
  <2>1. \A i \in 1..Len(points) : pick[i] <= turn' BY <1>0, <1>1, <1>2
  <2>2. pick \in Selections(Len(points')) BY <1>4
  <2>3. \A i \in 1..Len(points') : pick[i] <= turn' /\ points'[i].angles = Spiral[pick[i]]
    BY <1>1, <1>4, <2>1
  <2> QED BY <1>3, <2>2, <2>3 DEF Selected
<1>5. ASSUME NEW p, p.angles = Spiral[turn + 1], points' = Append(points, p) PROVE Selected'
  <2>1. PICK n \in Nat : n = Len(points) BY <1>0
  <2>2. Len(points') = n + 1 BY <1>5, <2>1, Appended
  <2>3. /\ \A i \in 1..n : points'[i] = points[i]
        /\ points'[n + 1] = p
    <3>1. PICK S : points \in Seq(S) BY DEF IsSeq
    <3>2. points \in Seq(S \cup {p}) BY <3>1, SMT
    <3> QED BY <1>5, <2>1, <3>2, SMT
  <2> DEFINE new == [i \in 1..(n + 1) |-> IF i = n + 1 THEN turn + 1 ELSE pick[i]]
  <2>4. ASSUME NEW i \in 1..(n + 1)
        PROVE  /\ new[i] \in 1..Len(Spiral) /\ new[i] <= turn + 1
               /\ points'[i].angles = Spiral[new[i]]
    <3>1. CASE i = n + 1
      <4>1. new[i] = turn + 1 BY <3>1
      <4>2. turn + 1 \in 1..Len(Spiral) /\ turn + 1 <= turn + 1 BY <1>0
      <4> QED BY <1>5, <2>3, <3>1, <4>1, <4>2
    <3>2. CASE i # n + 1
      <4>1. i \in 1..n /\ new[i] = pick[i] BY <3>2
      <4>2. pick[i] \in 1..Len(Spiral) /\ pick[i] <= turn BY <1>1, <1>2, <2>1, <4>1
      <4>3. pick[i] <= turn + 1 BY <1>0, <4>2
      <4> HIDE DEF new
      <4> QED BY <1>1, <2>1, <2>3, <4>1, <4>2, <4>3
    <3> QED BY <3>1, <3>2
  <2>5. ASSUME NEW i \in 1..(n + 1), NEW j \in 1..(n + 1), i < j PROVE new[i] < new[j]
    <3>1. i \in 1..n /\ new[i] = pick[i] BY <2>5
    <3>2. pick[i] <= turn /\ pick[i] \in Int BY <1>1, <1>2, <2>1, <3>1
    <3>3. CASE j = n + 1
      <4>1. new[j] = turn + 1 BY <3>3
      <4> HIDE DEF new
      <4> QED BY <1>0, <3>1, <3>2, <4>1
    <3>4. CASE j # n + 1
      <4>1. j \in 1..n /\ new[j] = pick[j] BY <3>4
      <4> HIDE DEF new
      <4> QED BY <1>2, <2>1, <2>5, <3>1, <4>1
    <3> QED BY <3>3, <3>4
  <2>6. new \in [1..(n + 1) -> 1..Len(Spiral)] BY <2>4
  <2> HIDE DEF new
  <2>7. new \in Selections(n + 1) BY <2>5, <2>6 DEF Selections
  <2> QED BY <1>3, <2>2, <2>4, <2>7 DEF Selected
<1> QED BY <1>4, <1>5

\* A spot that is found under the angles just set is paired with them.
LEMMA SpiralShotKeeps ==
  ASSUME RunKnown, NEW got, NEW look, SpiralShot(got, look)
  PROVE  RunKnown'
<1>1. /\ pc = "spiral" /\ pc' = "found" /\ task' = task /\ CalShot(Lit, got)
      /\ UNCHANGED mirrorVars
      /\ points' = IF got = "frame" /\ look \in Grouped
                   THEN Append(points, Pair(Spiral[turn + 1])) ELSE points
  BY DEF SpiralShot, Goto, CalShot
<1>2. SUFFICES ASSUME task = "calibrate"
               PROVE IsSeq(points)' /\ (~troubled => Untroubled)' /\ Selected'
  BY <1>1 DEF RunKnown, RunPlaces
<1>3. IsSeq(points) /\ Selected /\ (~troubled => Untroubled) BY <1>2 DEF RunKnown
<1>4. IsSeq(points') BY <1>1, <1>3, Appended
<1>5. ASSUME ~troubled' PROVE Untroubled'
  <2>1. ~troubled /\ got = "frame" /\ Shot(Lit, got) BY <1>1, <1>5 DEF CalShot
  <2>2. Untroubled /\ reached = Spiral[turn + 1] BY <1>1, <1>3, <2>1 DEF Untroubled
  <2>3. outstanding' = <<>> /\ Had(Lit) = Lit BY <2>1, <2>2, OwnPicture DEF Untroubled
  <2>4. output' = output /\ reached' = reached BY <1>1 DEF mirrorVars
  <2> DEFINE a == Spiral[turn + 1]
             p == Pair(a)
  <2>5. p.spot = LitAt(Volts(p.angles))
    <3>1. p.spot = Had(Lit) /\ p.angles = a BY DEF Pair
    <3>2. Lit = LitAt(output) BY DEF Lit, LitAt
    <3> QED BY <2>2, <2>3, <3>1, <3>2 DEF Untroubled
  <2> HIDE DEF p
  <2>6. \A i \in 1..Len(points') : points'[i].spot = LitAt(Volts(points'[i].angles))
    <3>1. CASE points' = points BY <2>2, <3>1 DEF Untroubled
    <3>2. CASE points' = Append(points, p)
      <4>1. PICK S : points \in Seq(S) BY <1>3 DEF IsSeq
      <4>2. points \in Seq(S \cup {p}) BY <4>1, SMT
      <4>3. ASSUME NEW i \in 1..Len(points')
            PROVE  (i \in 1..Len(points) /\ points'[i] = points[i]) \/ points'[i] = p
        BY <3>2, <4>2, <4>3, SMT
      <4> QED BY <2>2, <2>5, <4>3 DEF Untroubled
    <3> QED BY <1>1, <3>1, <3>2 DEF p
  <2>7. output' = Volts(reached') BY <2>2, <2>4 DEF Untroubled
  <2> QED BY <1>1, <2>3, <2>6, <2>7 DEF Untroubled, LitAt, Volts
<1>6. Selected'
  <2>1. turn < Len(Spiral) /\ turn' = turn + 1 BY <1>1, <1>3 DEF Selected, SpiralShot
  <2>2. Pair(Spiral[turn + 1]).angles = Spiral[turn + 1] BY DEF Pair
  <2>3. \/ points' = points
        \/ \E p : p.angles = Spiral[turn + 1] /\ points' = Append(points, p)
    BY <1>1, <2>2, Zenon
  <2>4. pc' # "spiral" BY <1>1
  <2> QED BY <1>3, <2>1, <2>3, <2>4, SelectionGrows
<1> QED BY <1>4, <1>5, <1>6

\* The next angles of the spiral.
LEMMA SpiralAimKeeps ==
  ASSUME RunKnown, NEW lost, SpiralAim(lost)
  PROVE  RunKnown'
<1>1. /\ task = "calibrate" /\ task' = task /\ pc' = "spiral"
      /\ UNCHANGED <<points, turn, outstanding>>
      /\ SetNormalizedAngles(Spiral[turn + 1], lost) /\ turn < Len(Spiral)
      /\ troubled' <=> troubled \/ lost # {}
  BY DEF SpiralAim, Goto, Aim, locals
<1>2. IsSeq(points') /\ Selected /\ (~troubled => Untroubled) BY <1>1 DEF RunKnown
<1>3. ASSUME ~troubled' PROVE Untroubled'
  <2>1. Untroubled /\ lost = {} BY <1>1, <1>2, <1>3
  <2>2. reached' = Spiral[turn + 1] /\ output' = Volts(Spiral[turn + 1])
    BY <1>1, <2>1, AnglesSet DEF Untroubled
  <2> QED BY <1>1, <2>1, <2>2 DEF Untroubled, LitAt, Volts
<1>4. Selected' BY <1>1, <1>2, Zenon DEF Selected
<1> QED BY <1>1, <1>2, <1>3, <1>4 DEF RunKnown, RunPlaces

\* A run that begins is in trouble or has nothing behind it.
LEMMA RunBeginKeeps ==
  ASSUME RunKnown, NEW lost, RunBegin(lost)
  PROVE  RunKnown'
<1>1. /\ pc = "idle" /\ pc' = "range0"
      /\ points' = points /\ turn' = turn /\ outstanding' = outstanding
      /\ SetNormalizedAngles(Centre, lost)
      /\ troubled' <=> outstanding # <<>> \/ output' # Volts(Centre)
  BY DEF RunBegin, Aim, locals
<1>2. points' = <<>> BY <1>1 DEF RunKnown
<1>3. <<>> \in Seq({}) /\ Len(<<>>) = 0 BY SMT
<1>4. IsSeq(points') BY <1>2, <1>3 DEF IsSeq
<1>5. reached' = Centre BY <1>1, AnglesSet
<1>6. ASSUME ~troubled' PROVE Untroubled'
  BY <1>1, <1>2, <1>3, <1>5, <1>6, SMT DEF Untroubled, LitAt, Volts
<1>7. Selected'
  <2>1. turn' = 0 BY <1>1 DEF RunKnown
  <2> DEFINE none == [i \in 1..0 |-> 1]
  <2>2. none \in Selections(0) BY DEF Selections
  <2>3. Len(points') = 0 /\ 1..0 = {} BY <1>2, <1>3
  <2> HIDE DEF none
  <2> QED BY <1>1, <2>1, <2>2, <2>3 DEF Selected
<1> QED BY <1>1, <1>4, <1>6, <1>7 DEF RunKnown, RunPlaces

\* Pictures: a run's, a spiral's, or another job's.
LEMMA ShotStepRuns ==
  ASSUME RunKnown, NEW got, NEW look, ShotStep(got, look)
  PROVE  RunGoesOn \/ SpiralShot(got, look) \/ Elsewhere
<1>1. CASE RangeFirst(got, look)
  BY <1>1 DEF RangeFirst, Search, CalShot, Goto, RunGoesOn, RunPlaces
<1>2. CASE RangeNext(got, look)
  BY <1>2 DEF RangeNext, Search, CalShot, Goto, RunGoesOn, RunPlaces
<1>3. CASE Tune(got, look)
  BY <1>3 DEF Tune, TuneEnds, CalShot, Goto, RunGoesOn, RunPlaces
<1>4. CASE TuneDown(got, look)
  BY <1>4 DEF TuneDown, Try, TuneEnds, CalShot, Goto, RunGoesOn, RunPlaces
<1>5. CASE TuneUp(got, look)
  BY <1>5 DEF TuneUp, Try, TuneEnds, CalShot, Goto, RunGoesOn, RunPlaces
<1>6. CASE FsmCheck(got, look)
  BY <1>6 DEF FsmCheck, Return, Goto, RunKnown, RunPlaces, Elsewhere
<1>7. CASE SweepGuess(got, look)
  BY <1>7 DEF SweepGuess, Sweep, Between, Goto, RunKnown, RunPlaces, Elsewhere
<1>8. CASE SweepUp(got, look)
  BY <1>8 DEF SweepUp, Sweep, Between, Goto, RunKnown, RunPlaces, Elsewhere
<1>9. CASE AcquireTune(got, look)
  BY <1>9 DEF AcquireTune, Between, Goto, RunKnown, RunPlaces, Elsewhere
<1>10. CASE AcquireDown(got, look)
  BY <1>10 DEF AcquireDown, AcquireTry, Between, Goto, RunKnown, RunPlaces, Elsewhere
<1>11. CASE AcquireUp(got, look)
  BY <1>11 DEF AcquireUp, AcquireTry, Between, Goto, RunKnown, RunPlaces, Elsewhere
<1>12. CASE TrackLaser(got, look)
  BY <1>12 DEF TrackLaser, Goto, RunKnown, RunPlaces, Elsewhere
<1>13. CASE LaserCheck(got, look)
  BY <1>13 DEF LaserCheck, Goto, Elsewhere
<1> QED
  BY <1>1, <1>2, <1>3, <1>4, <1>5, <1>6, <1>7, <1>8, <1>9, <1>10, <1>11, <1>12, <1>13
  DEF ShotStep

\* Pictures that are only saved, or skipped, are another job's.
LEMMA SaveStepElsewhere ==
  ASSUME RunKnown, NEW got, SaveStep(got)
  PROVE  Elsewhere
<1>1. CASE FsmSave(got)
  BY <1>1 DEF FsmSave, Goto, RunKnown, RunPlaces, Elsewhere
<1>2. CASE LaserImage(got)
  BY <1>2 DEF LaserImage, Goto, RunKnown, RunPlaces, Elsewhere
<1>3. CASE Skip(got)
  BY <1>3 DEF Skip, RunKnown, RunPlaces, Elsewhere
<1>4. CASE Acquired(got)
  BY <1>4 DEF Acquired, Goto, RunKnown, RunPlaces, Elsewhere
<1>5. CASE TrackBeacon(got)
  BY <1>5 DEF TrackBeacon, Goto, RunKnown, RunPlaces, Elsewhere
<1> QED BY <1>1, <1>2, <1>3, <1>4, <1>5 DEF SaveStep

\* The mirror is aimed by the spiral, by the end of a run, or by another job.
LEMMA AimStepRuns ==
  ASSUME RunKnown, NEW lost, AimStep(lost)
  PROVE  SpiralAim(lost) \/ Elsewhere
<1>1. CASE RunEnd(lost)
  BY <1>1 DEF RunEnd, Return, Elsewhere
<1>2. CASE FsmAim(lost)
  BY <1>2 DEF FsmAim, Goto, RunKnown, RunPlaces, Elsewhere
<1>3. ASSUME NEW a, AcquiredPoint(a, lost) PROVE Elsewhere
  BY <1>3 DEF AcquiredPoint, Steer, Goto, RunKnown, RunPlaces, Elsewhere
<1>4. ASSUME NEW a, TrackSteer(a, lost) PROVE Elsewhere
  BY <1>4 DEF TrackSteer, Steer, Goto, RunKnown, RunPlaces, Elsewhere
<1> QED BY <1>1, <1>2, <1>3, <1>4 DEF AimStep

\* What a step is to a run.
LEMMA StepRuns ==
  ASSUME RunKnown, Next
  PROVE  \/ RunGoesOn \/ Elsewhere
         \/ \E got, look : SpiralShot(got, look)
         \/ \E lost : SpiralAim(lost) \/ RunBegin(lost)
<1>1. CASE Work
  <2>1. TuneLimit => RunGoesOn
    BY DEF TuneLimit, TuneEnds, Goto, cameraVars, RunGoesOn, RunPlaces
  <2>2. RunFails => Elsewhere BY DEF RunFails, Return, Elsewhere
  <2>3. LaserTestOver => Elsewhere BY DEF LaserTestOver, Return, Elsewhere
  <2>4. SkipBegin => Elsewhere
    BY DEF SkipBegin, Goto, RunKnown, RunPlaces, Elsewhere
  <2>5. Skipped => Elsewhere
    BY DEF Skipped, RunKnown, RunPlaces, Elsewhere
  <2>6. AcquireLimit => Elsewhere
    BY DEF AcquireLimit, Between, Goto, RunKnown, RunPlaces, Elsewhere
  <2>7. AcquireFails => Elsewhere
    BY DEF AcquireFails, Return, RunKnown, RunPlaces, Elsewhere
  <2> QED
    BY <1>1, <2>1, <2>2, <2>3, <2>4, <2>5, <2>6, <2>7, ShotStepRuns, SaveStepElsewhere,
       AimStepRuns DEF Work
<1>2. CASE Command
  <2>1. ASSUME NEW lost, LaserTestBegin(lost) PROVE Elsewhere
    BY <2>1 DEF LaserTestBegin, RunKnown, RunPlaces, Elsewhere
  <2>2. FsmBegin => Elsewhere BY DEF FsmBegin, RunKnown, RunPlaces, Elsewhere
  <2>3. AcquireBegin => Elsewhere BY DEF AcquireBegin, RunKnown, RunPlaces, Elsewhere
  <2>4. ASSUME NEW got, GetImage(got) PROVE Elsewhere
    BY <2>4 DEF GetImage, locals, RunKnown, RunPlaces, Elsewhere
  <2>5. ASSUME NEW got, AcquireEnded(got) PROVE Elsewhere
    BY <2>5 DEF AcquireEnded, Return, RunKnown, RunPlaces, Elsewhere
  <2>6. TrackEnds => Elsewhere
    BY DEF TrackEnds, Return, RunKnown, RunPlaces, Elsewhere
  <2> QED BY <1>2, <2>1, <2>2, <2>3, <2>4, <2>5, <2>6 DEF Command
<1> QED BY <1>1, <1>2 DEF Next

\* What is known of a run is kept.
LEMMA RunStep ==
  ASSUME RunKnown, [Next]_vars
  PROVE  RunKnown'
<1>1. CASE UNCHANGED vars
  BY <1>1 DEF vars, calVars, locals, cameraVars, mirrorVars, RunKnown, Selected, Untroubled,
             LitAt, Volts
<1>2. CASE RunGoesOn BY <1>2, RunGoesOnKeeps
<1>3. CASE Elsewhere BY <1>3 DEF Elsewhere, RunKnown
<1>4. ASSUME NEW got, NEW look, SpiralShot(got, look) PROVE RunKnown'
  BY <1>4, SpiralShotKeeps
<1>5. ASSUME NEW lost, SpiralAim(lost) \/ RunBegin(lost) PROVE RunKnown'
  BY <1>5, SpiralAimKeeps, RunBeginKeeps
<1> QED BY <1>1, <1>2, <1>3, <1>4, <1>5, StepRuns

\* A run that succeeds has the pairs it needs.
LEMMA SuccessHasPairs ==
  ASSUME RunKnown, Next, RunSucceeds
  PROVE  Len(points) >= MinPairs
<1>1. task = "calibrate" /\ task' = "none" /\ calibrated' BY DEF RunSucceeds
<1>2. ~RunGoesOn BY <1>1 DEF RunGoesOn
<1>3. ASSUME NEW got, NEW look, SpiralShot(got, look) PROVE FALSE
  BY <1>1, <1>3 DEF SpiralShot, Goto
<1>4. ASSUME NEW lost, SpiralAim(lost) PROVE FALSE
  BY <1>1, <1>4 DEF SpiralAim, Goto
<1>5. ASSUME NEW lost, RunBegin(lost) PROVE FALSE
  BY <1>1, <1>5 DEF RunBegin
<1> QED BY <1>1, <1>2, <1>3, <1>4, <1>5, StepRuns DEF Elsewhere

\* For every spiral, every number of pairs wanted and every way pictures and commands may
\* go wrong: a run that succeeds has the pairs it needs, and unless something went wrong
\* each pair is the laser's spot under just its angles (run, setNormalizedAngles).
THEOREM PairsAreSound == Spec => PairsSound
<1>1. Init => RunKnown BY DEF Init, CalInit, RunKnown
<1>2. RunKnown /\ [Next]_vars => RunKnown' BY RunStep
<1>3. ASSUME RunKnown, [Next]_vars
      PROVE  [RunSucceeds
                => /\ Len(points) >= MinPairs
                   /\ ~troubled => \A i \in 1..Len(points) :
                        points[i].spot = [laser |-> TRUE, mirror |-> Volts(points[i].angles)]
             ]_<<calVars, cameraVars, mirrorVars>>
  <2> SUFFICES ASSUME Next, RunSucceeds
               PROVE  /\ Len(points) >= MinPairs
                      /\ ~troubled => \A i \in 1..Len(points) :
                           points[i].spot = [laser |-> TRUE, mirror |-> Volts(points[i].angles)]
    BY <1>3 DEF vars
  <2>1. task = "calibrate" /\ task' = "none" /\ calibrated' BY DEF RunSucceeds
  <2>2. Len(points) >= MinPairs BY <1>3, SuccessHasPairs
  <2>3. ~troubled => \A i \in 1..Len(points) :
          points[i].spot = [laser |-> TRUE, mirror |-> Volts(points[i].angles)]
    BY <1>3, <2>1 DEF RunKnown, Untroubled, LitAt
  <2> QED BY <2>2, <2>3
<1> QED BY <1>1, <1>2, <1>3, PTL DEF Spec, PairsSound

-------------------------------------------------------------------------------
(* Image. *)

\* A set of numbers has a least one: what Min stands for.
LEMMA LeastNumber ==
  ASSUME NEW S \in SUBSET Nat, S # {}
  PROVE  Min(S) \in S /\ \A n \in S : Min(S) <= n
<1> DEFINE R == OpToRel(<, Nat)
<1>1. IsWellFoundedOn(R, Nat) BY NatLessThanWellFounded
<1>2. \A x, y \in Nat : y < x => <<y, x>> \in R BY DEF OpToRel
<1> HIDE DEF R
<1>3. PICK m \in S : \A n \in S : <<n, m>> \notin R BY <1>1, WFMin
<1>4. \A n \in S : ~(n < m) BY <1>2, <1>3
<1>5. \A n \in S : m <= n
  <2> TAKE n \in S
  <2>1. n \in Nat /\ m \in Nat OBVIOUS
  <2> QED BY <1>4, <2>1
<1> QED BY <1>5 DEF Min

Calls == [pixel : Pixels, left : SUBSET Pixels]

\* A call on the stack is one more pixel in a group, and the call that reaches the limit
\* looks at no neighbours.
DepthKnown ==
  /\ stack \in Seq(Calls) /\ IsFiniteSet(groupedPixels)
  /\ Len(stack) <= Cardinality(groupedPixels)
  /\ Len(stack) <= MAX_ACTIVE_PIXELS + 1
  /\ Len(stack) = MAX_ACTIVE_PIXELS + 1 => Last(stack).left = {}

\* A pixel is a number, so the first of some pixels is defined.
LEMMA PixelsAreNumbers == Pixels \subseteq Nat
<1>1. Width * Height \in Int
  <2>1. Width \in Int /\ Height \in Int BY ImageAssumption
  <2> QED BY <2>1
<1> QED BY <1>1 DEF Pixels

\* A stack without its top.
LEMMA FrontShorter ==
  ASSUME NEW S, NEW s \in Seq(S), s # <<>>
  PROVE  Front(s) \in Seq(S) /\ Len(Front(s)) = Len(s) - 1
<1> DEFINE t == SubSeq(s, 1, Len(s) - 1)
<1>1. Len(s) \in Nat \ {0} /\ \A i \in 1..(Len(s) - 1) : s[i] \in S OBVIOUS
<1>2. t \in Seq(S) /\ Len(t) = IF 1 <= Len(s) - 1 THEN (Len(s) - 1) - 1 + 1 ELSE 0
  BY <1>1, SubSeqProperties
<1>3. Front(s) = t BY DEF Front
<1> HIDE DEF t
<1>4. Len(t) = Len(s) - 1
  <2>1. \A n \in Nat \ {0} : (IF 1 <= n - 1 THEN (n - 1) - 1 + 1 ELSE 0) = n - 1 OBVIOUS
  <2> QED BY <1>1, <1>2, <2>1, Zenon
<1> QED BY <1>2, <1>3, <1>4, Zenon

\* What a call of propagateGroup pushes.
LEMMA CallPushes ==
  ASSUME NEW below \in Seq(Calls), NEW p \in Pixels, NEW gs, Call(p, gs, below),
         IsFiniteSet(groupedPixels), p \notin groupedPixels \/ below = <<>>,
         Len(below) <= Cardinality(groupedPixels), Len(below) <= MAX_ACTIVE_PIXELS
  PROVE  DepthKnown'
<1> DEFINE limit == Cardinality(groupedPixels') > MAX_ACTIVE_PIXELS
           c == [pixel |-> p, left |-> IF limit THEN {} ELSE Neighbours(p)]
<1>1. /\ groupedPixels' = groupedPixels \cup {p} /\ stack' = Append(below, c)
  BY DEF Call
<1>2. /\ IsFiniteSet(groupedPixels') /\ Cardinality(groupedPixels) \in Nat
      /\ Cardinality(groupedPixels') \in Nat
      /\ p \notin groupedPixels => Cardinality(groupedPixels') = Cardinality(groupedPixels) + 1
  BY <1>1, FS_AddElement, FS_CardinalityType
<1>3. Cardinality(groupedPixels') >= 1
  <2>1. p \in groupedPixels' BY <1>1
  <2>2. Cardinality(groupedPixels') # 0 BY <1>2, <2>1, FS_EmptySet
  <2> QED BY <1>2, <2>2
<1>4. c \in Calls BY DEF Calls, Neighbours
<1>5. MAX_ACTIVE_PIXELS \in Nat BY ImageAssumption
<1> HIDE DEF limit
<1>6. /\ stack' \in Seq(Calls) /\ Len(stack') = Len(below) + 1 /\ Last(stack') = c
      /\ Len(below) \in Nat
  BY <1>1, <1>4 DEF Last
<1>7. Len(stack') <= Cardinality(groupedPixels')
  <2>1. CASE below = <<>>
    <3>1. Len(below) = 0 BY <2>1
    <3> QED BY <1>2, <1>3, <1>6, <3>1
  <2>2. CASE below # <<>> BY <1>2, <1>6, <2>2
  <2> QED BY <2>1, <2>2
<1>8. Len(stack') = MAX_ACTIVE_PIXELS + 1 => Last(stack').left = {}
  <2> SUFFICES ASSUME Len(stack') = MAX_ACTIVE_PIXELS + 1 PROVE limit BY <1>6
  <2> QED BY <1>2, <1>5, <1>7 DEF limit
<1> QED BY <1>2, <1>5, <1>6, <1>7, <1>8 DEF DepthKnown

\* A call, a return and the end of a group keep the depth known.
LEMMA DepthStep == DepthKnown /\ [ImageNext]_imageVars => DepthKnown'
<1> SUFFICES ASSUME DepthKnown, [ImageNext]_imageVars PROVE DepthKnown' OBVIOUS
<1>1. /\ stack \in Seq(Calls) /\ Len(stack) \in Nat /\ MAX_ACTIVE_PIXELS \in Nat
      /\ IsFiniteSet(groupedPixels) /\ Cardinality(groupedPixels) \in Nat
  BY ImageAssumption, FS_CardinalityType DEF DepthKnown
<1>2. CASE NewGroup
  <2>1. Unscanned \subseteq Pixels /\ Unscanned # {} /\ Unscanned \subseteq Nat
    BY <1>2, PixelsAreNumbers DEF NewGroup, Unscanned, Open
  <2>2. scan' = Min(Unscanned) /\ Call(scan', Append(groups, EmptyGroup), <<>>)
    BY <1>2 DEF NewGroup
  <2>3. scan' \in Pixels BY <2>1, <2>2, LeastNumber
  <2>4. PICK p \in Pixels, below \in Seq(Calls) : p = scan' /\ below = <<>>
    BY <2>3, EmptySeq, Zenon
  <2>5. Call(p, Append(groups, EmptyGroup), below) BY <2>2, <2>4
  <2>6. Len(below) = 0 BY <2>4
  <2>7. Len(below) <= Cardinality(groupedPixels) /\ Len(below) <= MAX_ACTIVE_PIXELS
    BY <1>1, <2>6
  <2> QED BY <1>1, <2>4, <2>5, <2>7, CallPushes
<1>3. CASE Visit
  <2> DEFINE top == Last(stack)
             q == Min(Open(top.left))
             lower == Append(Front(stack), [top EXCEPT !.left = {r \in @ : r > q}])
  <2>1. stack # <<>> /\ Open(top.left) # {} /\ Call(q, groups, lower) BY <1>3 DEF Visit
  <2>2. top \in Calls BY <1>1, <2>1 DEF Last
  <2>3. top.left \subseteq Pixels /\ Open(top.left) \subseteq top.left
        /\ Open(top.left) \cap groupedPixels = {}
    BY <2>2 DEF Calls, Open
  <2>4. q \in Open(top.left) BY <2>1, <2>3, PixelsAreNumbers, LeastNumber
  <2>5. q \in Pixels /\ q \notin groupedPixels BY <2>3, <2>4
  <2>6. [top EXCEPT !.left = {r \in @ : r > q}] \in Calls BY <2>2 DEF Calls
  <2>7. Len(stack) # MAX_ACTIVE_PIXELS + 1 BY <2>1, <2>3 DEF DepthKnown
  <2>8. Front(stack) \in Seq(Calls) /\ Len(Front(stack)) = Len(stack) - 1
    BY <1>1, <2>1, FrontShorter
  <2> HIDE DEF top, q
  <2>9. lower \in Seq(Calls) /\ Len(lower) = Len(stack) /\ lower # <<>>
    BY <1>1, <2>6, <2>8
  <2> HIDE DEF lower
  <2>10. Len(lower) <= MAX_ACTIVE_PIXELS /\ Len(lower) <= Cardinality(groupedPixels)
    BY <1>1, <2>7, <2>9 DEF DepthKnown
  <2> QED BY <1>1, <2>1, <2>5, <2>9, <2>10, CallPushes
<1>4. CASE EndCall
  <2>1. /\ stack' = Front(stack) /\ Len(stack) > 1 /\ groupedPixels' = groupedPixels
    BY <1>4 DEF EndCall
  <2>2. stack # <<>> BY <2>1
  <2>3. stack' \in Seq(Calls) /\ Len(stack') = Len(stack) - 1
    BY <1>1, <2>1, <2>2, FrontShorter
  <2> QED BY <1>1, <2>1, <2>3 DEF DepthKnown
<1>5. CASE GroupDone
  <2>1. Len(stack') = 0 /\ stack' \in Seq(Calls) /\ groupedPixels' = groupedPixels
    BY <1>5 DEF GroupDone
  <2> QED BY <1>1, <2>1 DEF DepthKnown
<1>6. CASE ScanEnds \/ UNCHANGED imageVars
  <2>1. stack' = stack /\ groupedPixels' = groupedPixels BY <1>6 DEF ScanEnds, imageVars
  <2> QED BY <2>1 DEF DepthKnown
<1> QED BY <1>2, <1>3, <1>4, <1>5, <1>6 DEF ImageNext

\* Before the scan no call is under way.
LEMMA InitKnown == ImageInit => DepthKnown
<1> SUFFICES ASSUME ImageInit PROVE DepthKnown OBVIOUS
<1>1. stack = <<>> /\ groupedPixels = {} BY DEF ImageInit
<1>2. IsFiniteSet({}) /\ Cardinality({}) = 0 BY FS_EmptySet
<1> QED BY <1>1, <1>2, ImageAssumption DEF DepthKnown

\* However large and bright the picture, propagateGroup calls itself no deeper than the
\* fail-safe allows (performPixelGrouping, propagateGroup).
THEOREM RecursionIsBounded == ImagingSpec => []DepthBounded
<1>1. ImagingInit => DepthKnown BY InitKnown DEF ImagingInit
<1>2. DepthKnown /\ [ImagingNext]_imagingVars => DepthKnown'
  BY DepthStep DEF ImagingNext, Group, Follow, imagingVars
<1>3. DepthKnown => DepthBounded BY DEF DepthKnown, DepthBounded
<1> QED BY <1>1, <1>2, <1>3, PTL DEF ImagingSpec

-------------------------------------------------------------------------------
(* Windows. *)

\* Division and remainder.
LEMMA Euclid ==
  ASSUME NEW q \in Nat \ {0}, NEW n \in Int
  PROVE  n = q * (n \div q) + (n % q) /\ n % q \in 0..(q - 1) /\ n \div q \in Int
BY SMT

\* A multiple smaller than the quantum is 0.
LEMMA SmallMultiple ==
  ASSUME NEW q \in Nat \ {0}, NEW k \in Int, q * k >= 0, q * k < q
  PROVE  q * k = 0
<1>1. CASE k >= 1
  <2>1. q * (k - 1) >= 0 BY <1>1, SMT
  <2>2. q * (k - 1) = q * k - q BY SMT
  <2> QED BY <2>1, <2>2, SMT
<1>2. CASE k <= -1
  <2>1. q * (-1 - k) >= 0 BY <1>2, SMT
  <2>2. q * (-1 - k) = -q - q * k BY SMT
  <2> QED BY <2>1, <2>2, SMT
<1>3. CASE k = 0 BY <1>3, SMT
<1> QED BY <1>1, <1>2, <1>3, SMT

\* A multiple leaves no remainder.
LEMMA MultipleDivides ==
  ASSUME NEW q \in Nat \ {0}, NEW k \in Int
  PROVE  (q * k) % q = 0
<1> DEFINE r == (q * k) % q
           d == (q * k) \div q
<1>1. q * k \in Int BY SMT
<1>2. q * k = q * d + r /\ r \in 0..(q - 1) /\ d \in Int BY <1>1, Euclid
<1> HIDE DEF r, d
<1>3. q * (k - d) = q * k - q * d BY <1>2, SMT
<1>4. q * (k - d) = r /\ k - d \in Int BY <1>1, <1>2, <1>3, SMT
<1>5. q * (k - d) = 0 BY <1>2, <1>4, SmallMultiple, SMT
<1> QED BY <1>4, <1>5 DEF r

\* A number less its remainder is a multiple.
LEMMA RoundedDown ==
  ASSUME NEW n \in Nat, NEW q \in Nat \ {0}
  PROVE  n % q \in 0..(q - 1) /\ n - (n % q) \in Nat /\ (n - (n % q)) % q = 0
<1> DEFINE r == n % q
           d == n \div q
<1>1. n = q * d + r /\ r \in 0..(q - 1) /\ d \in Int BY Euclid
<1>2. d >= 0 BY SMT
<1> HIDE DEF r, d
<1>3. q * d >= 0 /\ q * d \in Int BY <1>1, <1>2, SMT
<1>4. n - r = q * d BY <1>1, <1>3, SMT
<1>5. (n - r) % q = 0 BY <1>1, <1>4, MultipleDivides
<1> QED BY <1>1, <1>3, <1>4, <1>5 DEF r

\* RoundUp gives the next multiple of the quantum.
LEMMA RoundedUp ==
  ASSUME NEW n \in Nat, NEW quantum \in Nat \ {0}
  PROVE  /\ RoundUp(n, quantum) \in Nat
         /\ n <= RoundUp(n, quantum) /\ RoundUp(n, quantum) < n + quantum
         /\ RoundUp(n, quantum) % quantum = 0
<1> DEFINE r == n % quantum
           d == n \div quantum
<1>1. n = quantum * d + r /\ r \in 0..(quantum - 1) /\ d \in Int BY Euclid
<1>2. RoundUp(n, quantum) = IF r # 0 THEN n + (quantum - r) ELSE n BY DEF RoundUp
<1>3. r = 0 => n % quantum = 0 OBVIOUS
<1> HIDE DEF r, d
<1>4. n + (quantum - r) = quantum * (d + 1)
  <2>1. quantum * (d + 1) = quantum * d + quantum BY <1>1, SMT
  <2> QED BY <1>1, <2>1, SMT
<1>5. (n + (quantum - r)) % quantum = 0 BY <1>1, <1>4, MultipleDivides
<1> QED BY <1>1, <1>2, <1>3, <1>5, SMT

\* updateTrackingWindow: an axis of the window starts on the sensor, starts and ends at
\* multiples of the quantum, holds the spot, and keeps half of the size on either side of
\* it but for what the sensor's edge takes at its start.
THEOREM TrackingAxisHoldsSpot ==
  ASSUME NEW spot \in Nat, NEW size \in Nat \ {0}, NEW quantum \in Nat \ {0}
  PROVE  LET axis == TrackingAxis(spot, size, quantum)
         IN /\ axis.start \in Nat /\ axis.start % quantum = 0 /\ axis.length % quantum = 0
            /\ Covers(axis, spot)
            /\ axis.start = 0 \/ axis.start <= spot - size \div 2
            /\ axis.start + axis.length >= spot + (size - size \div 2)
<1> DEFINE from == spot - size \div 2
           gap == from % quantum
<1>1. from \in Int /\ size \div 2 \in Nat /\ size - size \div 2 \in Nat \ {0}
  BY SMT
<1>2. CASE from >= 0
  <2>1. /\ gap \in 0..(quantum - 1) /\ from - gap \in Nat
        /\ (from - gap) % quantum = 0
    <3>1. from \in Nat BY <1>1, <1>2, SMT
    <3> HIDE DEF from
    <3> QED BY <3>1, RoundedDown
  <2>2. size + gap \in Nat BY <2>1, SMT
  <2>3. /\ RoundUp(size + gap, quantum) \in Nat
        /\ size + gap <= RoundUp(size + gap, quantum)
        /\ RoundUp(size + gap, quantum) % quantum = 0
    BY <2>2, RoundedUp
  <2>4. TrackingAxis(spot, size, quantum)
          = [start |-> from - gap, length |-> RoundUp(size + gap, quantum)]
    BY <1>2 DEF TrackingAxis
  <2> HIDE DEF from, gap
  <2>5. from <= spot /\ spot + (size - size \div 2) = from + size
    BY <1>1, SMT DEF from
  <2> QED BY <1>1, <2>1, <2>3, <2>4, <2>5, SMT DEF Covers, from
<1>3. CASE from < 0
  <2>1. size + from \in Nat /\ size + from = spot + (size - size \div 2)
    BY <1>1, <1>3, SMT
  <2>2. /\ RoundUp(size + from, quantum) \in Nat
        /\ size + from <= RoundUp(size + from, quantum)
        /\ RoundUp(size + from, quantum) % quantum = 0
    BY <2>1, RoundedUp
  <2>3. TrackingAxis(spot, size, quantum)
          = [start |-> 0, length |-> RoundUp(size + from, quantum)]
    BY <1>1, <1>3, SMT DEF TrackingAxis
  <2>4. 0 % quantum = 0 BY SMT
  <2> HIDE DEF from
  <2> QED BY <1>1, <2>1, <2>2, <2>3, <2>4, SMT DEF Covers
<1> QED BY <1>1, <1>2, <1>3, SMT

\* updateTrackingWindow: wherever the window was, the next one holds the spot, and when it
\* is changed it starts and ends at multiples of the quanta.  The spot is at x, y in the
\* picture of the area.
THEOREM TrackingWindowHoldsSpot ==
  ASSUME NEW xStart \in Nat, NEW yStart \in Nat, NEW xLength \in Nat, NEW yLength \in Nat,
         NEW x \in Nat, NEW y \in Nat, NEW width \in Nat \ {0}
  PROVE  LET picture == [x |-> [start |-> xStart, length |-> xLength],
                         y |-> [start |-> yStart, length |-> yLength]]
             next == TrackingWindow(picture, x, y, width, picture)
         IN /\ Covers(next.x, xStart + x) /\ Covers(next.y, yStart + y)
            /\ next # picture =>
                 /\ next.x.start % QuantumX = 0 /\ next.x.length % QuantumX = 0
                 /\ next.y.start % QuantumY = 0 /\ next.y.length % QuantumY = 0
<1> DEFINE picture == [x |-> [start |-> xStart, length |-> xLength],
                       y |-> [start |-> yStart, length |-> yLength]]
           size == width + 2 * MIN_SPOT_LIMIT
           xAxis == TrackingAxis(xStart + x, size, QuantumX)
           yAxis == TrackingAxis(yStart + y, size, QuantumY)
<1>1. CASE Settled(x, y, width, picture)
  <2>1. AtLeast(width, MIN_SPOT_LIMIT) \in Nat \ {0} BY WindowAssumption DEF AtLeast
  <2>2. x < xLength /\ y < yLength BY <1>1, <2>1 DEF Settled
  <2>3. Covers(picture.x, xStart + x) /\ Covers(picture.y, yStart + y)
    BY <2>2 DEF Covers
  <2>4. TrackingWindow(picture, x, y, width, picture) = picture BY <1>1 DEF TrackingWindow
  <2> QED BY <2>3, <2>4
<1>2. CASE ~Settled(x, y, width, picture)
  <2>1. size \in Nat \ {0} /\ xStart + x \in Nat /\ yStart + y \in Nat
        /\ QuantumX \in Nat \ {0} /\ QuantumY \in Nat \ {0}
    BY WindowAssumption
  <2> HIDE DEF size
  <2>2. Covers(xAxis, xStart + x) /\ xAxis.start % QuantumX = 0 /\ xAxis.length % QuantumX = 0
    BY <2>1, TrackingAxisHoldsSpot
  <2>3. Covers(yAxis, yStart + y) /\ yAxis.start % QuantumY = 0 /\ yAxis.length % QuantumY = 0
    BY <2>1, TrackingAxisHoldsSpot
  <2>4. TrackingWindow(picture, x, y, width, picture) = [x |-> xAxis, y |-> yAxis]
    BY <1>2 DEF TrackingWindow, size
  <2> HIDE DEF xAxis, yAxis, picture
  <2> QED BY <2>2, <2>3, <2>4 DEF picture
<1> QED BY <1>1, <1>2

\* setCenteredWindow, for a window of any length with its centre on the sensor: it starts
\* on the sensor.  It goes past the far edge exactly when it is cut at the near one and its
\* other half does not fit, which a window no longer than the sensor never does; one as high
\* as runAcquisition's beaconWindow may become (main.cpp, += 100 below CAMERA_HEIGHT) can.
THEOREM CenteredWindowOnSensor ==
  ASSUME NEW x \in Nat, NEW y \in Nat, NEW w \in Nat \ {0},
         x < CAMERA_WIDTH, y < CAMERA_HEIGHT
  PROVE  LET win == CenteredWindow(x, y, w)
             half == w \div 2
             Fits(c, canvas) == c > half \/ c + half <= canvas
         IN /\ win.x.start \in 0..(CAMERA_WIDTH - 1) /\ win.y.start \in 0..(CAMERA_HEIGHT - 1)
            /\ win.x.start + win.x.length <= CAMERA_WIDTH <=> Fits(x, CAMERA_WIDTH)
            /\ win.y.start + win.y.length <= CAMERA_HEIGHT <=> Fits(y, CAMERA_HEIGHT)
            /\ w <= CAMERA_WIDTH => Fits(x, CAMERA_WIDTH)
            /\ w <= CAMERA_HEIGHT => Fits(y, CAMERA_HEIGHT)
<1> SUFFICES ASSUME NEW canvas \in Nat \ {0}, NEW c \in Nat, c < canvas
             PROVE  LET axis == CenteredAxis(c, w, canvas)
                        fits == c > w \div 2 \/ c + w \div 2 <= canvas
                    IN /\ axis.start \in 0..(canvas - 1)
                       /\ axis.start + axis.length <= canvas <=> fits
                       /\ w <= canvas => fits
  BY WindowAssumption DEF CenteredWindow
<1>1. CASE c > w \div 2 BY <1>1, SMT DEF CenteredAxis
<1>2. CASE ~(c > w \div 2) BY <1>2, SMT DEF CenteredAxis
<1> QED BY <1>1, <1>2

-------------------------------------------------------------------------------
(* Imaging: the threshold. *)

\* g holds the sums of the pixels of f up to m.
Sums(f, g, m) ==
  g \in [0..m -> Int] /\ g[0] = 0 /\ \A n \in 1..m : g[n] = g[n - 1] + f[n - 1]

\* There are pixels.
LEMMA PixelCount == Width * Height \in Nat \ {0}
<1>1. Width \in Nat \ {0} /\ Height \in Nat \ {0} BY ImageAssumption
<1> QED BY <1>1, SMT

\* The sums exist.
LEMMA SumsExist ==
  ASSUME NEW f, NEW N \in Nat, \A n \in 0..(N - 1) : f[n] \in Int
  PROVE  \E g : Sums(f, g, N)
<1> DEFINE Bad == {m \in 0..N : ~\E g : Sums(f, g, m)}
<1> SUFFICES ASSUME Bad # {} PROVE FALSE OBVIOUS
<1>1. Bad \in SUBSET Nat OBVIOUS
<1>2. PICK m \in Bad : \A k \in Bad : m <= k BY <1>1, LeastNumber
<1>3. m \in 0..N OBVIOUS
<1>4. CASE m = 0
  <2>1. Sums(f, [n \in 0..0 |-> 0], 0) BY DEF Sums
  <2> QED BY <1>4, <2>1
<1>5. CASE m # 0
  <2>1. m - 1 \in 0..(N - 1) /\ m \in Nat \ {0} /\ m - 1 \in 0..N BY <1>3, <1>5
  <2>2. m - 1 \notin Bad BY <1>2, <2>1
  <2>3. PICK g : Sums(f, g, m - 1) BY <2>1, <2>2
  <2> DEFINE h == [n \in 0..m |-> IF n = m THEN g[m - 1] + f[m - 1] ELSE g[n]]
  <2>4. \A n \in 0..m : h[n] \in Int BY <2>1, <2>3 DEF Sums
  <2>5. h[0] = 0 BY <2>1, <2>3 DEF Sums
  <2>6. \A n \in 1..m : h[n] = h[n - 1] + f[n - 1] BY <2>1, <2>3 DEF Sums
  <2>7. Sums(f, h, m) BY <2>4, <2>5, <2>6 DEF Sums
  <2> QED BY <2>7
<1> QED BY <1>4, <1>5

\* The sum of the pixels is the last of their sums.
LEMMA PixelSumOf ==
  ASSUME NEW f, \A n \in Pixels : f[n] \in Int
  PROVE  \E g : Sums(f, g, Width * Height) /\ PixelSum(f) = g[Width * Height]
<1> DEFINE N == Width * Height
<1>1. N \in Nat BY PixelCount
<1>2. \A n \in 0..(N - 1) : f[n] \in Int BY DEF Pixels
<1> HIDE DEF N
<1>3. PICK g : Sums(f, g, N) BY <1>1, <1>2, SumsExist
<1> DEFINE F(x) == [n \in 0..N |-> IF n = 0 THEN 0 ELSE x[n - 1] + f[n - 1]]
           s == CHOOSE x : x = F(x)
<1>4. g = F(g) BY <1>1, <1>3 DEF Sums
<1>5. s = F(s) BY <1>4
<1>6. PixelSum(f) = s[N] BY DEF PixelSum, N
<1> HIDE DEF s
<1>7. \A n \in 0..N : s[n] = IF n = 0 THEN 0 ELSE s[n - 1] + f[n - 1] BY <1>5
<1> DEFINE Bad == {n \in 0..N : s[n] \notin Int}
<1>8. Bad = {}
  <2> SUFFICES ASSUME Bad # {} PROVE FALSE OBVIOUS
  <2>1. Bad \in SUBSET Nat OBVIOUS
  <2>2. PICK m \in Bad : \A k \in Bad : m <= k BY <2>1, LeastNumber
  <2>3. m # 0 BY <1>7, <2>2, <1>1
  <2>4. m - 1 \in 0..N /\ m - 1 \in 0..(N - 1) BY <2>2, <2>3, <1>1
  <2>5. m - 1 \notin Bad BY <2>2, <2>4
  <2> QED BY <1>2, <1>7, <2>2, <2>3, <2>4, <2>5
<1>9. Sums(f, s, N)
  <2>1. s \in [0..N -> Int] BY <1>5, <1>8
  <2>2. s[0] = 0 /\ \A n \in 1..N : s[n] = s[n - 1] + f[n - 1] BY <1>1, <1>7
  <2> QED BY <2>1, <2>2 DEF Sums
<1> QED BY <1>6, <1>9 DEF N

\* So it is a number.
LEMMA PixelSumIsNumber ==
  ASSUME NEW f, \A n \in Pixels : f[n] \in Int
  PROVE  PixelSum(f) \in Int
<1>1. PICK g : Sums(f, g, Width * Height) /\ PixelSum(f) = g[Width * Height] BY PixelSumOf
<1>2. Width * Height \in Nat BY PixelCount
<1> QED BY <1>1, <1>2 DEF Sums

\* And of a picture in which the pixels that are too bright count nothing.
LEMMA HistSumIsNumber ==
  ASSUME NEW f \in Frames
  PROVE  /\ \A p \in Pixels : Counted(f)[p] \in 0..TopValue
         /\ HistSum(f) \in Int
<1>1. TopValue \in Nat /\ \A p \in Pixels : f[p] \in Nat BY ImageAssumption
<1>2. \A p \in Pixels : Counted(f)[p] \in 0..TopValue BY <1>1 DEF Counted
<1> DEFINE h == Counted(f)
<1>3. \A p \in Pixels : h[p] \in Int BY <1>1, <1>2
<1> HIDE DEF h
<1>4. PixelSum(h) \in Int BY <1>3, PixelSumIsNumber
<1> QED BY <1>2, <1>4 DEF HistSum, h

\* So is the threshold, however large the sum and whatever becomes of it in an int.
LEMMA ThresholdIsNumber ==
  ASSUME NEW f \in Frames
  PROVE  Threshold(f) \in Nat
<1>1. HistSum(f) \in Int BY HistSumIsNumber
<1>2. IntMod \in Nat \ {0} /\ ShortMod \in Nat \ {0} /\ OFFSET \in Nat BY ImageAssumption
<1>3. Signed(HistSum(f)) \in Int BY <1>1, <1>2, SMT DEF Signed
<1>4. ASSUME NEW a \in Int, NEW b \in Nat \ {0} PROVE Quotient(a, b) \in Int
  BY SMT DEF Quotient
<1>5. ASSUME NEW n \in Int PROVE Unsigned(n) \in Nat BY <1>2, SMT DEF Unsigned
<1>6. histMean(f) \in Nat BY <1>3, <1>4, <1>5, PixelCount DEF histMean
<1>7. histMean(f) + OFFSET \in Int BY <1>2, <1>6
<1> QED BY <1>5, <1>7 DEF Threshold

-------------------------------------------------------------------------------
(* Imaging: the groups. *)

\* A group under way, and one with a pixel in it: its centroid is a quotient.
Measures == [x : Nat, y : Nat, valueMax : Nat, valueSum : Nat, pixelCount : Nat]
Filled == {g \in Measures : g.valueSum > 0 /\ g.pixelCount > 0}

\* Every group has a pixel brighter than the threshold, there is one while a call is under
\* way, and the scan returns how many there are.
GroupsKnown ==
  /\ data \in Frames /\ threshold \in Nat
  /\ groups \in Seq(Filled)
  /\ stack # <<>> => groups # <<>>
  /\ result # <<>> => stack = <<>>
  /\ result \in {<<>>, <<-1>>} \/ result = <<Len(groups)>>

\* A bright pixel fills the group it is added to.
LEMMA AcknowledgeFills ==
  ASSUME NEW g \in Measures, NEW p \in Pixels, Bright(p), data \in Frames, threshold \in Nat
  PROVE  Acknowledge(g, p) \in Filled
<1>1. p \in Nat /\ Width \in Nat \ {0} BY PixelsAreNumbers, ImageAssumption
<1>2. Column(p) \in Nat /\ Row(p) \in Nat BY <1>1, SMT DEF Column, Row
<1>3. data[p] \in Nat /\ data[p] > 0
  <2>1. data[p] \in Nat BY ImageAssumption
  <2> QED BY <2>1 DEF Bright
<1>4. Column(p) * data[p] \in Nat /\ Row(p) * data[p] \in Nat BY <1>2, <1>3, SMT
<1>5. /\ g.x \in Nat /\ g.y \in Nat /\ g.valueMax \in Nat /\ g.valueSum \in Nat
      /\ g.pixelCount \in Nat
  BY DEF Measures
<1> DEFINE cx == Column(p) * data[p]
           cy == Row(p) * data[p]
<1>6. cx \in Nat /\ cy \in Nat BY <1>4
<1>7. Acknowledge(g, p) =
        [ x |-> g.x + cx, y |-> g.y + cy,
          valueMax |-> IF data[p] > g.valueMax THEN data[p] ELSE g.valueMax,
          valueSum |-> g.valueSum + data[p], pixelCount |-> g.pixelCount + 1 ]
  BY DEF Acknowledge
<1> HIDE DEF cx, cy
<1> QED BY <1>3, <1>5, <1>6, <1>7 DEF Filled, Measures

\* A call of propagateGroup for a bright pixel leaves groups with pixels only.
LEMMA CallFills ==
  ASSUME NEW gs \in Seq(Measures), gs # <<>>, \A i \in 1..(Len(gs) - 1) : gs[i] \in Filled,
         NEW p \in Pixels, NEW below, Bright(p), data \in Frames, threshold \in Nat,
         Call(p, gs, below)
  PROVE  groups' \in Seq(Filled) /\ groups' # <<>>
<1>1. groups' = [gs EXCEPT ![Len(gs)] = Acknowledge(@, p)] BY DEF Call
<1>2. Len(gs) \in Nat \ {0} /\ gs[Len(gs)] \in Measures OBVIOUS
<1>3. Acknowledge(gs[Len(gs)], p) \in Filled BY <1>2, AcknowledgeFills
<1> DEFINE n == Len(gs)
           a == Acknowledge(gs[n], p)
<1>4. groups' = [i \in 1..n |-> IF i = n THEN a ELSE gs[i]]
  <2>1. DOMAIN gs = 1..n OBVIOUS
  <2>2. groups' = [i \in 1..n |-> IF i = n THEN Acknowledge(gs[i], p) ELSE gs[i]]
    BY <1>1, <2>1, Zenon
  <2> QED BY <2>2
<1>5. n \in Nat \ {0} /\ a \in Filled /\ \A i \in 1..(n - 1) : gs[i] \in Filled BY <1>2, <1>3
<1> HIDE DEF n, a
<1>6. \A i \in 1..n : groups'[i] \in Filled BY <1>4, <1>5
<1>7. groups' \in [1..n -> Filled] BY <1>4, <1>6
<1>8. groups' \in Seq(Filled) /\ Len(groups') = n BY <1>5, <1>7
<1> QED BY <1>5, <1>8

\* Sorting only moves the groups.
LEMMA SortingKeeps ==
  ASSUME NEW gs \in Seq(Filled), NEW s \in Sortings(gs)
  PROVE  s \in Seq(Filled) /\ Len(s) = Len(gs)
<1>1. PICK p \in Bijection(DOMAIN gs, DOMAIN gs) : s = [i \in DOMAIN gs |-> gs[p[i]]] BY DEF Sortings
<1>2. p \in [DOMAIN gs -> DOMAIN gs] BY DEF Bijection, Injection
<1>3. DOMAIN gs = 1..Len(gs) /\ Len(gs) \in Nat /\ \A i \in DOMAIN gs : gs[i] \in Filled
  OBVIOUS
<1>4. s \in [1..Len(gs) -> Filled] BY <1>1, <1>2, <1>3
<1> QED BY <1>3, <1>4

\* Every step of the grouping keeps the groups filled.
LEMMA GroupsStep ==
  ASSUME DepthKnown, GroupsKnown, [ImageNext]_imageVars
  PROVE  GroupsKnown'
<1>1. /\ data \in Frames /\ threshold \in Nat /\ groups \in Seq(Filled)
      /\ stack \in Seq(Calls) /\ groups \in Seq(Measures) /\ Len(groups) \in Nat
  <2>1. Filled \subseteq Measures BY DEF Filled
  <2>2. groups \in Seq(Filled) BY DEF GroupsKnown
  <2>3. groups \in Seq(Measures) BY <2>1, <2>2
  <2> QED BY <2>2, <2>3 DEF GroupsKnown, DepthKnown
<1>2. CASE NewGroup
  <2>1. Unscanned \subseteq Pixels /\ Unscanned # {} /\ Unscanned \subseteq Nat
    BY <1>2, PixelsAreNumbers DEF NewGroup, Unscanned, Open
  <2>2. scan' = Min(Unscanned) /\ Call(scan', Append(groups, EmptyGroup), <<>>)
    BY <1>2 DEF NewGroup
  <2>3. PICK p \in Pixels : p = scan' /\ p \in Unscanned BY <2>1, <2>2, LeastNumber
  <2>4. Bright(p) BY <2>3 DEF Unscanned, Open
  <2> DEFINE gs == Append(groups, EmptyGroup)
  <2>5. EmptyGroup \in Measures BY DEF EmptyGroup, Measures
  <2>6. gs \in Seq(Measures) /\ gs # <<>> /\ Len(gs) = Len(groups) + 1 BY <1>1, <2>5
  <2>7. \A i \in 1..(Len(gs) - 1) : gs[i] \in Filled BY <1>1, <2>6
  <2>8. PICK below : below = <<>> OBVIOUS
  <2>9. Call(p, gs, below) BY <2>2, <2>3, <2>8
  <2> HIDE DEF gs
  <2>10. groups' \in Seq(Filled) /\ groups' # <<>> BY <1>1, <2>4, <2>6, <2>7, <2>9, CallFills
  <2>11. data' = data /\ threshold' = threshold /\ result' = <<>> BY <1>2 DEF NewGroup
  <2> QED BY <1>1, <2>10, <2>11 DEF GroupsKnown
<1>3. CASE Visit
  <2> DEFINE top == Last(stack)
             q == Min(Open(top.left))
             lower == Append(Front(stack), [top EXCEPT !.left = {r \in @ : r > q}])
  <2>1. stack # <<>> /\ Open(top.left) # {} /\ Call(q, groups, lower) BY <1>3 DEF Visit
  <2>2. top \in Calls BY <1>1, <2>1 DEF Last
  <2>3. Open(top.left) \subseteq Pixels BY <2>2 DEF Calls, Open
  <2>4. q \in Open(top.left) BY <2>1, <2>3, PixelsAreNumbers, LeastNumber
  <2>5. q \in Pixels /\ Bright(q) BY <2>3, <2>4 DEF Open
  <2> HIDE DEF top, q, lower
  <2>6. groups # <<>> /\ result = <<>> BY <2>1 DEF GroupsKnown
  <2>7. \A i \in 1..(Len(groups) - 1) : groups[i] \in Filled BY <1>1
  <2>8. groups' \in Seq(Filled) /\ groups' # <<>> BY <1>1, <2>1, <2>5, <2>6, <2>7, CallFills
  <2>9. data' = data /\ threshold' = threshold /\ result' = result BY <1>3 DEF Visit
  <2> QED BY <1>1, <2>6, <2>8, <2>9 DEF GroupsKnown
<1>4. CASE EndCall
  <2>1. stack # <<>> BY <1>1, <1>4 DEF EndCall
  <2>2. UNCHANGED <<data, threshold, groups, result>> BY <1>4 DEF EndCall
  <2> QED BY <1>1, <2>1, <2>2 DEF GroupsKnown
<1>5. CASE GroupDone
  <2>1. stack # <<>> /\ groups # <<>> /\ result = <<>>
    BY <1>1, <1>5 DEF GroupDone, GroupsKnown
  <2>2. stack' = <<>> /\ data' = data /\ threshold' = threshold BY <1>5 DEF GroupDone
  <2>3. result' \in {<<>>, <<-1>>} BY <1>5, <2>1 DEF GroupDone
  <2>4. groups' \in {Front(groups), <<>>, groups} \cup Sortings(groups)
    BY <1>5, Zenon DEF GroupDone
  <2>5. Front(groups) \in Seq(Filled) BY <1>1, <2>1, FrontShorter
  <2>6. <<>> \in Seq(Filled) OBVIOUS
  <2>7. groups' \in Seq(Filled) BY <1>1, <2>4, <2>5, <2>6, SortingKeeps
  <2> QED BY <1>1, <2>2, <2>3, <2>7 DEF GroupsKnown
<1>6. CASE ScanEnds
  <2>1. /\ groups' \in Sortings(groups) /\ result' = <<Len(groups)>> /\ stack' = <<>>
        /\ data' = data /\ threshold' = threshold
    BY <1>6 DEF ScanEnds
  <2>2. groups' \in Seq(Filled) /\ Len(groups') = Len(groups) BY <1>1, <2>1, SortingKeeps
  <2> QED BY <1>1, <2>1, <2>2 DEF GroupsKnown
<1>7. CASE UNCHANGED imageVars BY <1>7 DEF imageVars, GroupsKnown
<1> QED BY <1>2, <1>3, <1>4, <1>5, <1>6, <1>7 DEF ImageNext

-------------------------------------------------------------------------------
(* Imaging: the window follows the spot. *)

\* A bounded set of numbers has a greatest one: what Max stands for.
LEMMA GreatestNumber ==
  ASSUME NEW c \in Nat, NEW S \in SUBSET (0..c), S # {}
  PROVE  Max(S) \in S /\ \A n \in S : n <= Max(S)
<1> DEFINE R == {c - n : n \in S}
<1>1. R \in SUBSET Nat /\ R # {}
  <2>1. \A n \in S : c - n \in Nat OBVIOUS
  <2> QED BY <2>1
<1>2. PICK d \in R : \A r \in R : d <= r BY <1>1, LeastNumber
<1>3. PICK m \in S : d = c - m OBVIOUS
<1>4. \A n \in S : n <= m
  <2> TAKE n \in S
  <2>1. c - m <= c - n BY <1>2, <1>3
  <2>2. n \in Nat /\ m \in Nat OBVIOUS
  <2> QED BY <2>1, <2>2
<1>5. \E x \in S : \A y \in S : x >= y BY <1>4
<1>6. Max(S) \in S /\ \A y \in S : Max(S) >= y BY <1>5, Zenon DEF Max
<1> QED BY <1>6

\* A spot with a pixel is at least one pixel wide.
LEMMA SpotHasWidth ==
  ASSUME NEW count \in Nat \ {0}
  PROVE  SpotWidth(count) \in Nat \ {0}
<1> DEFINE S == {n \in 0..count : 2 * n * n <= 3 * count}
<1>1. 1 \in S BY SMT
<1>2. S \in SUBSET (0..count) OBVIOUS
<1>3. Max(S) \in S /\ 1 <= Max(S) BY <1>1, <1>2, GreatestNumber
<1>4. SpotWidth(count) = Max(S) BY DEF SpotWidth
<1> HIDE DEF S
<1>5. Max(S) \in 0..count BY <1>2, <1>3
<1> QED BY <1>3, <1>4, <1>5

\* How much two spots differ is a number.
LEMMA DifferenceIsNumber ==
  ASSUME NEW g \in Measures, NEW old \in Measures
  PROVE  Difference(g, old) \in Nat
<1>1. \A n \in Int : Abs(n) \in Nat BY SMT DEF Abs
<1>2. /\ g.x - old.x \in Int /\ g.y - old.y \in Int /\ g.pixelCount - old.pixelCount \in Int
      /\ (g.valueMax \div 2) - (old.valueMax \div 2) \in Int
  BY SMT DEF Measures
<1>3. /\ Abs(g.x - old.x) \in Nat /\ Abs(g.y - old.y) \in Nat
      /\ Abs(g.pixelCount - old.pixelCount) \in Nat
      /\ Abs((g.valueMax \div 2) - (old.valueMax \div 2)) \in Nat
  BY <1>1, <1>2
<1> QED BY <1>3 DEF Difference

\* Among some spots there is one most like the last one.
LEMMA CandidateIsSpot ==
  ASSUME NEW found \in Seq(Measures), found # <<>>, NEW old \in Measures
  PROVE  SpotCandidate(found, old) \in 1..Len(found)
<1> DEFINE n == Len(found)
           d == [i \in 1..n |-> Difference(found[i], old)]
           D == {d[i] : i \in 1..n}
           I == {i \in 1..n : d[i] = Min(D)}
<1>1. n \in Nat \ {0} /\ \A i \in 1..n : found[i] \in Measures OBVIOUS
<1> HIDE DEF n
<1>2. \A i \in 1..n : d[i] \in Nat BY <1>1, DifferenceIsNumber
<1>3. \A i \in 1..n : d[i] = Difference(found[i], old) OBVIOUS
<1> HIDE DEF d
<1>4. D \in SUBSET Nat /\ D # {} BY <1>1, <1>2
<1>5. Min(D) \in D /\ \A e \in D : Min(D) <= e BY <1>4, LeastNumber
<1>6. I \in SUBSET Nat /\ I # {}
  <2>1. PICK i \in 1..n : d[i] = Min(D) BY <1>5
  <2>2. i \in I BY <2>1
  <2>3. I \subseteq 1..n /\ 1..n \subseteq Nat BY <1>1
  <2> HIDE DEF I
  <2> QED BY <2>2, <2>3
<1>7. Min(I) \in I /\ \A i \in I : Min(I) <= i BY <1>6, LeastNumber
<1>8. PICK i \in 1..n : d[i] = Min(D) /\ \A j \in I : i <= j BY <1>7
<1>9. \A j \in 1..n : d[i] <= d[j] BY <1>5, <1>8
<1>10. \A j \in 1..(i - 1) : j \in 1..n /\ d[j] # d[i]
  <2> TAKE j \in 1..(i - 1)
  <2>1. j \in 1..n /\ j < i BY <1>1
  <2>2. j \notin I BY <1>8, <2>1
  <2> QED BY <1>8, <2>1, <2>2
<1>11. /\ \A j \in 1..n : Difference(found[i], old) <= Difference(found[j], old)
       /\ \A j \in 1..(i - 1) : Difference(found[j], old) # Difference(found[i], old)
  BY <1>3, <1>9, <1>10
<1>12. \E k \in 1..Len(found) :
         /\ \A j \in 1..Len(found) : Difference(found[k], old) <= Difference(found[j], old)
         /\ \A j \in 1..(k - 1) : Difference(found[j], old) # Difference(found[k], old)
  BY <1>11 DEF n
<1> QED BY <1>12, Zenon DEF SpotCandidate

\* Every step keeps a window that holds the trusted spot.
LEMMA WindowStep ==
  ASSUME GroupsKnown, WindowFollows, [ImagingNext]_imagingVars
  PROVE  WindowFollows'
<1>1. CASE UNCHANGED <<area, window, beacon>> BY <1>1 DEF WindowFollows
<1>2. CASE Follow
  <2> DEFINE n == Len(groups)
             areaAt(c) == [x |-> [start |-> c[1], length |-> Width],
                           y |-> [start |-> c[2], length |-> Height]]
             spots(c) == [i \in 1..n |-> Centroid(groups[i], areaAt(c))]
             chosen(c, o) == spots(c)[SpotCandidate(spots(c), o)]
             nextOf(c, o) == TrackingWindow(areaAt(c), chosen(c, o).x - c[1],
                             chosen(c, o).y - c[2], SpotWidth(chosen(c, o).pixelCount),
                             areaAt(c))
  <2>1. PICK c \in AreaCorners, old \in LastSpots :
          /\ area' = areaAt(c)
          /\ \/ beacon' = <<chosen(c, old)>> /\ window' = nextOf(c, old)
             \/ beacon' = <<>>
    BY <1>2, Zenon DEF Follow
  <2> DEFINE a == areaAt(c)
             found == spots(c)
             spot == chosen(c, old)
  <2>2. c[1] \in Nat /\ c[2] \in Nat /\ old \in Measures /\ Width \in Nat /\ Height \in Nat
    BY ImagingAssumption, ImageAssumption DEF Measures
  <2>3. groups \in Seq(Filled) /\ n \in Nat \ {0}
    <3>1. result # <<>> /\ result[1] > 0 BY <1>2 DEF Follow
    <3>2. result = <<Len(groups)>> BY <3>1 DEF GroupsKnown
    <3> QED BY <3>1, <3>2 DEF GroupsKnown
  <2>4. ASSUME NEW i \in 1..n
        PROVE  /\ found[i] \in Measures /\ found[i].pixelCount \in Nat \ {0}
               /\ found[i].x - c[1] \in Nat /\ found[i].y - c[2] \in Nat
    <3> DEFINE g == groups[i]
               dx == g.x \div g.valueSum
               dy == g.y \div g.valueSum
    <3>1. g \in Filled BY <2>3
    <3> HIDE DEF g
    <3>2. g \in Measures /\ g.x \in Nat /\ g.y \in Nat /\ g.valueSum \in Nat \ {0}
          /\ g.pixelCount \in Nat \ {0}
      BY <3>1 DEF Filled, Measures
    <3>3. dx \in Nat /\ dy \in Nat
      <4>1. ASSUME NEW p \in Nat, NEW q \in Nat \ {0} PROVE p \div q \in Nat BY SMT
      <4> QED BY <3>2, <4>1
    <3>4. found[i] = [g EXCEPT !.x = c[1] + dx, !.y = c[2] + dy] BY Zenon DEF Centroid, g
    <3> DEFINE sx == c[1] + dx
               sy == c[2] + dy
    <3>5. sx \in Nat /\ sy \in Nat BY <2>2, <3>3
    <3>6. found[i] = [g EXCEPT !.x = sx, !.y = sy] BY <3>4
    <3> HIDE DEF sx, sy, found
    <3>7. /\ found[i].x = sx /\ found[i].y = sy
          /\ found[i].pixelCount = g.pixelCount /\ found[i] \in Measures
      BY <3>2, <3>5, <3>6 DEF Measures
    <3>8. sx - c[1] \in Nat /\ sy - c[2] \in Nat
      <4> HIDE DEF dx, dy
      <4> QED BY <2>2, <3>3 DEF sx, sy
    <3> QED BY <3>2, <3>7, <3>8
  <2>5. found \in Seq(Measures) /\ found # <<>> /\ Len(found) = n
    <3>1. found \in [1..n -> Measures] BY <2>4, Zenon
    <3> HIDE DEF found
    <3> QED BY <2>3, <3>1
  <2>6. SpotCandidate(found, old) \in 1..n BY <2>2, <2>5, CandidateIsSpot
  <2>7. /\ spot.pixelCount \in Nat \ {0} /\ spot.x \in Nat /\ spot.y \in Nat
        /\ spot.x - c[1] \in Nat /\ spot.y - c[2] \in Nat
    <3>1. spot = found[SpotCandidate(found, old)] OBVIOUS
    <3> HIDE DEF found, spot
    <3>2. spot \in Measures BY <2>4, <2>6, <3>1
    <3> QED BY <2>4, <2>6, <3>1, <3>2 DEF Measures
  <2> DEFINE x == spot.x - c[1]
             y == spot.y - c[2]
             w == SpotWidth(spot.pixelCount)
  <2>8. w \in Nat \ {0} BY <2>7, SpotHasWidth
  <2>9. x \in Nat /\ y \in Nat BY <2>7
  <2>10. a = [x |-> [start |-> c[1], length |-> Width], y |-> [start |-> c[2], length |-> Height]]
    OBVIOUS
  <2>11. c[1] + x = spot.x /\ c[2] + y = spot.y BY <2>2, <2>7
  <2>12. CASE beacon' = <<spot>> /\ window' = TrackingWindow(a, x, y, w, a)
    <3> HIDE DEF a, spot, x, y, w
    <3>1. /\ Covers(window'.x, c[1] + x) /\ Covers(window'.y, c[2] + y)
          /\ window' # a =>
               /\ window'.x.start % QuantumX = 0 /\ window'.x.length % QuantumX = 0
               /\ window'.y.start % QuantumY = 0 /\ window'.y.length % QuantumY = 0
      <4>1. PICK xs \in Nat, ys \in Nat, xl \in Nat, yl \in Nat :
              xs = c[1] /\ ys = c[2] /\ xl = Width /\ yl = Height
        BY <2>2
      <4>2. a = [x |-> [start |-> xs, length |-> xl], y |-> [start |-> ys, length |-> yl]]
        BY <2>10, <4>1
      <4> DEFINE picture == [x |-> [start |-> xs, length |-> xl],
                             y |-> [start |-> ys, length |-> yl]]
                 next == TrackingWindow(picture, x, y, w, picture)
      <4>3. /\ Covers(next.x, xs + x) /\ Covers(next.y, ys + y)
            /\ next # picture =>
                 /\ next.x.start % QuantumX = 0 /\ next.x.length % QuantumX = 0
                 /\ next.y.start % QuantumY = 0 /\ next.y.length % QuantumY = 0
        BY <2>8, <2>9, TrackingWindowHoldsSpot
      <4>4. picture = a /\ next = window' BY <2>12, <4>2
      <4> HIDE DEF picture, next
      <4> QED BY <4>1, <4>3, <4>4
    <3>2. area' = a BY <2>1 DEF a
    <3>3. \A i \in 1..Len(beacon') : beacon'[i] = spot BY <2>12
    <3> QED BY <2>11, <3>1, <3>2, <3>3 DEF WindowFollows
  <2>13. CASE beacon' = <<>> BY <2>13 DEF WindowFollows
  <2> QED BY <2>1, <2>12, <2>13
<1> QED BY <1>1, <1>2 DEF ImagingNext, Group, imagingVars

\* Whatever the picture, wherever its window was and whatever was seen before it, the
\* window for the next picture holds the spot that is trusted, and one that was changed is
\* one the camera takes (Image::performPixelGrouping, Tracking::updateTrackingWindow).
THEOREM NextPictureHoldsSpot == ImagingSpec => []WindowFollows
<1>1. ImagingInit => DepthKnown /\ GroupsKnown /\ WindowFollows
  <2> SUFFICES ASSUME ImagingInit PROVE DepthKnown /\ GroupsKnown /\ WindowFollows OBVIOUS
  <2>1. ImageInit /\ beacon = <<>> BY DEF ImagingInit
  <2>2. DepthKnown BY <2>1, InitKnown
  <2>3. /\ data \in Frames /\ threshold \in Nat /\ groups = <<>> /\ stack = <<>>
        /\ result = <<>>
    BY <2>1, ThresholdIsNumber DEF ImageInit
  <2>4. GroupsKnown BY <2>3 DEF GroupsKnown
  <2>5. WindowFollows BY <2>1 DEF WindowFollows
  <2> QED BY <2>2, <2>4, <2>5
<1>2. DepthKnown /\ GroupsKnown /\ WindowFollows /\ [ImagingNext]_imagingVars
        => DepthKnown' /\ GroupsKnown' /\ WindowFollows'
  <2> SUFFICES ASSUME DepthKnown, GroupsKnown, WindowFollows, [ImagingNext]_imagingVars
               PROVE  DepthKnown' /\ GroupsKnown' /\ WindowFollows'
    OBVIOUS
  <2>1. [ImageNext]_imageVars BY DEF ImagingNext, Group, Follow, imagingVars
  <2> QED BY <2>1, DepthStep, GroupsStep, WindowStep
<1> QED BY <1>1, <1>2, PTL DEF ImagingSpec

-------------------------------------------------------------------------------
(* Imaging: the groups are the spots. *)

\* The mean of the pixels is no more than a bound on each of them.
LEMMA SumBounded ==
  ASSUME NEW f, NEW c \in Nat, \A p \in Pixels : f[p] \in 0..c
  PROVE  PixelSum(f) \in Nat /\ PixelSum(f) <= (Width * Height) * c
<1> DEFINE N == Width * Height
<1>1. N \in Nat /\ \A n \in 0..(N - 1) : f[n] \in 0..c BY PixelCount DEF Pixels
<1>2. PICK g : Sums(f, g, N) /\ PixelSum(f) = g[N]
  <2>1. \A n \in Pixels : f[n] \in Int OBVIOUS
  <2> QED BY <2>1, PixelSumOf
<1> HIDE DEF N
<1> DEFINE Bad == {n \in 0..N : ~(0 <= g[n] /\ g[n] <= n * c)}
<1>3. Bad = {}
  <2> SUFFICES ASSUME Bad # {} PROVE FALSE OBVIOUS
  <2>1. Bad \in SUBSET Nat OBVIOUS
  <2>2. PICK m \in Bad : \A k \in Bad : m <= k BY <2>1, LeastNumber
  <2>3. g[0] = 0 /\ \A n \in 1..N : g[n] = g[n - 1] + f[n - 1] BY <1>2 DEF Sums
  <2>4. m # 0 BY <2>2, <2>3
  <2>5. m \in 1..N /\ m - 1 \in 0..N /\ m - 1 \in 0..(N - 1) BY <1>1, <2>2, <2>4
  <2>6. 0 <= g[m - 1] /\ g[m - 1] <= (m - 1) * c BY <2>2, <2>5
  <2>7. g[m] = g[m - 1] + f[m - 1] /\ g[m - 1] \in Int /\ f[m - 1] \in 0..c
    BY <1>1, <1>2, <2>3, <2>5 DEF Sums
  <2>8. (m - 1) * c + c = m * c BY <2>5, SMT
  <2>9. ~(0 <= g[m] /\ g[m] <= m * c) BY <2>2
  <2>10. (m - 1) * c \in Int /\ m * c \in Int BY <2>5, SMT
  <2> DEFINE u == (m - 1) * c
             v == m * c
  <2>11. u \in Int /\ v \in Int /\ u + c = v /\ g[m - 1] <= u /\ ~(0 <= g[m] /\ g[m] <= v)
    BY <2>6, <2>8, <2>9, <2>10
  <2> HIDE DEF u, v
  <2> QED BY <2>6, <2>7, <2>11
<1>4. 0 <= g[N] /\ g[N] <= N * c BY <1>1, <1>3
<1>5. g[N] \in Int BY <1>1, <1>2 DEF Sums
<1>6. PixelSum(f) \in Nat BY <1>2, <1>4, <1>5
<1> QED BY <1>2, <1>4, <1>6 DEF N

\* One pixel that is brighter by v makes the sum greater by v.
LEMMA PointAdded ==
  ASSUME NEW f, NEW h, NEW q \in Pixels, NEW v \in Int,
         \A p \in Pixels : f[p] \in Int /\ h[p] = IF p = q THEN f[p] + v ELSE f[p]
  PROVE  PixelSum(h) = PixelSum(f) + v
<1> DEFINE N == Width * Height
           t(n) == IF n > q THEN v ELSE 0
<1>1. /\ N \in Nat /\ q \in 0..(N - 1)
      /\ \A n \in 0..(N - 1) :
           f[n] \in Int /\ h[n] \in Int /\ h[n] = IF n = q THEN f[n] + v ELSE f[n]
  BY PixelCount DEF Pixels
<1>2. PICK g : Sums(f, g, N) /\ PixelSum(f) = g[N] BY PixelSumOf, Zenon
<1>3. PICK k : Sums(h, k, N) /\ PixelSum(h) = k[N]
  <2>1. \A n \in Pixels : h[n] \in Int OBVIOUS
  <2> QED BY <2>1, PixelSumOf
<1> HIDE DEF N
<1> DEFINE Bad == {n \in 0..N : k[n] # g[n] + t(n)}
<1>4. Bad = {}
  <2> SUFFICES ASSUME Bad # {} PROVE FALSE OBVIOUS
  <2>1. Bad \in SUBSET Nat OBVIOUS
  <2>2. PICK m \in Bad : \A j \in Bad : m <= j BY <2>1, LeastNumber
  <2>3. /\ g[0] = 0 /\ \A n \in 1..N : g[n] = g[n - 1] + f[n - 1]
        /\ k[0] = 0 /\ \A n \in 1..N : k[n] = k[n - 1] + h[n - 1]
        /\ g \in [0..N -> Int] /\ k \in [0..N -> Int]
    BY <1>2, <1>3 DEF Sums
  <2>4. m # 0 BY <1>1, <2>2, <2>3
  <2>5. m \in 1..N /\ m - 1 \in 0..N /\ m - 1 \in 0..(N - 1) BY <1>1, <2>2, <2>4
  <2>6. k[m - 1] = g[m - 1] + t(m - 1) BY <2>2, <2>5
  <2>7. g[m] = g[m - 1] + f[m - 1] /\ k[m] = k[m - 1] + h[m - 1] BY <2>3, <2>5
  <2>8. h[m - 1] = IF m - 1 = q THEN f[m - 1] + v ELSE f[m - 1] BY <1>1, <2>5
  <2>9. k[m] # g[m] + t(m) BY <2>2
  <2>10. f[m - 1] \in Int /\ g[m - 1] \in Int BY <1>1, <2>3, <2>5
  <2> QED BY <1>1, <2>5, <2>6, <2>7, <2>8, <2>9, <2>10
<1>5. k[N] = g[N] + v BY <1>1, <1>4
<1> QED BY <1>2, <1>3, <1>5

\* A picture that is all dark.
LEMMA NoLight ==
  ASSUME NEW f, \A p \in Pixels : f[p] = 0
  PROVE  PixelSum(f) = 0
<1>1. \A p \in Pixels : f[p] \in 0..0 OBVIOUS
<1>2. PixelSum(f) \in Nat /\ PixelSum(f) <= (Width * Height) * 0 BY <1>1, SumBounded
<1>3. (Width * Height) * 0 = 0 BY PixelCount, SMT
<1> QED BY <1>2, <1>3

\* The sum over a set with one more pixel.
LEMMA OverAdded ==
  ASSUME NEW f, \A p \in Pixels : f[p] \in Int, NEW s, NEW q \in Pixels, q \notin s
  PROVE  Over(s \cup {q}, f) = Over(s, f) + f[q]
<1> DEFINE a == [p \in Pixels |-> IF p \in s THEN f[p] ELSE 0]
           b == [p \in Pixels |-> IF p \in s \cup {q} THEN f[p] ELSE 0]
<1>1. \A p \in Pixels : a[p] \in Int /\ b[p] = IF p = q THEN a[p] + f[q] ELSE a[p] OBVIOUS
<1>2. f[q] \in Int OBVIOUS
<1>3. Over(s, f) = PixelSum(a) /\ Over(s \cup {q}, f) = PixelSum(b) BY DEF Over
<1> HIDE DEF a, b
<1>4. PixelSum(b) = PixelSum(a) + f[q] BY <1>1, <1>2, PointAdded
<1> QED BY <1>3, <1>4

\* The sum over no pixel.
LEMMA OverNone == ASSUME NEW f PROVE Over({}, f) = 0
<1> DEFINE a == [p \in Pixels |-> IF p \in {} THEN f[p] ELSE 0]
<1>1. \A p \in Pixels : a[p] = 0 OBVIOUS
<1>2. Over({}, f) = PixelSum(a) BY DEF Over
<1> HIDE DEF a
<1> QED BY <1>1, <1>2, NoLight

\* No pixel that counts is brighter than TopValue, so the mean is not either.
LEMMA MeanFits ==
  ASSUME data \in Frames
  PROVE  LET mean == HistSum(data) \div (Width * Height)
         IN HistSum(data) \in Nat /\ mean \in Nat /\ mean + OFFSET < ShortMod
<1> DEFINE N == Width * Height
           c == TopValue
           S == HistSum(data)
           mean == S \div N
<1>1. N \in Nat \ {0} /\ OFFSET \in Nat /\ ShortMod \in Nat BY PixelCount, ImageAssumption
<1>2. \A p \in Pixels : Counted(data)[p] \in 0..c BY HistSumIsNumber
<1>3. c \in Nat /\ c + OFFSET < ShortMod BY ImageAssumption
<1> HIDE DEF c
<1>5. S \in Nat /\ S <= N * c
  <2> DEFINE h == Counted(data)
  <2>1. \A p \in Pixels : h[p] \in 0..c BY <1>2
  <2> HIDE DEF h
  <2>2. PixelSum(h) \in Nat /\ PixelSum(h) <= N * c BY <1>3, <2>1, SumBounded
  <2> QED BY <2>2 DEF HistSum, h
<1> HIDE DEF N, S
<1> DEFINE r == S % N
<1>6. S = N * mean + r /\ r \in 0..(N - 1) /\ mean \in Int BY <1>1, <1>5, Euclid
<1> HIDE DEF mean, r
<1>7. mean <= c
  <2> SUFFICES ASSUME mean >= c + 1 PROVE FALSE BY <1>3, <1>6
  <2>1. N * (mean - (c + 1)) >= 0 BY <1>1, <1>3, <1>6, SMT
  <2>2. N * (mean - (c + 1)) = N * mean - N * c - N BY <1>1, <1>3, <1>6, SMT
  <2> QED BY <1>1, <1>3, <1>5, <1>6, <2>1, <2>2, SMT
<1>8. mean >= 0
  <2> SUFFICES ASSUME mean <= -1 PROVE FALSE BY <1>6
  <2>1. N * (-1 - mean) >= 0 BY <1>1, <1>6, SMT
  <2>2. N * (-1 - mean) = -N - N * mean BY <1>1, <1>6, SMT
  <2> QED BY <1>1, <1>5, <1>6, <2>1, <2>2, SMT
<1>9. mean + OFFSET < ShortMod BY <1>1, <1>3, <1>6, <1>7
<1> QED BY <1>5, <1>6, <1>8, <1>9 DEF N, S, mean

\* As long as the sum fits an int, the threshold is the true one.
LEMMA BrightIsActive ==
  ASSUME data \in Frames, threshold = Threshold(data), SumFits
  PROVE  \A p \in Pixels : Bright(p) <=> p \in Active
<1> DEFINE N == Width * Height
           S == HistSum(data)
           mean == S \div N
<1>1. N \in Nat \ {0} /\ S \in Nat /\ mean \in Nat /\ mean + OFFSET < ShortMod
  BY PixelCount, MeanFits
<1>2. {OFFSET, ShortMod, IntMod} \subseteq Nat /\ IntMod # 0 BY ImageAssumption
<1>3. S < IntMod \div 2 BY DEF SumFits
<1>4. Signed(S) = S
  <2> HIDE DEF S
  <2>1. IntMod \div 2 \in Nat /\ 2 * (IntMod \div 2) <= IntMod BY <1>2, SMT
  <2> DEFINE h == IntMod \div 2
  <2>2. S + h \in Nat /\ S + h < IntMod BY <1>1, <1>2, <1>3, <2>1
  <2>3. \A n \in Nat : n < IntMod => n % IntMod = n BY <1>2, SMT
  <2>4. (S + h) % IntMod = S + h BY <2>2, <2>3
  <2> HIDE DEF h
  <2>5. h \in Nat BY <2>1 DEF h
  <2>6. (S + h) - h = S BY <1>1, <2>5
  <2> QED BY <2>4, <2>6 DEF Signed, h
<1>5. Quotient(S, N) = mean BY <1>1 DEF Quotient
<1>6. \A n \in Nat : n < ShortMod => Unsigned(n) = n BY <1>2, SMT DEF Unsigned
<1>7. histMean(data) = mean
  <2>1. histMean(data) = Unsigned(mean) BY <1>4, <1>5 DEF histMean
  <2>2. mean < ShortMod BY <1>1, <1>2
  <2> QED BY <1>1, <1>6, <2>1, <2>2
<1>8. Threshold(data) = mean + OFFSET
  <2>1. mean + OFFSET \in Nat BY <1>1, <1>2
  <2> QED BY <1>1, <1>6, <1>7, <2>1 DEF Threshold
<1>9. Active = {p \in Pixels : data[p] > mean + OFFSET} BY DEF Active
<1> HIDE DEF mean
<1> QED BY <1>8, <1>9 DEF Bright

\* An active pixel has a value.
LEMMA ActiveHasValue ==
  ASSUME data \in Frames, NEW p \in Active
  PROVE  p \in Pixels /\ data[p] \in Nat /\ data[p] > 0
<1> DEFINE mean == HistSum(data) \div (Width * Height)
<1>1. mean \in Nat /\ OFFSET \in Nat BY MeanFits, ImageAssumption
<1>2. p \in Pixels /\ data[p] > mean + OFFSET BY DEF Active
<1>3. data[p] \in Nat BY <1>2, ImageAssumption
<1> HIDE DEF mean
<1> QED BY <1>1, <1>2, <1>3

\* The active pixels are finitely many.
LEMMA ActiveFinite == Active \subseteq Pixels /\ IsFiniteSet(Active)
<1>1. Width * Height \in Int BY PixelCount
<1>2. IsFiniteSet(Pixels)
  <2>1. 0 \in Int /\ Width * Height - 1 \in Int BY <1>1
  <2> QED BY <2>1, FS_Interval DEF Pixels
<1>3. Active \subseteq Pixels BY DEF Active
<1> QED BY <1>2, <1>3, FS_Subset

\* The brightest pixel of a set.
LEMMA Brightest ==
  ASSUME data \in Frames, NEW s \in SUBSET Pixels, s # {}
  PROVE  LET m == Max({data[p] : p \in s})
         IN m \in Nat /\ (\E p \in s : m = data[p]) /\ \A p \in s : data[p] <= m
<1>1. \A p \in Pixels : data[p] \in Nat /\ data[p] < ShortMod BY ImageAssumption
<1>2. ShortMod \in Nat BY ImageAssumption
<1> DEFINE D == {data[p] : p \in s}
<1>3. D \in SUBSET (0..ShortMod) /\ D # {} BY <1>1, <1>2
<1> HIDE DEF D
<1>4. Max(D) \in D /\ \A n \in D : n <= Max(D) BY <1>2, <1>3, GreatestNumber
<1>5. PICK p \in s : Max(D) = data[p] BY <1>4 DEF D
<1>6. \A q \in s : data[q] \in D BY DEF D
<1> QED BY <1>1, <1>4, <1>5, <1>6 DEF D

\* The sums of a set with one more pixel.
LEMMA SumsGrow ==
  ASSUME data \in Frames, NEW s \in SUBSET Active, NEW q \in Active, q \notin s
  PROVE  LET m == MeasuresOf(s)
             n == MeasuresOf(s \cup {q})
         IN /\ n.x = m.x + Column(q) * data[q] /\ n.y = m.y + Row(q) * data[q]
            /\ n.valueSum = m.valueSum + data[q] /\ n.pixelCount = m.pixelCount + 1
<1>1. q \in Pixels /\ \A p \in Pixels : data[p] \in Nat /\ p \in Nat
  BY ActiveFinite, PixelsAreNumbers, ImageAssumption
<1>2. \A p \in Pixels : Column(p) * data[p] \in Int /\ Row(p) * data[p] \in Int
  <2> TAKE p \in Pixels
  <2>1. p \in Nat /\ Width \in Nat \ {0} /\ data[p] \in Nat BY <1>1, ImageAssumption
  <2>2. Column(p) \in Nat /\ Row(p) \in Nat BY <2>1, SMT DEF Column, Row
  <2> QED BY <2>1, <2>2, SMT
<1> DEFINE fx == [p \in Pixels |-> Column(p) * data[p]]
           fy == [p \in Pixels |-> Row(p) * data[p]]
<1>3. /\ \A p \in Pixels : fx[p] \in Int /\ fy[p] \in Int
      /\ fx[q] = Column(q) * data[q] /\ fy[q] = Row(q) * data[q]
  BY <1>1, <1>2
<1> HIDE DEF fx, fy
<1>4. Over(s \cup {q}, fx) = Over(s, fx) + fx[q] BY <1>1, <1>3, OverAdded
<1>5. Over(s \cup {q}, fy) = Over(s, fy) + fy[q] BY <1>1, <1>3, OverAdded
<1>6. \A p \in Pixels : data[p] \in Int BY <1>1
<1>7. Over(s \cup {q}, data) = Over(s, data) + data[q] BY <1>1, <1>6, OverAdded
<1>8. Cardinality(s \cup {q}) = Cardinality(s) + 1
  <2>1. IsFiniteSet(s) BY ActiveFinite, FS_Subset
  <2> QED BY <2>1, FS_AddElement
<1>9. \A u : /\ MeasuresOf(u).x = Over(u, fx) /\ MeasuresOf(u).y = Over(u, fy)
             /\ MeasuresOf(u).valueSum = Over(u, data)
             /\ MeasuresOf(u).pixelCount = Cardinality(u)
  BY DEF MeasuresOf, fx, fy
<1> QED BY <1>3, <1>4, <1>5, <1>7, <1>8, <1>9

\* What is measured is known by its fields.
LEMMA AreMeasures ==
  \A s : MeasuresOf(s) =
           [x |-> MeasuresOf(s).x, y |-> MeasuresOf(s).y,
            valueMax |-> MeasuresOf(s).valueMax, valueSum |-> MeasuresOf(s).valueSum,
            pixelCount |-> MeasuresOf(s).pixelCount]
BY DEF MeasuresOf

\* Acknowledge adds a pixel to what was measured before.
LEMMA MeasuresGrow ==
  ASSUME data \in Frames, NEW s \in SUBSET Active, s # {}, NEW q \in Active, q \notin s
  PROVE  MeasuresOf(s \cup {q}) = Acknowledge(MeasuresOf(s), q)
<1> DEFINE m == MeasuresOf(s)
           n == MeasuresOf(s \cup {q})
           D(u) == {data[p] : p \in u}
<1>1. /\ n.x = m.x + Column(q) * data[q] /\ n.y = m.y + Row(q) * data[q]
      /\ n.valueSum = m.valueSum + data[q] /\ n.pixelCount = m.pixelCount + 1
  BY SumsGrow
<1>2. s \in SUBSET Pixels /\ (s \cup {q}) \in SUBSET Pixels /\ s \cup {q} # {}
  BY ActiveFinite
<1>3. /\ Max(D(s)) \in Nat /\ (\E p \in s : Max(D(s)) = data[p])
      /\ \A p \in s : data[p] <= Max(D(s))
  BY <1>2, Brightest
<1>4. PICK t : t = s \cup {q} OBVIOUS
<1>5. /\ Max(D(t)) \in Nat /\ (\E p \in t : Max(D(t)) = data[p])
      /\ \A p \in t : data[p] <= Max(D(t))
  BY <1>2, <1>4, Brightest
<1>6. data[q] \in Nat BY ActiveHasValue
<1>7. m.valueMax = Max(D(s)) /\ n.valueMax = Max(D(t)) BY <1>4 DEF MeasuresOf
<1>8. n.valueMax = IF data[q] > m.valueMax THEN data[q] ELSE m.valueMax
  <2> HIDE DEF D, m, n
  <2>1. PICK p \in s : Max(D(s)) = data[p] BY <1>3
  <2>2. PICK r \in t : Max(D(t)) = data[r] BY <1>5
  <2>3. data[p] <= Max(D(t)) /\ data[q] <= Max(D(t)) BY <1>4, <1>5
  <2>4. r = q \/ data[r] <= Max(D(s)) BY <1>3, <1>4
  <2> QED BY <1>3, <1>5, <1>6, <1>7, <2>1, <2>2, <2>3, <2>4
<1>9. n = [x |-> n.x, y |-> n.y, valueMax |-> n.valueMax, valueSum |-> n.valueSum,
           pixelCount |-> n.pixelCount]
  BY AreMeasures
<1> HIDE DEF m, n
<1>10. n = Acknowledge(m, q) BY <1>1, <1>8, <1>9 DEF Acknowledge
<1> QED BY <1>10 DEF m, n

\* The first pixel is added to an empty group.
LEMMA MeasuresFirst ==
  ASSUME data \in Frames, NEW q \in Active
  PROVE  MeasuresOf({q}) = Acknowledge(EmptyGroup, q)
<1> DEFINE n == MeasuresOf({q})
<1>1. PICK s \in SUBSET Active : s = {} OBVIOUS
<1>2. s \cup {q} = {q} BY <1>1
<1>3. /\ n.x = MeasuresOf(s).x + Column(q) * data[q]
      /\ n.y = MeasuresOf(s).y + Row(q) * data[q]
      /\ n.valueSum = MeasuresOf(s).valueSum + data[q]
      /\ n.pixelCount = MeasuresOf(s).pixelCount + 1
  <2>1. q \notin s BY <1>1
  <2> QED BY <1>2, <2>1, SumsGrow
<1>4. /\ MeasuresOf(s).x = 0 /\ MeasuresOf(s).y = 0 /\ MeasuresOf(s).valueSum = 0
      /\ MeasuresOf(s).pixelCount = 0
  <2>1. \A f : Over(s, f) = 0 BY <1>1, OverNone
  <2>2. Cardinality(s) = 0 BY <1>1, FS_EmptySet
  <2> QED BY <2>1, <2>2 DEF MeasuresOf
<1>5. data[q] \in Nat /\ data[q] > 0 /\ q \in Pixels BY ActiveHasValue
<1>6. n.valueMax = data[q]
  <2>1. {q} \in SUBSET Pixels /\ {q} # {} BY <1>5
  <2>2. \E p \in {q} : Max({data[r] : r \in {q}}) = data[p] BY <2>1, Brightest
  <2> QED BY <2>2 DEF MeasuresOf
<1>7. n = [x |-> n.x, y |-> n.y, valueMax |-> n.valueMax, valueSum |-> n.valueSum,
           pixelCount |-> n.pixelCount]
  BY AreMeasures
<1> HIDE DEF n
<1>8. /\ n.x = 0 + Column(q) * data[q] /\ n.y = 0 + Row(q) * data[q]
      /\ n.valueSum = 0 + data[q] /\ n.pixelCount = 0 + 1
  BY <1>3, <1>4
<1>9. n = Acknowledge(EmptyGroup, q)
  BY <1>5, <1>6, <1>7, <1>8 DEF Acknowledge, EmptyGroup
<1> QED BY <1>9 DEF n

\* Pixels touch each other, and the pixels that touch one are its neighbours.
LEMMA TouchBoth ==
  ASSUME NEW p \in Pixels, NEW q \in Pixels
  PROVE  /\ Touch(p, q) <=> Touch(q, p)
         /\ Touch(p, q) <=> q \in Neighbours(p)
<1>1. Row(p) \in Int /\ Row(q) \in Int /\ Column(p) \in Int /\ Column(q) \in Int
  <2>1. p \in Nat /\ q \in Nat /\ Width \in Nat \ {0} BY PixelsAreNumbers, ImageAssumption
  <2> QED BY <2>1, SMT DEF Row, Column
<1>2. \A a, b \in Int : a - b \in -1..1 <=> b - a \in -1..1 OBVIOUS
<1>3. Touch(p, q) <=> Row(p) - Row(q) \in -1..1 /\ Column(p) - Column(q) \in -1..1
  BY DEF Touch
<1>4. Touch(q, p) <=> Row(q) - Row(p) \in -1..1 /\ Column(q) - Column(p) \in -1..1
  BY DEF Touch
<1>5. q \in Neighbours(p) <=> Row(q) - Row(p) \in -1..1 /\ Column(q) - Column(p) \in -1..1
  BY DEF Neighbours
<1> QED BY <1>1, <1>2, <1>3, <1>4, <1>5

\* What is left of a closed set without another is closed, and so are both together and
\* what they have in common.
LEMMA ClosedSets ==
  ASSUME NEW s \in SUBSET Active, NEW t \in SUBSET Active, Closed(s), Closed(t)
  PROVE  Closed(s \ t) /\ Closed(s \cup t) /\ Closed(s \cap t)
<1>1. \A p, q \in Active : Touch(p, q) => Touch(q, p) BY ActiveFinite, TouchBoth
<1>2. Closed(s \ t)
  <2> SUFFICES ASSUME NEW p \in s \ t, NEW q \in Active, Touch(p, q) PROVE q \in s \ t
    BY DEF Closed
  <2>1. q \in s BY DEF Closed
  <2>2. q \notin t BY <1>1 DEF Closed
  <2> QED BY <2>1, <2>2
<1>3. Closed(s \cup t) BY DEF Closed
<1>4. Closed(s \cap t) BY DEF Closed
<1> QED BY <1>2, <1>3, <1>4

\* A closed set that is in every closed set with one of its pixels is a region.
LEMMA LeastClosedIsRegion ==
  ASSUME NEW s \in SUBSET Active, NEW p \in s, Closed(s),
         \A t \in SUBSET Active : Closed(t) /\ p \in t => s \subseteq t
  PROVE  Region(s)
<1> SUFFICES ASSUME NEW t \in SUBSET s, t # {}, Closed(t) PROVE t = s BY DEF Region
<1>1. CASE p \in t BY <1>1
<1>2. CASE p \notin t
  <2>1. Closed(s \ t) /\ p \in s \ t /\ (s \ t) \in SUBSET Active BY <1>2, ClosedSets
  <2>2. s \subseteq s \ t BY <2>1
  <2> QED BY <2>2
<1> QED BY <1>1, <1>2

\* The spots that lie in a set of pixels.
Within(s) == {t \in Spots : t \subseteq s}

\* The spots in two closed sets, one of them a region.
LEMMA SpotsWithin ==
  ASSUME NEW done \in SUBSET Active, NEW s \in SUBSET Active, Closed(done), Region(s)
  PROVE  Within(done \cup s) =
           Within(done) \cup IF Cardinality(s) >= MIN_PIXELS THEN {s} ELSE {}
<1>1. ASSUME NEW t \in Within(done \cup s)
      PROVE  t \in Within(done) \/ (t = s /\ Cardinality(s) >= MIN_PIXELS)
  <2>1. t \in SUBSET Active /\ Region(t) /\ Cardinality(t) >= MIN_PIXELS /\ t \in Spots
        /\ t \subseteq done \cup s
    BY <1>1 DEF Within, Spots
  <2>2. Closed(t) BY <2>1 DEF Region
  <2>3. Closed(t \cap done) BY <2>1, <2>2, ClosedSets
  <2>4. CASE t \cap done # {}
    <3>1. t \cap done = t BY <2>1, <2>3, <2>4 DEF Region
    <3> QED BY <2>1, <3>1 DEF Within
  <2>5. CASE t \cap done = {}
    <3>1. t \in SUBSET s BY <2>1, <2>5
    <3>2. t # {} BY <2>1 DEF Region
    <3>3. t = s BY <2>2, <3>1, <3>2 DEF Region
    <3> QED BY <2>1, <3>3
  <2> QED BY <2>4, <2>5
<1>2. Within(done) \subseteq Within(done \cup s) BY DEF Within
<1>3. Cardinality(s) >= MIN_PIXELS => s \in Within(done \cup s) BY DEF Within, Spots
<1> QED BY <1>1, <1>2, <1>3

\* What makes a function a bijection.
LEMMA BijectionMeans ==
  ASSUME NEW D, NEW S, NEW f
  PROVE  f \in Bijection(D, S) <=>
           /\ f \in [D -> S] /\ \A a, b \in D : f[a] = f[b] => a = b
           /\ \A t \in S : \E a \in D : f[a] = t
BY DEF Bijection, Injection, Surjection, IsInjective

\* A list of measures with one more at its end.
LEMMA MeasureOneMore ==
  ASSUME NEW gs, NEW n \in Nat, NEW hs, NEW S, NEW s, s \notin S,
         Len(gs) = n, Len(hs) = n + 1, \A i \in 1..n : hs[i] = gs[i],
         hs[n + 1] = MeasuresOf(s), Measure(gs, S)
  PROVE  Measure(hs, S \cup {s})
<1>1. PICK part \in Bijection(1..n, S) : \A i \in 1..n : gs[i] = MeasuresOf(part[i])
  BY DEF Measure
<1>2. /\ part \in [1..n -> S] /\ \A a, b \in 1..n : part[a] = part[b] => a = b
      /\ \A t \in S : \E a \in 1..n : part[a] = t
  BY <1>1, BijectionMeans
<1> DEFINE more == [i \in 1..(n + 1) |-> IF i = n + 1 THEN s ELSE part[i]]
<1>3. \A i \in 1..(n + 1) : i = n + 1 \/ (i \in 1..n /\ i # n + 1) OBVIOUS
<1>4. 1..n \subseteq 1..(n + 1) /\ n + 1 \in 1..(n + 1) /\ n + 1 \notin 1..n OBVIOUS
<1>5. more[n + 1] = s /\ \A i \in 1..n : more[i] = part[i] BY <1>4
<1>6. more \in [1..(n + 1) -> S \cup {s}] BY <1>2, <1>3
<1> HIDE DEF more
<1>7. \A a, b \in 1..(n + 1) : more[a] = more[b] => a = b BY <1>2, <1>3, <1>5
<1>8. \A t \in S \cup {s} : \E a \in 1..(n + 1) : more[a] = t BY <1>2, <1>4, <1>5
<1>9. more \in Bijection(1..(n + 1), S \cup {s})
  BY <1>6, <1>7, <1>8, BijectionMeans
<1>10. \A i \in 1..(n + 1) : hs[i] = MeasuresOf(more[i]) BY <1>1, <1>3, <1>5
<1> QED BY <1>9, <1>10 DEF Measure

\* A list of measures in another order.
LEMMA MeasureSorted ==
  ASSUME NEW gs \in Seq(Filled), NEW hs \in Sortings(gs), NEW S, Measure(gs, S)
  PROVE  Measure(hs, S) /\ Descending(hs)
<1> DEFINE n == Len(gs)
<1>1. DOMAIN gs = 1..n OBVIOUS
<1>2. PICK p \in Bijection(1..n, 1..n) : hs = [i \in 1..n |-> gs[p[i]]]
  BY <1>1 DEF Sortings
<1>3. PICK part \in Bijection(1..n, S) : \A i \in 1..n : gs[i] = MeasuresOf(part[i])
  BY DEF Measure
<1>4. [i \in 1..n |-> part[p[i]]] \in Bijection(1..n, S)
  BY <1>2, <1>3, Fun_BijTransitive
<1>5. p \in [1..n -> 1..n] BY <1>2 DEF Bijection, Injection
<1>6. Len(hs) = n BY SortingKeeps
<1>7. \A i \in 1..n : hs[i] = MeasuresOf([j \in 1..n |-> part[p[j]]][i]) BY <1>2, <1>3, <1>5
<1>8. Measure(hs, S) BY <1>4, <1>6, <1>7 DEF Measure
<1>9. Descending(hs) BY DEF Sortings, Descending
<1> QED BY <1>8, <1>9

\* There are as many groups as they measure sets.
LEMMA MeasureCounts ==
  ASSUME NEW gs, Len(gs) \in Nat, NEW S, Measure(gs, S)
  PROVE  IsFiniteSet(S) /\ Cardinality(S) = Len(gs)
<1> DEFINE n == Len(gs)
<1>1. IsFiniteSet(1..n) /\ Cardinality(1..n) = n
  <2>1. IsFiniteSet(1..n) /\ Cardinality(1..n) = IF 1 > n THEN 0 ELSE n - 1 + 1
    BY FS_Interval
  <2> QED BY <2>1
<1>2. Bijection(1..n, S) # {} BY DEF Measure
<1>3. ExistsBijection(1..n, S) BY <1>2, Fun_ExistsBij
<1> QED BY <1>1, <1>3, FS_Bijection

\* The picture for which the grouping promises something.
Fits == SumFits /\ Cardinality(Active) <= MAX_ACTIVE_PIXELS

\* The threshold is the picture's, and the bright pixels behind the scan are in groups.
Scanned ==
  /\ threshold = Threshold(data) /\ scan \in Nat /\ groupedPixels \subseteq Active
  /\ \A p \in Active : p < scan => p \in groupedPixels

\* done is a union of whole regions, and gs measures the spots among them.
Finished(gs, done) == Closed(done) /\ Measure(gs, Within(done)) /\ Len(gs) <= MAX_GROUPS

\* cur holds the pixels of the last group: they are measured, they all belong to the region
\* of the pixel the scan came to, and whatever the region still lacks next to them is a
\* neighbour left to some call under way.
Growing(cur) ==
  /\ scan \in cur /\ Last(groups) = MeasuresOf(cur)
  /\ \A t \in SUBSET Active : Closed(t) /\ scan \in t => cur \subseteq t
  /\ \A i \in 1..Len(stack) :
       stack[i].pixel \in cur /\ stack[i].left \subseteq Neighbours(stack[i].pixel)
  /\ \A p \in cur, q \in Active \ groupedPixels :
       Touch(p, q) => \E i \in 1..Len(stack) : stack[i].pixel = p /\ q \in stack[i].left

\* While a call is under way, the groups before the last one are finished and the last one
\* grows; between two groups all of them are finished.
SpotsKnown ==
  /\ Fits => /\ Scanned
             /\ stack # <<>> =>
                  \E done \in SUBSET groupedPixels :
                    Finished(Front(groups), done) /\ Growing(groupedPixels \ done)
             /\ stack = <<>> /\ result = <<>> => Finished(groups, groupedPixels)
  /\ GroupsAreSpots

\* A list without its last element.
LEMMA FrontIs ==
  ASSUME NEW S, NEW s \in Seq(S), s # <<>>
  PROVE  /\ Len(Front(s)) = Len(s) - 1 /\ \A i \in 1..(Len(s) - 1) : Front(s)[i] = s[i]
         /\ Last(s) = s[Len(s)] /\ Len(s) \in Nat \ {0}
<1>1. Len(s) \in Nat \ {0} /\ Len(Front(s)) = Len(s) - 1 BY FrontShorter
<1>2. \A i \in 1..Len(s) : s[i] \in S OBVIOUS
<1>3. \A i \in 1..(Len(s) - 1) : Front(s)[i] = s[i]
  <2> DEFINE n == Len(s) - 1
  <2>1. Front(s) = SubSeq(s, 1, n) BY DEF Front
  <2>2. \A i \in 1..n : s[i] \in S BY <1>1, <1>2
  <2>3. n \in Int BY <1>1
  <2> SUFFICES ASSUME NEW i \in 1..n PROVE SubSeq(s, 1, n)[i] = s[i] BY <2>1
  <2> HIDE DEF n
  <2>4. SubSeq(s, 1, n)[i] = s[1 + i - 1]
    BY <2>2, <2>3, SubSeqProperties
  <2> QED BY <2>3, <2>4
<1> QED BY <1>1, <1>3 DEF Last

\* Groups that measure some sets, followed by one under way.
LEMMA FrontMeasures ==
  ASSUME NEW R, NEW hs \in Seq(R), hs # <<>>, NEW gs, NEW S, Len(gs) = Len(hs) - 1,
         \A i \in 1..(Len(hs) - 1) : gs[i] = hs[i], Measure(gs, S)
  PROVE  Measure(Front(hs), S) /\ Len(Front(hs)) = Len(gs)
<1>1. Len(Front(hs)) = Len(gs) /\ \A i \in 1..Len(gs) : Front(hs)[i] = gs[i] BY FrontIs
<1> QED BY <1>1 DEF Measure

\* What does not change as long as the picture is the same.
LEMMA SamePicture ==
  ASSUME data' = data
  PROVE  /\ Active' = Active /\ Spots' = Spots /\ (SumFits' <=> SumFits) /\ (Fits' <=> Fits)
         /\ \A s : Within(s)' = Within(s) /\ MeasuresOf(s)' = MeasuresOf(s)
         /\ \A s : Closed(s)' <=> Closed(s)
         /\ \A gs, S : Measure(gs, S)' <=> Measure(gs, S)
         /\ \A gs, s : Finished(gs, s)' <=> Finished(gs, s)
<1>1. Active' = Active /\ (SumFits' <=> SumFits) BY DEF Active, SumFits
<1>2. \A s : Closed(s)' <=> Closed(s) BY <1>1 DEF Closed
<1>3. Spots' = Spots BY <1>1, <1>2 DEF Spots, Region
<1>4. \A s : Within(s)' = Within(s) BY <1>3 DEF Within
<1>5. \A s : MeasuresOf(s)' = MeasuresOf(s) BY DEF MeasuresOf
<1>6. \A gs, S : Measure(gs, S)' <=> Measure(gs, S) BY <1>5 DEF Measure
<1>7. \A gs, s : Finished(gs, s)' <=> Finished(gs, s) BY <1>2, <1>4, <1>6 DEF Finished
<1>8. Fits' <=> Fits BY <1>1 DEF Fits
<1> QED BY <1>1, <1>2, <1>3, <1>4, <1>5, <1>6, <1>7, <1>8

\* A call of propagateGroup, far from the fail-safe.
LEMMA FitsCall ==
  ASSUME data \in Frames, Fits, groupedPixels \subseteq Active, NEW p \in Active,
         NEW gs \in Seq(Measures), gs # <<>>, NEW below, Call(p, gs, below)
  PROVE  /\ groupedPixels' = groupedPixels \cup {p}
         /\ stack' = Append(below, [pixel |-> p, left |-> Neighbours(p)])
         /\ Len(groups') = Len(gs) /\ \A i \in 1..(Len(gs) - 1) : groups'[i] = gs[i]
         /\ groups'[Len(gs)] = Acknowledge(gs[Len(gs)], p)
<1>1. groupedPixels' = groupedPixels \cup {p} BY DEF Call
<1>2. ~(Cardinality(groupedPixels') > MAX_ACTIVE_PIXELS)
  <2>1. groupedPixels' \in SUBSET Active /\ IsFiniteSet(Active) BY <1>1, ActiveFinite
  <2>2. /\ Cardinality(groupedPixels') <= Cardinality(Active) /\ Cardinality(Active) \in Nat
        /\ Cardinality(groupedPixels') \in Nat
    BY <2>1, FS_Subset, FS_CardinalityType
  <2>3. MAX_ACTIVE_PIXELS \in Nat /\ Cardinality(Active) <= MAX_ACTIVE_PIXELS
    BY ImageAssumption DEF Fits
  <2> QED BY <2>2, <2>3
<1>3. stack' = Append(below, [pixel |-> p, left |-> Neighbours(p)]) BY <1>2 DEF Call
<1>4. groups' = [gs EXCEPT ![Len(gs)] = Acknowledge(@, p)] BY DEF Call
<1> DEFINE n == Len(gs)
           a == Acknowledge(gs[n], p)
<1>5. groups' = [i \in 1..n |-> IF i = n THEN a ELSE gs[i]]
  <2>1. DOMAIN gs = 1..n OBVIOUS
  <2>2. groups' = [i \in 1..n |-> IF i = n THEN Acknowledge(gs[i], p) ELSE gs[i]]
    BY <1>4, <2>1, Zenon
  <2> QED BY <2>2
<1>6. n \in Nat \ {0} OBVIOUS
<1>7. groups' \in Seq({a} \cup {gs[i] : i \in 1..n}) /\ Len(groups') = n
  <2> HIDE DEF n, a
  <2>1. groups' \in [1..n -> {a} \cup {gs[i] : i \in 1..n}] BY <1>5
  <2> QED BY <1>6, <2>1
<1> HIDE DEF a
<1>8. groups'[n] = a /\ \A i \in 1..(n - 1) : groups'[i] = gs[i]
  <2> HIDE DEF n
  <2> QED BY <1>5, <1>6
<1> QED BY <1>1, <1>3, <1>7, <1>8 DEF a

\* What the lemmas on a step know.
Known == DepthKnown /\ GroupsKnown /\ SpotsKnown /\ Fits

\* So the groups are lists of numbers, and a pixel is bright if it is active.
LEMMA KnownMeans ==
  ASSUME Known
  PROVE  /\ data \in Frames /\ threshold = Threshold(data) /\ scan \in Nat
         /\ groupedPixels \in SUBSET Active
         /\ groups \in Seq(Filled) /\ groups \in Seq(Measures) /\ stack \in Seq(Calls)
         /\ \A p \in Pixels : Bright(p) <=> p \in Active
<1>1. data \in Frames /\ groups \in Seq(Filled) /\ stack \in Seq(Calls)
  BY DEF Known, GroupsKnown, DepthKnown
<1>2. threshold = Threshold(data) /\ scan \in Nat /\ groupedPixels \in SUBSET Active /\ SumFits
  BY DEF Known, SpotsKnown, Scanned, Fits
<1>3. groups \in Seq(Measures)
  <2>1. Filled \subseteq Measures BY DEF Filled
  <2> QED BY <1>1, <2>1
<1> QED BY <1>1, <1>2, <1>3, BrightIsActive

\* A new group is a single pixel, and the spots before it are finished.
LEMMA NewGroupGrows ==
  ASSUME Known, GroupsKnown', NewGroup
  PROVE  /\ Scanned' /\ stack' # <<>>
         /\ \E done \in SUBSET groupedPixels' :
              Finished(Front(groups'), done) /\ Growing(groupedPixels \ done)'
<1>1. /\ data \in Frames /\ threshold = Threshold(data) /\ scan \in Nat
      /\ groupedPixels \in SUBSET Active /\ groups \in Seq(Measures)
      /\ \A r \in Pixels : Bright(r) <=> r \in Active
  BY KnownMeans
<1>2. Unscanned \subseteq Pixels /\ Unscanned # {} /\ Unscanned \subseteq Nat
  BY PixelsAreNumbers DEF NewGroup, Unscanned, Open
<1>3. scan' = Min(Unscanned) /\ Call(scan', Append(groups, EmptyGroup), <<>>)
      /\ data' = data /\ threshold' = threshold
  BY DEF NewGroup
<1>4. PICK p \in Pixels : p = scan' /\ p \in Unscanned /\ \A r \in Unscanned : p <= r
  BY <1>2, <1>3, LeastNumber
<1>5. p \in Active /\ p \notin groupedPixels BY <1>1, <1>4 DEF Unscanned, Open
<1> DEFINE gs == Append(groups, EmptyGroup)
           n == Len(groups)
<1>6. EmptyGroup \in Measures BY DEF EmptyGroup, Measures
<1>7. /\ gs \in Seq(Measures) /\ gs # <<>> /\ Len(gs) = n + 1 /\ n \in Nat
      /\ gs[n + 1] = EmptyGroup /\ \A i \in 1..n : gs[i] = groups[i]
  BY <1>1, <1>6
<1>8. PICK below : below = <<>> OBVIOUS
<1>9. Call(p, gs, below) BY <1>3, <1>4, <1>8
<1> HIDE DEF gs
<1>10. Fits BY DEF Known
<1>11. /\ groupedPixels' = groupedPixels \cup {p}
       /\ stack' = Append(below, [pixel |-> p, left |-> Neighbours(p)])
       /\ Len(groups') = Len(gs) /\ \A i \in 1..(Len(gs) - 1) : groups'[i] = gs[i]
       /\ groups'[Len(gs)] = Acknowledge(gs[Len(gs)], p)
  BY <1>1, <1>5, <1>7, <1>9, <1>10, FitsCall
<1>12. Scanned'
  <2>1. threshold' = Threshold(data') BY <1>1, <1>3
  <2>2. scan' \in Nat BY <1>2, <1>4
  <2>3. Active' = Active BY <1>3, SamePicture
  <2>4. groupedPixels' \subseteq Active' BY <1>1, <1>5, <1>11, <2>3
  <2>5. ASSUME NEW r \in Active, r < scan' PROVE r \in groupedPixels'
    <3>1. r \in Pixels /\ r \in Nat BY ActiveFinite, PixelsAreNumbers
    <3>2. CASE r < scan
      <4>1. r \in groupedPixels BY <1>10, <3>2 DEF Known, SpotsKnown, Scanned
      <4> QED BY <1>11, <4>1
    <3>3. CASE r >= scan
      <4> SUFFICES ASSUME r \notin groupedPixels PROVE FALSE BY <1>11
      <4>1. r \in Unscanned BY <1>1, <3>1, <3>3 DEF Unscanned, Open
      <4>2. p <= r /\ p \in Nat BY <1>2, <1>4, <4>1
      <4> QED BY <1>4, <2>5, <3>1, <4>2
    <3> QED BY <1>1, <3>1, <3>2, <3>3
  <2> QED BY <2>1, <2>2, <2>3, <2>4, <2>5 DEF Scanned
<1>13. Finished(Front(groups'), groupedPixels)
  <2>1. stack = <<>> /\ result = <<>> BY DEF NewGroup
  <2>2. Finished(groups, groupedPixels) BY <2>1, <1>10 DEF Known, SpotsKnown
  <2>3. groups' \in Seq(Filled) BY DEF GroupsKnown
  <2>4. groups' # <<>> BY <1>7, <1>11, <2>3
  <2>5. Len(groups) = Len(groups') - 1 /\ \A i \in 1..(Len(groups') - 1) : groups[i] = groups'[i]
    BY <1>7, <1>11
  <2>6. Measure(groups, Within(groupedPixels)) BY <2>2 DEF Finished
  <2>7. Measure(Front(groups'), Within(groupedPixels)) /\ Len(Front(groups')) = Len(groups)
    BY <2>3, <2>4, <2>5, <2>6, FrontMeasures
  <2> QED BY <2>2, <2>7 DEF Finished
<1>14. groupedPixels' \ groupedPixels = {p} BY <1>5, <1>11
<1>15. PICK done \in SUBSET groupedPixels' : done = groupedPixels BY <1>11
<1>16. Growing(groupedPixels \ done)'
  <2> DEFINE c == [pixel |-> p, left |-> Neighbours(p)]
  <2>1. Len(stack') = 1 /\ stack'[1] = c BY <1>8, <1>11
  <2>2. \A i \in 1..Len(stack') : stack'[i] = c BY <2>1
  <2>3. Last(groups') = MeasuresOf({p})
    <3>1. Last(groups') = groups'[n + 1] BY <1>7, <1>11 DEF Last
    <3> QED BY <1>1, <1>5, <1>7, <1>11, <3>1, MeasuresFirst
  <2>4. \A q \in Active : Touch(p, q) => q \in Neighbours(p)
    BY <1>4, ActiveFinite, TouchBoth
  <2>5. Active' = Active /\ MeasuresOf({p})' = MeasuresOf({p}) BY <1>3, SamePicture
  <2>6. groupedPixels' \ done = {p} BY <1>14, <1>15
  <2> QED BY <1>4, <2>1, <2>2, <2>3, <2>4, <2>5, <2>6 DEF Growing
<1>17. stack' # <<>> BY <1>11
<1> QED BY <1>12, <1>13, <1>15, <1>16, <1>17

\* A call goes on to a neighbour: the region under way has one more pixel.
LEMMA VisitGrows ==
  ASSUME Known, GroupsKnown', Visit
  PROVE  /\ Scanned' /\ stack' # <<>>
         /\ \E done \in SUBSET groupedPixels' :
              Finished(Front(groups'), done) /\ Growing(groupedPixels \ done)'
<1>1. /\ data \in Frames /\ threshold = Threshold(data) /\ scan \in Nat
      /\ groupedPixels \in SUBSET Active /\ groups \in Seq(Measures) /\ stack \in Seq(Calls)
      /\ \A r \in Pixels : Bright(r) <=> r \in Active
  BY KnownMeans
<1> DEFINE top == Last(stack)
           q == Min(Open(top.left))
           c == [top EXCEPT !.left = {r \in @ : r > q}]
           lower == Append(Front(stack), c)
           d == [pixel |-> q, left |-> Neighbours(q)]
           m == Len(stack)
           n == Len(groups)
<1>2. /\ stack # <<>> /\ Open(top.left) # {} /\ Call(q, groups, lower)
      /\ data' = data /\ threshold' = threshold /\ scan' = scan /\ groups # <<>>
  BY DEF Visit, Known, GroupsKnown
<1>3. /\ m \in Nat \ {0} /\ top = stack[m] /\ top \in Calls /\ Len(Front(stack)) = m - 1
      /\ Front(stack) \in Seq(Calls) /\ \A i \in 1..(m - 1) : Front(stack)[i] = stack[i]
  <2>1. /\ m \in Nat \ {0} /\ top = stack[m] /\ Len(Front(stack)) = m - 1
        /\ \A i \in 1..(m - 1) : Front(stack)[i] = stack[i]
    BY <1>1, <1>2, FrontIs
  <2>2. stack[m] \in Calls BY <1>1, <2>1
  <2>3. Front(stack) \in Seq(Calls) BY <1>1, <1>2, FrontShorter
  <2> QED BY <2>1, <2>2, <2>3
<1>4. top.left \subseteq Pixels /\ Open(top.left) \subseteq Pixels BY <1>3 DEF Calls, Open
<1>5. Open(top.left) \subseteq Nat BY <1>4, PixelsAreNumbers
<1>6. q \in Open(top.left) /\ \A r \in Open(top.left) : q <= r BY <1>2, <1>5, LeastNumber
<1>7. q \in top.left /\ q \in Pixels /\ q \in Active /\ q \notin groupedPixels
  BY <1>1, <1>4, <1>6 DEF Open
<1>8. c \in Calls /\ c.pixel = top.pixel /\ c.left = {r \in top.left : r > q}
  BY <1>3 DEF Calls
<1> HIDE DEF c, q, top
<1>9. lower \in Seq(Calls) /\ Len(lower) = m /\ lower[m] = c
      /\ \A i \in 1..(m - 1) : lower[i] = stack[i]
  BY <1>3, <1>8
<1> HIDE DEF lower
<1>10. Fits BY DEF Known
<1>11. /\ groupedPixels' = groupedPixels \cup {q} /\ stack' = Append(lower, d)
       /\ Len(groups') = n /\ \A i \in 1..(n - 1) : groups'[i] = groups[i]
       /\ groups'[n] = Acknowledge(groups[n], q)
  BY <1>1, <1>2, <1>7, <1>10, FitsCall
<1>12. /\ Len(stack') = m + 1 /\ stack'[m + 1] = d /\ stack'[m] = c
       /\ \A i \in 1..(m - 1) : stack'[i] = stack[i] /\ stack' # <<>>
  BY <1>3, <1>9, <1>11
<1>13. PICK done \in SUBSET groupedPixels :
         Finished(Front(groups), done) /\ Growing(groupedPixels \ done)
  BY <1>2, <1>10 DEF Known, SpotsKnown
<1>14. Scanned'
  <2>1. Active' = Active BY <1>2, SamePicture
  <2>2. Scanned BY <1>10 DEF Known, SpotsKnown
  <2> QED BY <1>1, <1>2, <1>7, <1>11, <2>1, <2>2 DEF Scanned
<1>15. Finished(Front(groups'), done)
  <2>1. groups' \in Seq(Filled) BY DEF GroupsKnown
  <2>2. /\ n \in Nat \ {0} /\ Len(Front(groups)) = n - 1
        /\ \A i \in 1..(n - 1) : Front(groups)[i] = groups[i]
    BY <1>1, <1>2, FrontIs
  <2>3. groups' # <<>> BY <1>11, <2>1, <2>2
  <2>4. Measure(Front(groups), Within(done)) BY <1>13 DEF Finished
  <2>5. Measure(Front(groups'), Within(done)) /\ Len(Front(groups')) = Len(Front(groups))
    BY <1>11, <2>1, <2>2, <2>3, <2>4, FrontMeasures
  <2> QED BY <1>13, <2>5 DEF Finished
<1> DEFINE cur == groupedPixels \ done
           new == groupedPixels' \ done
<1>16. new = cur \cup {q} /\ q \notin cur /\ cur \in SUBSET Active /\ cur # {}
  <2>1. scan \in cur BY <1>13 DEF Growing
  <2> QED BY <1>1, <1>7, <1>11, <1>13, <2>1
<1>17. Touch(top.pixel, q) /\ top.pixel \in cur
  <2>1. top.pixel \in cur /\ top.left \subseteq Neighbours(top.pixel)
    BY <1>3, <1>13 DEF Growing
  <2> QED BY <1>7, <1>16, <2>1, ActiveFinite, TouchBoth
<1>18. Last(groups') = MeasuresOf(new)
  <2>1. Last(groups') = groups'[n] /\ Last(groups) = groups[n] BY <1>11 DEF Last
  <2>2. Last(groups) = MeasuresOf(cur) BY <1>13 DEF Growing
  <2> HIDE DEF cur, new
  <2>3. MeasuresOf(cur \cup {q}) = Acknowledge(MeasuresOf(cur), q)
    BY <1>1, <1>7, <1>16, MeasuresGrow
  <2> QED BY <1>11, <1>16, <2>1, <2>2, <2>3
<1>19. ASSUME NEW t \in SUBSET Active, Closed(t), scan \in t PROVE new \subseteq t
  <2>1. cur \subseteq t BY <1>13, <1>19 DEF Growing
  <2>2. q \in t BY <1>7, <1>17, <1>19, <2>1 DEF Closed
  <2> QED BY <1>16, <2>1, <2>2
<1>20. ASSUME NEW i \in 1..Len(stack')
       PROVE  stack'[i].pixel \in new /\ stack'[i].left \subseteq Neighbours(stack'[i].pixel)
  <2>1. \A j \in 1..m : stack[j].pixel \in cur /\ stack[j].left \subseteq Neighbours(stack[j].pixel)
    BY <1>13 DEF Growing
  <2>2. CASE i \in 1..(m - 1) BY <1>3, <1>12, <1>16, <2>1, <2>2
  <2>3. CASE i = m
    <3>1. m \in 1..m BY <1>3
    <3> QED BY <1>3, <1>8, <1>12, <1>16, <2>1, <2>3, <3>1
  <2>4. CASE i = m + 1 BY <1>12, <1>16, <2>4
  <2> QED BY <1>3, <1>12, <2>2, <2>3, <2>4
<1>21. ASSUME NEW p \in new, NEW r \in Active \ groupedPixels', Touch(p, r)
       PROVE  \E i \in 1..Len(stack') : stack'[i].pixel = p /\ r \in stack'[i].left
  <2>1. CASE p = q
    <3>1. r \in Neighbours(q) BY <1>7, <1>21, <2>1, ActiveFinite, TouchBoth
    <3>2. m + 1 \in 1..Len(stack') BY <1>3, <1>12
    <3> QED BY <1>12, <2>1, <3>1, <3>2
  <2>2. CASE p # q
    <3>1. p \in cur /\ r \in Active \ groupedPixels /\ r # q BY <1>11, <1>16, <1>21, <2>2
    <3>2. PICK i \in 1..m : stack[i].pixel = p /\ r \in stack[i].left
      BY <1>13, <1>21, <3>1 DEF Growing
    <3>3. CASE i \in 1..(m - 1)
      <4>1. i \in 1..Len(stack') BY <1>3, <1>12, <3>3
      <4> QED BY <1>12, <3>2, <3>3, <4>1
    <3>4. CASE i = m
      <4>1. r \in Open(top.left) BY <1>1, <1>3, <3>1, <3>2, <3>4, ActiveFinite DEF Open
      <4>2. q <= r /\ q \in Nat /\ r \in Nat BY <1>5, <1>6, <4>1
      <4>3. r > q BY <3>1, <4>2
      <4>4. r \in c.left BY <1>3, <1>8, <3>2, <3>4, <4>3
      <4>5. m \in 1..Len(stack') BY <1>3, <1>12
      <4> QED BY <1>3, <1>8, <1>12, <3>2, <3>4, <4>4, <4>5
    <3> QED BY <1>3, <3>3, <3>4
  <2> QED BY <2>1, <2>2
<1>22. Growing(groupedPixels \ done)'
  <2>1. Active' = Active BY <1>2, SamePicture
  <2>2. \A t : Closed(t)' <=> Closed(t) BY <1>2, SamePicture
  <2>3. MeasuresOf(groupedPixels \ done)' = MeasuresOf(new)
    BY <1>2 DEF MeasuresOf
  <2>4. scan' \in new BY <1>2, <1>13, <1>16 DEF Growing
  <2> QED BY <1>2, <1>18, <1>19, <1>20, <1>21, <2>1, <2>2, <2>3, <2>4 DEF Growing
<1>23. done \in SUBSET groupedPixels' /\ stack' # <<>>
  <2>1. stack' # <<>> BY <1>9, <1>11
  <2> QED BY <1>11, <2>1
<1> QED BY <1>14, <1>15, <1>22, <1>23

\* A call that returns had no open neighbour left.
LEMMA EndCallGrows ==
  ASSUME Known, EndCall
  PROVE  /\ Scanned' /\ stack' # <<>>
         /\ \E done \in SUBSET groupedPixels' :
              Finished(Front(groups'), done) /\ Growing(groupedPixels \ done)'
<1>1. /\ groupedPixels \in SUBSET Active /\ stack \in Seq(Calls)
      /\ \A r \in Pixels : Bright(r) <=> r \in Active
  BY KnownMeans
<1> DEFINE m == Len(stack)
<1>2. /\ m > 1 /\ Open(Last(stack).left) = {} /\ stack' = Front(stack) /\ stack # <<>>
      /\ UNCHANGED <<data, threshold, scan, groupedPixels, groups, result>>
  BY <1>1 DEF EndCall
<1>3. /\ m \in Nat \ {0} /\ Len(stack') = m - 1 /\ Last(stack) = stack[m]
      /\ \A i \in 1..(m - 1) : stack'[i] = stack[i]
  BY <1>1, <1>2, FrontIs
<1>4. Fits BY DEF Known
<1>5. PICK done \in SUBSET groupedPixels :
        Finished(Front(groups), done) /\ Growing(groupedPixels \ done)
  BY <1>2, <1>4 DEF Known, SpotsKnown
<1>6. Active' = Active /\ \A t : Closed(t)' <=> Closed(t) BY <1>2, SamePicture
<1>7. MeasuresOf(groupedPixels \ done)' = MeasuresOf(groupedPixels \ done)
  BY <1>2 DEF MeasuresOf
<1>8. Scanned'
  <2>1. Scanned BY <1>4 DEF Known, SpotsKnown
  <2> QED BY <1>2, <1>6, <2>1 DEF Scanned
<1>9. ASSUME NEW p \in groupedPixels \ done, NEW r \in Active \ groupedPixels, Touch(p, r)
      PROVE  \E i \in 1..Len(stack') : stack'[i].pixel = p /\ r \in stack'[i].left
  <2>1. PICK i \in 1..m : stack[i].pixel = p /\ r \in stack[i].left
    BY <1>5, <1>9 DEF Growing
  <2>2. i # m
    <3> SUFFICES ASSUME i = m PROVE FALSE OBVIOUS
    <3>1. r \in Open(Last(stack).left) BY <1>1, <1>3, <2>1, ActiveFinite DEF Open
    <3> QED BY <1>2, <3>1
  <2>3. i \in 1..(m - 1) BY <1>3, <2>1, <2>2
  <2> QED BY <1>3, <2>1, <2>3
<1>10. \A i \in 1..Len(stack') :
         /\ stack'[i].pixel \in groupedPixels \ done
         /\ stack'[i].left \subseteq Neighbours(stack'[i].pixel)
  <2>1. \A i \in 1..m : /\ stack[i].pixel \in groupedPixels \ done
                        /\ stack[i].left \subseteq Neighbours(stack[i].pixel)
    BY <1>5 DEF Growing
  <2> QED BY <1>3, <2>1
<1>11. Growing(groupedPixels \ done)'
  BY <1>2, <1>5, <1>6, <1>7, <1>9, <1>10 DEF Growing
<1>12. stack' # <<>> BY <1>2, <1>3
<1> QED BY <1>2, <1>5, <1>8, <1>11, <1>12

\* When the first call returns, the pixels of the group are a region.
LEMMA GroupIsRegion ==
  ASSUME Known, GroupDone, NEW done \in SUBSET groupedPixels,
         Closed(done), Growing(groupedPixels \ done)
  PROVE  Region(groupedPixels \ done)
<1> DEFINE cur == groupedPixels \ done
<1>1. /\ groupedPixels \in SUBSET Active /\ stack \in Seq(Calls)
      /\ \A r \in Pixels : Bright(r) <=> r \in Active
  BY KnownMeans
<1>2. Len(stack) = 1 /\ Open(Last(stack).left) = {} /\ Last(stack) = stack[1]
  BY DEF GroupDone, Last
<1>3. Closed(cur)
  <2> SUFFICES ASSUME NEW p \in cur, NEW q \in Active, Touch(p, q) PROVE q \in cur
    BY DEF Closed
  <2>1. q \notin done
    <3>1. Touch(q, p) BY <1>1, ActiveFinite, TouchBoth
    <3> QED BY <1>1, <3>1 DEF Closed
  <2>2. q \in groupedPixels
    <3> SUFFICES ASSUME q \notin groupedPixels PROVE FALSE OBVIOUS
    <3>1. \E i \in 1..Len(stack) : stack[i].pixel = p /\ q \in stack[i].left BY DEF Growing
    <3>2. q \in stack[1].left BY <1>2, <3>1
    <3>3. q \in Open(Last(stack).left) BY <1>1, <1>2, <3>2, ActiveFinite DEF Open
    <3> QED BY <1>2, <3>3
  <2> QED BY <2>1, <2>2
<1>4. cur \in SUBSET Active /\ scan \in cur BY <1>1 DEF Growing
<1>5. \A t \in SUBSET Active : Closed(t) /\ scan \in t => cur \subseteq t BY DEF Growing
<1> HIDE DEF cur
<1>6. Region(cur) BY <1>3, <1>4, <1>5, LeastClosedIsRegion
<1> QED BY <1>6 DEF cur

\* There are no more spots in a set than in the picture.
LEMMA SpotsFinite ==
  ASSUME NEW s
  PROVE  /\ Cardinality(Spots) \in Nat /\ Cardinality(Within(s)) \in Nat
         /\ Cardinality(Within(s)) <= Cardinality(Spots)
<1>1. IsFiniteSet(SUBSET Active) BY ActiveFinite, FS_SUBSET
<1>2. Spots \in SUBSET SUBSET Active BY DEF Spots
<1>3. IsFiniteSet(Spots) BY <1>1, <1>2, FS_Subset
<1>4. Within(s) \in SUBSET Spots BY DEF Within
<1>5. IsFiniteSet(Within(s)) /\ Cardinality(Within(s)) <= Cardinality(Spots)
  BY <1>3, <1>4, FS_Subset
<1> QED BY <1>3, <1>5, FS_CardinalityType

\* A group that is complete is a spot, or it is too small to be one.
LEMMA GroupDoneFinishes ==
  ASSUME Known, GroupDone
  PROVE  /\ Scanned' /\ stack' = <<>>
         /\ result' = <<>> => Finished(groups', groupedPixels')
         /\ result' # <<>> => result' = <<-1>> /\ Cardinality(Spots) > MAX_GROUPS
<1>1. /\ groupedPixels \in SUBSET Active /\ stack \in Seq(Calls) /\ groups \in Seq(Filled)
      /\ scan \in Nat
  BY KnownMeans
<1>2. /\ stack # <<>> /\ groups # <<>> /\ result = <<>> /\ stack' = <<>>
      /\ scan' = scan + 1
      /\ data' = data /\ threshold' = threshold /\ groupedPixels' = groupedPixels
  <2>1. Len(stack) = 1 /\ stack' = <<>> /\ scan' = scan + 1
        /\ UNCHANGED <<data, threshold, groupedPixels>>
    BY DEF GroupDone
  <2>2. stack # <<>>
    <3> SUFFICES ASSUME stack = <<>> PROVE FALSE OBVIOUS
    <3>1. Len(stack) = 0 OBVIOUS
    <3> QED BY <2>1, <3>1
  <2>3. groups # <<>> /\ result = <<>> BY <2>2 DEF Known, GroupsKnown
  <2> QED BY <2>1, <2>2, <2>3
<1>3. Fits BY DEF Known
<1>4. PICK done \in SUBSET groupedPixels :
        Finished(Front(groups), done) /\ Growing(groupedPixels \ done)
  BY <1>2, <1>3 DEF Known, SpotsKnown
<1> DEFINE cur == groupedPixels \ done
           n == Len(groups)
           small == Last(groups).pixelCount < MIN_PIXELS
<1>5. Region(cur) BY <1>4, GroupIsRegion DEF Finished
<1>6. done \in SUBSET Active /\ cur \in SUBSET Active /\ groupedPixels = done \cup cur
      /\ scan \in cur
  BY <1>1, <1>4 DEF Growing
<1>7. Within(groupedPixels) =
        Within(done) \cup (IF Cardinality(cur) >= MIN_PIXELS THEN {cur} ELSE {})
  BY <1>4, <1>5, <1>6, SpotsWithin DEF Finished
<1>8. Last(groups) = MeasuresOf(cur) /\ Last(groups).pixelCount = Cardinality(cur)
  BY <1>4 DEF Growing, MeasuresOf
<1>9. Closed(groupedPixels)
  <2>1. Closed(cur) /\ Closed(done) BY <1>4, <1>5 DEF Region, Finished
  <2> QED BY <1>6, <2>1, ClosedSets
<1>10. Cardinality(cur) \in Nat /\ MIN_PIXELS \in Nat /\ MAX_GROUPS \in Nat
  BY <1>6, ActiveFinite, FS_Subset, FS_CardinalityType, ImageAssumption
<1>11. ~(Cardinality(groupedPixels) > MAX_ACTIVE_PIXELS)
  <2>1. /\ Cardinality(groupedPixels) <= Cardinality(Active) /\ Cardinality(Active) \in Nat
        /\ Cardinality(groupedPixels) \in Nat
    BY <1>1, ActiveFinite, FS_Subset, FS_CardinalityType
  <2>2. MAX_ACTIVE_PIXELS \in Nat /\ Cardinality(Active) <= MAX_ACTIVE_PIXELS
    BY <1>3, ImageAssumption DEF Fits
  <2> QED BY <2>1, <2>2
<1>12. Scanned'
  <2>1. Scanned BY <1>3 DEF Known, SpotsKnown
  <2>2. Active' = Active BY <1>2, SamePicture
  <2>3. \A p \in Active : p < scan + 1 => p < scan \/ p = scan
    BY <1>1, ActiveFinite, PixelsAreNumbers
  <2>4. scan \in groupedPixels /\ scan + 1 \in Nat BY <1>1, <1>6
  <2> QED BY <1>2, <2>1, <2>2, <2>3, <2>4 DEF Scanned
<1>13. n \in Nat \ {0} /\ Len(Front(groups)) = n - 1 /\ Last(groups) = groups[n]
       /\ \A i \in 1..(n - 1) : Front(groups)[i] = groups[i]
  BY <1>1, <1>2, FrontIs
<1>14. CASE small
  <2>1. groups' = Front(groups) /\ result' = <<>>
    BY <1>2, <1>14, Zenon DEF GroupDone
  <2>2. ~(Cardinality(cur) >= MIN_PIXELS) BY <1>8, <1>10, <1>14
  <2>3. Within(groupedPixels) = Within(done) BY <1>7, <2>2
  <2>4. Finished(groups', groupedPixels') BY <1>2, <1>4, <1>9, <2>1, <2>3 DEF Finished
  <2> QED BY <1>2, <1>12, <2>1, <2>4
<1>15. CASE ~small
  <2>1. Cardinality(cur) >= MIN_PIXELS BY <1>8, <1>10, <1>15
  <2>2. Within(groupedPixels) = Within(done) \cup {cur} BY <1>7, <2>1
  <2>3. Measure(groups, Within(groupedPixels))
    <3>1. cur \notin Within(done)
      <4>1. scan \notin done BY <1>6
      <4> QED BY <1>6, <4>1 DEF Within
    <3>2. PICK k \in Nat : k = n - 1 BY <1>13
    <3>3. k + 1 = n BY <1>13, <3>2
    <3>4. Measure(Front(groups), Within(done)) BY <1>4 DEF Finished
    <3>5. Len(Front(groups)) = k /\ \A i \in 1..k : groups[i] = Front(groups)[i]
      BY <1>13, <3>2
    <3>6. groups[k + 1] = MeasuresOf(cur) /\ Len(groups) = k + 1 BY <1>8, <1>13, <3>3
    <3> HIDE DEF cur, n
    <3> QED BY <2>2, <3>1, <3>4, <3>5, <3>6, MeasureOneMore
  <2>4. CASE n > MAX_GROUPS
    <3>1. result' = <<-1>> BY <1>11, <1>15, <2>4, Zenon DEF GroupDone
    <3>2. Cardinality(Within(groupedPixels)) = n BY <1>13, <2>3, MeasureCounts
    <3>3. Cardinality(Spots) > MAX_GROUPS BY <1>10, <1>13, <2>4, <3>2, SpotsFinite
    <3>4. result' # <<>> BY <3>1
    <3> QED BY <1>2, <1>12, <3>1, <3>3, <3>4
  <2>5. CASE ~(n > MAX_GROUPS)
    <3>1. groups' = groups /\ result' = <<>>
      BY <1>2, <1>11, <1>15, <2>5, Zenon DEF GroupDone
    <3>2. n <= MAX_GROUPS BY <1>10, <1>13, <2>5
    <3>3. Finished(groups', groupedPixels') BY <1>2, <1>9, <2>3, <3>1, <3>2 DEF Finished
    <3> QED BY <1>2, <1>12, <3>1, <3>3
  <2> QED BY <2>4, <2>5
<1> QED BY <1>14, <1>15

\* After the scan every active pixel is in a group.
LEMMA ScanFinishes ==
  ASSUME Known, ScanEnds
  PROVE  /\ result' = <<Cardinality(Spots)>> /\ Cardinality(Spots) <= MAX_GROUPS
         /\ Measure(groups', Spots) /\ Descending(groups')
<1>1. /\ groupedPixels \in SUBSET Active /\ groups \in Seq(Filled) /\ scan \in Nat
      /\ \A r \in Pixels : Bright(r) <=> r \in Active
  BY KnownMeans
<1>2. /\ result = <<>> /\ stack = <<>> /\ Unscanned = {} /\ groups' \in Sortings(groups)
      /\ result' = <<Len(groups)>>
  BY DEF ScanEnds
<1>3. Fits BY DEF Known
<1>4. groupedPixels = Active
  <2> SUFFICES ASSUME NEW p \in Active, p \notin groupedPixels PROVE FALSE BY <1>1
  <2>1. ~(p < scan) BY <1>3 DEF Known, SpotsKnown, Scanned
  <2>2. p \in Pixels /\ p \in Nat BY ActiveFinite, PixelsAreNumbers
  <2>3. p >= scan BY <1>1, <2>1, <2>2
  <2>4. p \in Unscanned BY <1>1, <2>2, <2>3 DEF Unscanned, Open
  <2> QED BY <1>2, <2>4
<1>5. Within(groupedPixels) = Spots BY <1>4 DEF Within, Spots
<1>6. Finished(groups, groupedPixels) BY <1>2, <1>3 DEF Known, SpotsKnown
<1>7. Measure(groups, Spots) /\ Len(groups) <= MAX_GROUPS BY <1>5, <1>6 DEF Finished
<1>8. Measure(groups', Spots) /\ Descending(groups')
  <2>1. PICK hs \in Sortings(groups) : hs = groups' BY <1>2
  <2>2. Measure(hs, Spots) /\ Descending(hs) BY <1>1, <1>7, MeasureSorted
  <2> QED BY <2>1, <2>2
<1>9. Cardinality(Spots) = Len(groups)
  <2>1. Len(groups) \in Nat BY <1>1
  <2> QED BY <1>7, <2>1, MeasureCounts
<1> QED BY <1>2, <1>7, <1>8, <1>9

\* Every step of the grouping keeps the spots known.
LEMMA SpotsStep ==
  ASSUME DepthKnown, GroupsKnown, SpotsKnown, [ImageNext]_imageVars
  PROVE  SpotsKnown'
<1>1. GroupsKnown' BY GroupsStep
<1>2. data' = data
  BY DEF ImageNext, NewGroup, Visit, EndCall, GroupDone, ScanEnds, imageVars
<1>3. /\ Active' = Active /\ Spots' = Spots /\ (Fits' <=> Fits) /\ (SumFits' <=> SumFits)
      /\ \A s : Within(s)' = Within(s)
      /\ \A s : Closed(s)' <=> Closed(s)
      /\ \A gs, S : Measure(gs, S)' <=> Measure(gs, S)
  BY <1>2, SamePicture
<1>4. CASE ~Fits
  <2>1. ~Fits' BY <1>3, <1>4
  <2>2. GroupsAreSpots' BY <1>3, <1>4 DEF GroupsAreSpots, Fits
  <2> QED BY <2>1, <2>2 DEF SpotsKnown
<1>5. CASE Fits
  <2>1. Known BY <1>5 DEF Known
  <2>2. CASE NewGroup \/ Visit \/ EndCall
    <3>1. /\ Scanned' /\ stack' # <<>>
          /\ \E done \in SUBSET groupedPixels' :
               Finished(Front(groups'), done) /\ Growing(groupedPixels \ done)'
      BY <1>1, <2>1, <2>2, NewGroupGrows, VisitGrows, EndCallGrows
    <3>2. \E done \in SUBSET groupedPixels' :
            Finished(Front(groups), done)' /\ Growing(groupedPixels \ done)'
      BY <1>3, <3>1 DEF Finished
    <3>3. result' = <<>> BY <1>1, <3>1 DEF GroupsKnown
    <3> QED BY <3>1, <3>2, <3>3 DEF SpotsKnown, GroupsAreSpots
  <2>3. CASE GroupDone
    <3>1. /\ Scanned' /\ stack' = <<>>
          /\ result' = <<>> => Finished(groups', groupedPixels')
          /\ result' # <<>> => result' = <<-1>> /\ Cardinality(Spots) > MAX_GROUPS
      BY <2>1, <2>3, GroupDoneFinishes
    <3>2. result' = <<>> => Finished(groups, groupedPixels)' BY <1>3, <3>1 DEF Finished
    <3>3. GroupsAreSpots' BY <1>3, <3>1 DEF GroupsAreSpots
    <3> QED BY <3>1, <3>2, <3>3 DEF SpotsKnown
  <2>4. CASE ScanEnds
    <3>1. /\ result' = <<Cardinality(Spots)>> /\ Cardinality(Spots) <= MAX_GROUPS
          /\ Measure(groups', Spots) /\ Descending(groups')
      BY <2>1, <2>4, ScanFinishes
    <3>2. Scanned
      BY <1>5 DEF SpotsKnown
    <3>3. stack' = <<>> /\ UNCHANGED <<threshold, scan, groupedPixels>> BY <2>4 DEF ScanEnds
    <3>4. Scanned' BY <1>2, <1>3, <3>2, <3>3 DEF Scanned
    <3>5. ~(Cardinality(Spots) > MAX_GROUPS) /\ result' # <<>>
      BY <3>1, SpotsFinite, ImageAssumption
    <3>6. GroupsAreSpots' BY <1>3, <3>1, <3>5 DEF GroupsAreSpots
    <3> QED BY <3>3, <3>4, <3>5, <3>6 DEF SpotsKnown
  <2>5. CASE UNCHANGED imageVars
    <3>1. UNCHANGED <<threshold, scan, stack, groupedPixels, groups, result>>
      BY <2>5 DEF imageVars
    <3>2. Scanned' <=> Scanned BY <1>2, <1>3, <3>1 DEF Scanned
    <3>3. \A s : MeasuresOf(s)' = MeasuresOf(s) BY <1>2, SamePicture
    <3>4. \A done : Finished(Front(groups), done)' <=> Finished(Front(groups), done)
      BY <1>3, <3>1 DEF Finished
    <3>5. \A done : Growing(groupedPixels \ done)' <=> Growing(groupedPixels \ done)
      BY <1>2, <1>3, <3>1 DEF Growing, MeasuresOf
    <3>6. Finished(groups, groupedPixels)' <=> Finished(groups, groupedPixels)
      BY <1>3, <3>1 DEF Finished
    <3>7. GroupsAreSpots' <=> GroupsAreSpots BY <1>3, <3>1 DEF GroupsAreSpots
    <3> QED BY <1>3, <3>1, <3>2, <3>4, <3>5, <3>6, <3>7 DEF SpotsKnown
  <2> QED BY <2>2, <2>3, <2>4, <2>5 DEF ImageNext
<1> QED BY <1>4, <1>5

\* Before the scan there are no groups.
LEMMA InitSpots == ImageInit => SpotsKnown
<1> SUFFICES ASSUME ImageInit PROVE SpotsKnown OBVIOUS
<1>1. /\ data \in Frames /\ threshold = Threshold(data) /\ scan = 0 /\ stack = <<>>
      /\ groupedPixels = {} /\ groups = <<>> /\ result = <<>>
  BY DEF ImageInit
<1>2. Scanned
  <2>1. \A p \in Active : ~(p < 0) BY ActiveFinite, PixelsAreNumbers
  <2> QED BY <1>1, <2>1 DEF Scanned
<1>3. Within({}) = {} BY DEF Within, Spots, Region
<1>4. Measure(groups, Within({}))
  <2>1. Len(groups) = 0 BY <1>1
  <2>2. 1..0 = {} OBVIOUS
  <2>3. <<>> \in Bijection(1..0, {})
    <3>1. PICK e \in Seq({}) : e = <<>> BY EmptySeq, Zenon
    <3>2. Len(e) = 0 BY <3>1
    <3>3. e \in [1..Len(e) -> {}] OBVIOUS
    <3>4. e \in [1..0 -> {}] BY <3>2, <3>3
    <3>5. e \in Bijection(1..0, {}) BY <2>2, <3>4, BijectionMeans
    <3> QED BY <3>1, <3>5
  <2> QED BY <1>3, <2>1, <2>2, <2>3 DEF Measure
<1>5. Closed({}) BY DEF Closed
<1>6. Finished(groups, groupedPixels)
  <2>1. Len(groups) <= MAX_GROUPS BY <1>1, ImageAssumption
  <2> QED BY <1>1, <1>4, <1>5, <2>1 DEF Finished
<1>7. GroupsAreSpots BY <1>1 DEF GroupsAreSpots
<1> QED BY <1>1, <1>2, <1>6, <1>7 DEF SpotsKnown

\* For every picture whose sum fits an int and that has no more bright pixels than allowed,
\* the scan with its recursion finds exactly the connected regions that are large enough,
\* each once with its own sums and peak, brightest first, or reports that there are too many
\* (performPixelGrouping, propagateGroup, acknowledgePixel).
THEOREM GroupingFindsSpots == ImagingSpec => []GroupsAreSpots
<1> DEFINE Inv == DepthKnown /\ GroupsKnown /\ SpotsKnown
<1>1. ImagingInit => Inv
  <2> SUFFICES ASSUME ImagingInit PROVE Inv OBVIOUS
  <2>1. ImageInit BY DEF ImagingInit
  <2>2. data \in Frames /\ threshold = Threshold(data) /\ groups = <<>> /\ stack = <<>>
        /\ result = <<>>
    BY <2>1 DEF ImageInit
  <2>3. GroupsKnown BY <2>2, ThresholdIsNumber DEF GroupsKnown
  <2> QED BY <2>1, <2>3, InitKnown, InitSpots
<1>2. Inv /\ [ImagingNext]_imagingVars => Inv'
  <2> SUFFICES ASSUME Inv, [ImagingNext]_imagingVars PROVE Inv' OBVIOUS
  <2>1. [ImageNext]_imageVars BY DEF ImagingNext, Group, Follow, imagingVars
  <2> QED BY <2>1, DepthStep, GroupsStep, SpotsStep
<1>3. Inv => GroupsAreSpots BY DEF SpotsKnown
<1> QED BY <1>1, <1>2, <1>3, PTL DEF ImagingSpec

-------------------------------------------------------------------------------
(* Transform: totals. *)

\* The numbers of a list are added one after the other.
LEMMA TotalOf ==
  ASSUME NEW n \in Nat, NEW s \in [1..n -> Int]
  PROVE  \E g \in [0..n -> Int] :
           /\ g[0] = 0 /\ \A i \in 1..n : g[i] = g[i - 1] + s[i]
           /\ Total(s) = g[n]
<1>1. Len(s) = n
  <2>1. s \in Seq(Int) OBVIOUS
  <2> QED BY <2>1
<1> DEFINE f == [i \in 0..(n - 1) |-> s[i + 1]]
           F(x) == [i \in 0..n |-> IF i = 0 THEN 0 ELSE x[i - 1] + s[i]]
           t == CHOOSE x : x = F(x)
<1>2. \A i \in 0..(n - 1) : f[i] \in Int OBVIOUS
<1>3. \A i \in 1..n : f[i - 1] = s[i] OBVIOUS
<1> HIDE DEF f
<1>4. PICK h : Sums(f, h, n) BY <1>2, SumsExist
<1>5. h = F(h)
  <2>1. h \in [0..n -> Int] /\ h[0] = 0 /\ \A i \in 1..n : h[i] = h[i - 1] + s[i]
    BY <1>3, <1>4 DEF Sums
  <2>2. \A i \in 0..n : i = 0 \/ (i # 0 /\ i \in 1..n) OBVIOUS
  <2> QED BY <2>1, <2>2
<1>6. t = F(t) BY <1>5
<1>7. Total(s) = t[n] BY <1>1 DEF Total
<1> HIDE DEF t
<1>8. \A i \in 0..n : t[i] = IF i = 0 THEN 0 ELSE t[i - 1] + s[i] BY <1>6
<1> DEFINE Bad == {i \in 0..n : t[i] \notin Int}
<1>9. Bad = {}
  <2> SUFFICES ASSUME Bad # {} PROVE FALSE OBVIOUS
  <2>1. Bad \in SUBSET Nat OBVIOUS
  <2>2. PICK m \in Bad : \A k \in Bad : m <= k BY <2>1, LeastNumber
  <2>3. m # 0 BY <1>8, <2>2
  <2>4. m - 1 \in 0..n /\ m \in 1..n BY <2>2, <2>3
  <2>5. m - 1 \notin Bad BY <2>2, <2>4
  <2> QED BY <1>8, <2>2, <2>3, <2>4, <2>5
<1>10. t \in [0..n -> Int] BY <1>6, <1>9
<1>11. t[0] = 0 /\ \A i \in 1..n : t[i] = t[i - 1] + s[i] BY <1>8
<1> QED BY <1>7, <1>10, <1>11

\* So the total of numbers is a number.
LEMMA TotalIsNumber ==
  ASSUME NEW n \in Nat, NEW s \in [1..n -> Int]
  PROVE  Total(s) \in Int
BY TotalOf

\* Place by place, a list of numbers is a combination of three others.
Combined(n, e, u, a, v, b, w, c, z) ==
  /\ n \in Nat /\ e \in Int /\ a \in Int /\ b \in Int /\ c \in Int
  /\ u \in [1..n -> Int] /\ v \in [1..n -> Int] /\ w \in [1..n -> Int] /\ z \in [1..n -> Int]
  /\ \A i \in 1..n : e * u[i] = a * v[i] + b * w[i] + c * z[i]

\* What holds of the numbers of four lists, place by place, holds of their totals.
LEMMA TotalsCombined ==
  ASSUME NEW n, NEW e, NEW a, NEW b, NEW c, NEW u, NEW v, NEW w, NEW z,
         Combined(n, e, u, a, v, b, w, c, z)
  PROVE  e * Total(u) = a * Total(v) + b * Total(w) + c * Total(z)
<1>0. /\ n \in Nat /\ e \in Int /\ a \in Int /\ b \in Int /\ c \in Int
      /\ u \in [1..n -> Int] /\ v \in [1..n -> Int] /\ w \in [1..n -> Int]
      /\ z \in [1..n -> Int]
      /\ \A i \in 1..n : e * u[i] = a * v[i] + b * w[i] + c * z[i]
  BY DEF Combined
<1>1. PICK gu \in [0..n -> Int] :
        gu[0] = 0 /\ (\A i \in 1..n : gu[i] = gu[i - 1] + u[i]) /\ Total(u) = gu[n]
  BY <1>0, TotalOf
<1>2. PICK gv \in [0..n -> Int] :
        gv[0] = 0 /\ (\A i \in 1..n : gv[i] = gv[i - 1] + v[i]) /\ Total(v) = gv[n]
  BY <1>0, TotalOf
<1>3. PICK gw \in [0..n -> Int] :
        gw[0] = 0 /\ (\A i \in 1..n : gw[i] = gw[i - 1] + w[i]) /\ Total(w) = gw[n]
  BY <1>0, TotalOf
<1>4. PICK gz \in [0..n -> Int] :
        gz[0] = 0 /\ (\A i \in 1..n : gz[i] = gz[i - 1] + z[i]) /\ Total(z) = gz[n]
  BY <1>0, TotalOf
<1> DEFINE Bad == {i \in 0..n : e * gu[i] # a * gv[i] + b * gw[i] + c * gz[i]}
<1>5. Bad = {}
  <2> SUFFICES ASSUME Bad # {} PROVE FALSE OBVIOUS
  <2>1. Bad \in SUBSET Nat BY <1>0
  <2>2. PICK m \in Bad : \A k \in Bad : m <= k BY <2>1, LeastNumber
  <2>3. m # 0
    <3>1. e * 0 = 0 /\ a * 0 = 0 /\ b * 0 = 0 /\ c * 0 = 0 BY <1>0, SMT
    <3>2. e * gu[0] = a * gv[0] + b * gw[0] + c * gz[0] BY <1>1, <1>2, <1>3, <1>4, <3>1
    <3> QED BY <2>2, <3>2
  <2>4. m - 1 \in 0..n /\ m \in 1..n /\ m \in 0..n BY <1>0, <2>2, <2>3
  <2>5. m - 1 \notin Bad BY <2>2, <2>4
  <2>6. e * gu[m - 1] = a * gv[m - 1] + b * gw[m - 1] + c * gz[m - 1] BY <2>4, <2>5
  <2>7. e * u[m] = a * v[m] + b * w[m] + c * z[m] BY <1>0, <2>4
  <2>8. /\ gu[m - 1] \in Int /\ gv[m - 1] \in Int /\ gw[m - 1] \in Int /\ gz[m - 1] \in Int
        /\ u[m] \in Int /\ v[m] \in Int /\ w[m] \in Int /\ z[m] \in Int
    BY <1>0, <2>4
  <2>9. e * gu[m] = a * gv[m] + b * gw[m] + c * gz[m]
    <3>1. PICK u0 \in Int, v0 \in Int, w0 \in Int, z0 \in Int :
            u0 = gu[m - 1] /\ v0 = gv[m - 1] /\ w0 = gw[m - 1] /\ z0 = gz[m - 1]
      BY <2>8
    <3>2. PICK u1 \in Int, v1 \in Int, w1 \in Int, z1 \in Int :
            u1 = u[m] /\ v1 = v[m] /\ w1 = w[m] /\ z1 = z[m]
      BY <2>8
    <3>3. e * u0 = a * v0 + b * w0 + c * z0 /\ e * u1 = a * v1 + b * w1 + c * z1
      BY <2>6, <2>7, <3>1, <3>2, Zenon
    <3>4. e * (u0 + u1) = a * (v0 + v1) + b * (w0 + w1) + c * (z0 + z1)
      <4>1. e * (u0 + u1) = e * u0 + e * u1 BY <1>0, SMT
      <4>2. /\ a * (v0 + v1) = a * v0 + a * v1 /\ b * (w0 + w1) = b * w0 + b * w1
            /\ c * (z0 + z1) = c * z0 + c * z1
        BY <1>0, SMT
      <4> DEFINE eu == e * u0
                 av == a * v0
                 bw == b * w0
                 cz == c * z0
                 fu == e * u1
                 fv == a * v1
                 fw == b * w1
                 fz == c * z1
      <4>3. /\ eu \in Int /\ av \in Int /\ bw \in Int /\ cz \in Int
            /\ fu \in Int /\ fv \in Int /\ fw \in Int /\ fz \in Int
        BY <1>0, SMT
      <4>4. eu = av + bw + cz /\ fu = fv + fw + fz BY <3>3
      <4>5. (av + fv) + (bw + fw) + (cz + fz) = eu + fu
        <5> HIDE DEF eu, av, bw, cz, fu, fv, fw, fz
        <5> QED BY <4>3, <4>4, SMT
      <4> QED BY <4>1, <4>2, <4>5, Zenon
    <3>5. /\ gu[m] = u0 + u1 /\ gv[m] = v0 + v1 /\ gw[m] = w0 + w1 /\ gz[m] = z0 + z1
      BY <1>1, <1>2, <1>3, <1>4, <2>4, <3>1, <3>2, Zenon
    <3> QED BY <3>4, <3>5, Zenon
  <2> QED BY <2>2, <2>9
<1>6. n \in 0..n BY <1>0
<1>7. e * gu[n] = a * gv[n] + b * gw[n] + c * gz[n] BY <1>5, <1>6
<1> QED BY <1>1, <1>2, <1>3, <1>4, <1>7

\* The same number n times.
LEMMA TotalOfSame ==
  ASSUME NEW n \in Nat, NEW c \in Int
  PROVE  Total([i \in 1..n |-> c]) = n * c
<1> DEFINE s == [i \in 1..n |-> c]
<1>1. s \in [1..n -> Int] /\ \A i \in 1..n : s[i] = c OBVIOUS
<1> HIDE DEF s
<1>2. PICK g \in [0..n -> Int] :
        g[0] = 0 /\ (\A i \in 1..n : g[i] = g[i - 1] + s[i]) /\ Total(s) = g[n]
  BY <1>1, TotalOf
<1> DEFINE Bad == {i \in 0..n : g[i] # i * c}
<1>3. Bad = {}
  <2> SUFFICES ASSUME Bad # {} PROVE FALSE OBVIOUS
  <2>1. Bad \in SUBSET Nat OBVIOUS
  <2>2. PICK m \in Bad : \A k \in Bad : m <= k BY <2>1, LeastNumber
  <2>3. m # 0
    <3>1. 0 * c = 0 BY SMT
    <3> QED BY <1>2, <2>2, <3>1
  <2>4. m - 1 \in 0..n /\ m \in 1..n BY <2>2, <2>3
  <2>5. g[m - 1] = (m - 1) * c BY <2>2, <2>4
  <2>6. g[m] = (m - 1) * c + c BY <1>1, <1>2, <2>4, <2>5
  <2>7. (m - 1) * c + c = m * c BY <2>4, SMT
  <2> QED BY <2>2, <2>6, <2>7
<1>4. g[n] = n * c BY <1>3
<1> QED BY <1>2, <1>4 DEF s

\* No number of a list is greater than their total, if none is negative.
LEMMA TotalIsZero ==
  ASSUME NEW n \in Nat, NEW s \in [1..n -> Nat], Total(s) = 0
  PROVE  \A i \in 1..n : s[i] = 0
<1>1. PICK g \in [0..n -> Int] :
        g[0] = 0 /\ (\A i \in 1..n : g[i] = g[i - 1] + s[i]) /\ Total(s) = g[n]
  <2>1. s \in [1..n -> Int] OBVIOUS
  <2> QED BY <2>1, TotalOf
<1> SUFFICES ASSUME NEW k \in 1..n, s[k] # 0 PROVE FALSE OBVIOUS
<1> DEFINE Bad == {i \in 0..n : ~(g[i] >= 0 /\ (i >= k => g[i] > 0))}
<1>2. Bad = {}
  <2> SUFFICES ASSUME Bad # {} PROVE FALSE OBVIOUS
  <2>1. Bad \in SUBSET Nat OBVIOUS
  <2>2. PICK m \in Bad : \A j \in Bad : m <= j BY <2>1, LeastNumber
  <2>3. m # 0 BY <1>1, <2>2
  <2>4. m - 1 \in 0..n /\ m \in 1..n BY <2>2, <2>3
  <2>5. m - 1 \notin Bad BY <2>2, <2>4
  <2>6. g[m - 1] >= 0 /\ (m - 1 >= k => g[m - 1] > 0) BY <2>4, <2>5
  <2>7. g[m] = g[m - 1] + s[m] /\ s[m] \in Nat /\ g[m - 1] \in Int BY <1>1, <2>4
  <2>8. ~(g[m] >= 0 /\ (m >= k => g[m] > 0)) BY <2>2
  <2>9. m = k => s[m] > 0 BY <2>7
  <2> QED BY <2>4, <2>6, <2>7, <2>8, <2>9
<1>3. n \in 0..n /\ n >= k OBVIOUS
<1>4. g[n] > 0 BY <1>2, <1>3
<1> QED BY <1>1, <1>4

\* The total of the products of two lists.
Dot(n, u, v) == Total([i \in 1..n |-> u[i] * v[i]])

\* It is a number, whichever comes first.
LEMMA DotIsNumber ==
  ASSUME NEW n \in Nat, NEW u \in [1..n -> Int], NEW v \in [1..n -> Int]
  PROVE  Dot(n, u, v) \in Int /\ Dot(n, u, v) = Dot(n, v, u)
<1> DEFINE p == [i \in 1..n |-> u[i] * v[i]]
           q == [i \in 1..n |-> v[i] * u[i]]
<1>1. ASSUME NEW i \in 1..n PROVE u[i] * v[i] \in Int /\ u[i] * v[i] = v[i] * u[i]
  <2>1. u[i] \in Int /\ v[i] \in Int OBVIOUS
  <2> QED BY <2>1, SMT
<1>2. p \in [1..n -> Int] /\ p = q BY <1>1
<1> HIDE DEF p, q
<1>3. Total(p) \in Int BY <1>2, TotalIsNumber
<1> QED BY <1>2, <1>3 DEF Dot, p, q

\* Place by place, a list of numbers is a combination of two others.
Mixed(n, e, u, a, v, b, w) ==
  /\ n \in Nat /\ e \in Int /\ a \in Int /\ b \in Int
  /\ u \in [1..n -> Int] /\ v \in [1..n -> Int] /\ w \in [1..n -> Int]
  /\ \A i \in 1..n : e * u[i] = a * v[i] + b * w[i]

\* A list that combines two others has the products that combine theirs.
LEMMA DotsCombined ==
  ASSUME NEW n, NEW e, NEW a, NEW b, NEW u, NEW v, NEW w, Mixed(n, e, u, a, v, b, w),
         NEW z \in [1..n -> Int]
  PROVE  e * Dot(n, u, z) = a * Dot(n, v, z) + b * Dot(n, w, z)
<1>0. /\ n \in Nat /\ e \in Int /\ a \in Int /\ b \in Int
      /\ u \in [1..n -> Int] /\ v \in [1..n -> Int] /\ w \in [1..n -> Int]
      /\ \A i \in 1..n : e * u[i] = a * v[i] + b * w[i]
  BY DEF Mixed
<1> DEFINE P(s) == [i \in 1..n |-> s[i] * z[i]]
           zeros == [i \in 1..n |-> 0]
<1>1. ASSUME NEW i \in 1..n
      PROVE  /\ u[i] * z[i] \in Int /\ v[i] * z[i] \in Int /\ w[i] * z[i] \in Int
             /\ e * (u[i] * z[i]) = a * (v[i] * z[i]) + b * (w[i] * z[i]) + 0 * 0
  <2>1. PICK u0 \in Int, v0 \in Int, w0 \in Int, z0 \in Int :
          u0 = u[i] /\ v0 = v[i] /\ w0 = w[i] /\ z0 = z[i]
    BY <1>0
  <2>2. e * u0 = a * v0 + b * w0 BY <1>0, <2>1, Zenon
  <2>3. e * (u0 * z0) = (e * u0) * z0 BY <1>0, SMT
  <2>4. (a * v0 + b * w0) * z0 = a * (v0 * z0) + b * (w0 * z0) + 0 * 0 BY <1>0, SMT
  <2>5. e * (u0 * z0) = a * (v0 * z0) + b * (w0 * z0) + 0 * 0 BY <2>2, <2>3, <2>4, Zenon
  <2>6. u0 * z0 \in Int /\ v0 * z0 \in Int /\ w0 * z0 \in Int BY SMT
  <2> QED BY <2>1, <2>5, <2>6, Zenon
<1>2. PICK p \in [1..n -> Int], q \in [1..n -> Int], r \in [1..n -> Int], o \in [1..n -> Int] :
        p = P(u) /\ q = P(v) /\ r = P(w) /\ o = zeros
  <2>1. P(u) \in [1..n -> Int] BY <1>1
  <2>2. P(v) \in [1..n -> Int] BY <1>1
  <2>3. P(w) \in [1..n -> Int] BY <1>1
  <2>4. zeros \in [1..n -> Int] OBVIOUS
  <2> QED BY <2>1, <2>2, <2>3, <2>4, Zenon
<1>3. \A i \in 1..n : e * p[i] = a * q[i] + b * r[i] + 0 * o[i]
  <2>1. \A i \in 1..n : /\ p[i] = u[i] * z[i] /\ q[i] = v[i] * z[i] /\ r[i] = w[i] * z[i]
                        /\ o[i] = 0
    BY <1>2, Zenon
  <2> QED BY <1>1, <2>1, Zenon
<1>4. e * Total(p) = a * Total(q) + b * Total(r) + 0 * Total(o)
  <2>1. PICK c \in Int : c = 0 OBVIOUS
  <2>2. \A i \in 1..n : e * p[i] = a * q[i] + b * r[i] + c * o[i] BY <1>3, <2>1, Zenon
  <2>3. Combined(n, e, p, a, q, b, r, c, o) BY <1>0, <2>2, Zenon DEF Combined
  <2>4. e * Total(p) = a * Total(q) + b * Total(r) + c * Total(o)
    BY <2>3, TotalsCombined
  <2> QED BY <2>1, <2>4, Zenon
<1>5. Total(o) \in Int /\ Total(q) \in Int /\ Total(r) \in Int /\ Total(p) \in Int
  BY <1>0, TotalIsNumber
<1>6. 0 * Total(o) = 0 BY <1>5, SMT
<1>7. a * Total(q) + b * Total(r) \in Int BY <1>0, <1>5, SMT
<1>8. e * Total(p) = a * Total(q) + b * Total(r) BY <1>4, <1>6, <1>7
<1>9. Dot(n, u, z) = Total(p) /\ Dot(n, v, z) = Total(q) /\ Dot(n, w, z) = Total(r)
  BY <1>2, Zenon DEF Dot
<1> QED BY <1>8, <1>9, Zenon

\* Two equations with two unknowns a and b.
Equations(e, a, b, P, Q, X, Y, Z) ==
  /\ e \in Int /\ a \in Int /\ b \in Int /\ P \in Int /\ Q \in Int
  /\ X \in Int /\ Y \in Int /\ Z \in Int
  /\ e * P = a * X + b * Y /\ e * Q = a * Y + b * Z

\* Their solution.
LEMMA Cramer ==
  ASSUME NEW e, NEW a, NEW b, NEW P, NEW Q, NEW X, NEW Y, NEW Z,
         Equations(e, a, b, P, Q, X, Y, Z)
  PROVE  e * (P * Z - Q * Y) = a * (X * Z - Y * Y) /\ e * (Q * X - P * Y) = b * (X * Z - Y * Y)
<1>0. /\ e \in Int /\ a \in Int /\ b \in Int /\ P \in Int /\ Q \in Int
      /\ X \in Int /\ Y \in Int /\ Z \in Int
  BY DEF Equations
<1>1. e * (P * Z - Q * Y) = (e * P) * Z - (e * Q) * Y BY <1>0, SMT
<1>2. (a * X + b * Y) * Z - (a * Y + b * Z) * Y = a * (X * Z - Y * Y) BY <1>0, SMT
<1>3. e * (Q * X - P * Y) = (e * Q) * X - (e * P) * Y BY <1>0, SMT
<1>4. (a * Y + b * Z) * X - (a * X + b * Y) * Y = b * (X * Z - Y * Y) BY <1>0, SMT
<1>5. e * P = a * X + b * Y /\ e * Q = a * Y + b * Z BY DEF Equations
<1> QED BY <1>1, <1>2, <1>3, <1>4, <1>5, Zenon

-------------------------------------------------------------------------------
(* Transform: least squares. *)

\* Pairs, or differences of pairs, in numbers.
InNumbers(n, pairs) ==
  /\ DOMAIN pairs = 1..n
  /\ \A i \in 1..n : /\ pairs[i]["x0"] \in Int /\ pairs[i]["y0"] \in Int
                     /\ pairs[i]["x1"] \in Int /\ pairs[i]["y1"] \in Int

\* One coordinate of all of them.
Each(n, pairs, c) == [i \in 1..n |-> pairs[i][c]]

\* They are lists of numbers.
LEMMA EachIsNumbers ==
  ASSUME NEW n \in Nat, NEW pairs, InNumbers(n, pairs)
  PROVE  /\ Each(n, pairs, "x0") \in [1..n -> Int] /\ Each(n, pairs, "y0") \in [1..n -> Int]
         /\ Each(n, pairs, "x1") \in [1..n -> Int] /\ Each(n, pairs, "y1") \in [1..n -> Int]
         /\ \A i \in 1..n : /\ Each(n, pairs, "x0")[i] = pairs[i]["x0"]
                            /\ Each(n, pairs, "y0")[i] = pairs[i]["y0"]
                            /\ Each(n, pairs, "x1")[i] = pairs[i]["x1"]
                            /\ Each(n, pairs, "y1")[i] = pairs[i]["y1"]
BY DEF InNumbers, Each

\* The sums of products in LeastSquares.
LEMMA LeastSquaresAre ==
  ASSUME NEW n \in Nat, NEW pairs, InNumbers(n, pairs)
  PROVE  LET D(a, b) == Dot(n, Each(n, pairs, a), Each(n, pairs, b))
         IN LeastSquares(pairs) =
              [m00 |-> D("x1", "x0") * D("y0", "y0") - D("x1", "y0") * D("y0", "x0"),
               m01 |-> D("x1", "y0") * D("x0", "x0") - D("x1", "x0") * D("x0", "y0"),
               m10 |-> D("y1", "x0") * D("y0", "y0") - D("y1", "y0") * D("y0", "x0"),
               m11 |-> D("y1", "y0") * D("x0", "x0") - D("y1", "x0") * D("x0", "y0"),
               d |-> D("x0", "x0") * D("y0", "y0") - D("x0", "y0") * D("y0", "x0")]
<1> DEFINE S(a, b) == Total([i \in DOMAIN pairs |-> pairs[i][a] * pairs[i][b]])
           D(a, b) == Dot(n, Each(n, pairs, a), Each(n, pairs, b))
<1>1. ASSUME NEW a, NEW b PROVE S(a, b) = D(a, b)
  <2>1. \A i \in 1..n : Each(n, pairs, a)[i] = pairs[i][a] /\ Each(n, pairs, b)[i] = pairs[i][b]
    BY DEF Each
  <2>2. [i \in DOMAIN pairs |-> pairs[i][a] * pairs[i][b]]
          = [i \in 1..n |-> Each(n, pairs, a)[i] * Each(n, pairs, b)[i]]
    BY <2>1, Zenon DEF InNumbers
  <2> QED BY <2>2, Zenon DEF Dot
<1> QED BY <1>1, Zenon DEF LeastSquares

\* The angles are those a matrix a, b, f, g over e makes of the spots.
Linear(n, pairs, e, a, b, f, g) ==
  /\ Mixed(n, e, Each(n, pairs, "x1"), a, Each(n, pairs, "x0"), b, Each(n, pairs, "y0"))
  /\ Mixed(n, e, Each(n, pairs, "y1"), f, Each(n, pairs, "x0"), g, Each(n, pairs, "y0"))

\* Then that is the matrix least squares find.
LEMMA LeastSquaresExact ==
  ASSUME NEW n, NEW pairs, NEW e, NEW a, NEW b, NEW f, NEW g,
         n \in Nat, InNumbers(n, pairs), Linear(n, pairs, e, a, b, f, g)
  PROVE  LET m == LeastSquares(pairs)
         IN /\ m.m00 \in Int /\ m.m01 \in Int /\ m.m10 \in Int /\ m.m11 \in Int /\ m.d \in Int
            /\ e * m.m00 = a * m.d /\ e * m.m01 = b * m.d
            /\ e * m.m10 = f * m.d /\ e * m.m11 = g * m.d
<1> DEFINE m == LeastSquares(pairs)
<1>1. PICK x0 \in [1..n -> Int], y0 \in [1..n -> Int], x1 \in [1..n -> Int],
           y1 \in [1..n -> Int] :
        /\ x0 = Each(n, pairs, "x0") /\ y0 = Each(n, pairs, "y0")
        /\ x1 = Each(n, pairs, "x1") /\ y1 = Each(n, pairs, "y1")
  BY EachIsNumbers, Zenon
<1>2. Mixed(n, e, x1, a, x0, b, y0) /\ Mixed(n, e, y1, f, x0, g, y0)
  BY <1>1, Zenon DEF Linear
<1>3. e \in Int /\ a \in Int /\ b \in Int /\ f \in Int /\ g \in Int BY <1>2 DEF Mixed
<1>4. PICK X \in Int, Y \in Int, Z \in Int, P \in Int, Q \in Int, R \in Int, T \in Int :
        /\ X = Dot(n, x0, x0) /\ Y = Dot(n, x0, y0) /\ Y = Dot(n, y0, x0) /\ Z = Dot(n, y0, y0)
        /\ P = Dot(n, x1, x0) /\ Q = Dot(n, x1, y0)
        /\ R = Dot(n, y1, x0) /\ T = Dot(n, y1, y0)
  BY DotIsNumber
<1>5. /\ m.m00 = P * Z - Q * Y /\ m.m01 = Q * X - P * Y
      /\ m.m10 = R * Z - T * Y /\ m.m11 = T * X - R * Y
      /\ m.d = X * Z - Y * Y
  <2>1. m = [m00 |-> P * Z - Q * Y, m01 |-> Q * X - P * Y,
             m10 |-> R * Z - T * Y, m11 |-> T * X - R * Y, d |-> X * Z - Y * Y]
    BY <1>1, <1>4, LeastSquaresAre, Zenon
  <2> HIDE DEF m
  <2> QED BY <2>1
<1>6. /\ e * Dot(n, x1, x0) = a * Dot(n, x0, x0) + b * Dot(n, y0, x0)
      /\ e * Dot(n, x1, y0) = a * Dot(n, x0, y0) + b * Dot(n, y0, y0)
  BY <1>2, DotsCombined
<1>7. /\ e * Dot(n, y1, x0) = f * Dot(n, x0, x0) + g * Dot(n, y0, x0)
      /\ e * Dot(n, y1, y0) = f * Dot(n, x0, y0) + g * Dot(n, y0, y0)
  BY <1>2, DotsCombined
<1>8. e * P = a * X + b * Y /\ e * Q = a * Y + b * Z BY <1>4, <1>6, Zenon
<1>9. e * R = f * X + g * Y /\ e * T = f * Y + g * Z BY <1>4, <1>7, Zenon
<1>10. /\ e * (P * Z - Q * Y) = a * (X * Z - Y * Y)
       /\ e * (Q * X - P * Y) = b * (X * Z - Y * Y)
  <2>1. Equations(e, a, b, P, Q, X, Y, Z) BY <1>3, <1>8, Zenon DEF Equations
  <2> QED BY <2>1, Cramer
<1>11. /\ e * (R * Z - T * Y) = f * (X * Z - Y * Y)
       /\ e * (T * X - R * Y) = g * (X * Z - Y * Y)
  <2>1. Equations(e, f, g, R, T, X, Y, Z) BY <1>3, <1>9, Zenon DEF Equations
  <2> QED BY <2>1, Cramer
<1>12. /\ P * Z - Q * Y \in Int /\ Q * X - P * Y \in Int /\ R * Z - T * Y \in Int
       /\ T * X - R * Y \in Int /\ X * Z - Y * Y \in Int
  BY SMT
<1> HIDE DEF m
<1> QED BY <1>5, <1>10, <1>11, <1>12, Zenon DEF m

\* A product of numbers is 0 only if one of them is.
LEMMA NoZeroDivisor ==
  ASSUME NEW a \in Int, NEW b \in Int, a * b = 0
  PROVE  a = 0 \/ b = 0
<1> SUFFICES ASSUME a # 0, b # 0 PROVE FALSE OBVIOUS
<1>1. a <= -1 \/ a >= 1 OBVIOUS
<1>2. b <= -1 \/ b >= 1 OBVIOUS
<1>3. ASSUME a >= 1, b >= 1 PROVE FALSE
  <2>1. (a - 1) * (b - 1) >= 0 BY <1>3, SMT
  <2>2. (a - 1) * (b - 1) = a * b - a - b + 1 BY SMT
  <2> QED BY <1>3, <2>1, <2>2
<1>4. ASSUME a >= 1, b <= -1 PROVE FALSE
  <2>1. (a - 1) * (-1 - b) >= 0 BY <1>4, SMT
  <2>2. (a - 1) * (-1 - b) = -(a * b) - a + b + 1 BY SMT
  <2> QED BY <1>4, <2>1, <2>2
<1>5. ASSUME a <= -1, b >= 1 PROVE FALSE
  <2>1. (-1 - a) * (b - 1) >= 0 BY <1>5, SMT
  <2>2. (-1 - a) * (b - 1) = -(a * b) - b + a + 1 BY SMT
  <2> QED BY <1>5, <2>1, <2>2
<1>6. ASSUME a <= -1, b <= -1 PROVE FALSE
  <2>1. (-1 - a) * (-1 - b) >= 0 BY <1>6, SMT
  <2>2. (-1 - a) * (-1 - b) = a * b + a + b + 1 BY SMT
  <2> QED BY <1>6, <2>1, <2>2
<1> QED BY <1>1, <1>2, <1>3, <1>4, <1>5, <1>6

\* The square of a number.
LEMMA Square ==
  ASSUME NEW a \in Int
  PROVE  a * a \in Nat /\ (a * a = 0 => a = 0)
<1>1. a * a \in Nat BY SMT
<1> QED BY <1>1, NoZeroDivisor

\* Where the determinant of the squares is 0, all places are on a line through the origin:
\* the squares of their distances from it add up to 0.
LEMMA OnALine ==
  ASSUME NEW n \in Nat, NEW u \in [1..n -> Int], NEW v \in [1..n -> Int],
         Dot(n, u, u) * Dot(n, v, v) - Dot(n, u, v) * Dot(n, u, v) = 0,
         NEW i \in 1..n, NEW j \in 1..n
  PROVE  u[i] * v[j] = u[j] * v[i]
<1>1. PICK X \in Int, Y \in Int, Z \in Int :
        X = Dot(n, u, u) /\ Y = Dot(n, u, v) /\ Z = Dot(n, v, v)
  BY DotIsNumber
<1>2. X * Z - Y * Y = 0 BY <1>1, Zenon
<1>3. \A k \in 1..n : u[k] \in Int /\ v[k] \in Int OBVIOUS
<1>4. CASE X = 0
  <2> DEFINE s == [k \in 1..n |-> u[k] * u[k]]
  <2>1. \A k \in 1..n : u[k] * u[k] \in Nat BY <1>3, Square
  <2>2. s \in [1..n -> Nat] BY <2>1
  <2>3. Total(s) = 0 BY <1>1, <1>4, Zenon DEF Dot
  <2>4. \A k \in 1..n : s[k] = u[k] * u[k] OBVIOUS
  <2> HIDE DEF s
  <2>5. \A k \in 1..n : u[k] * u[k] = 0 BY <2>2, <2>3, <2>4, TotalIsZero
  <2>6. u[i] = 0 /\ u[j] = 0 BY <1>3, <2>5, Square
  <2>7. 0 * v[j] = 0 /\ 0 * v[i] = 0 BY <1>3, SMT
  <2> QED BY <2>6, <2>7
<1>5. CASE X # 0
  <2> DEFINE w(k) == X * v[k] - Y * u[k]
             q == [k \in 1..n |-> w(k) * w(k)]
             vv == [k \in 1..n |-> v[k] * v[k]]
             uv == [k \in 1..n |-> u[k] * v[k]]
             uu == [k \in 1..n |-> u[k] * u[k]]
  <2>1. ASSUME NEW k \in 1..n
        PROVE  /\ w(k) \in Int /\ w(k) * w(k) \in Nat
               /\ v[k] * v[k] \in Int /\ u[k] * v[k] \in Int /\ u[k] * u[k] \in Int
               /\ 1 * (w(k) * w(k)) = (X * X) * (v[k] * v[k]) + (-2 * X * Y) * (u[k] * v[k])
                                        + (Y * Y) * (u[k] * u[k])
    <3>1. PICK a \in Int, b \in Int : a = u[k] /\ b = v[k] BY <1>3
    <3>2. X * b - Y * a \in Int /\ b * b \in Int /\ a * b \in Int /\ a * a \in Int BY SMT
    <3>3. 1 * ((X * b - Y * a) * (X * b - Y * a))
            = (X * X) * (b * b) + (-2 * X * Y) * (a * b) + (Y * Y) * (a * a)
      BY SMT
    <3>4. (X * b - Y * a) * (X * b - Y * a) \in Nat BY <3>2, Square
    <3> QED BY <3>1, <3>2, <3>3, <3>4, Zenon
  <2>2. q \in [1..n -> Nat] BY <2>1
  <2>3. vv \in [1..n -> Int] BY <2>1
  <2>4. uv \in [1..n -> Int] BY <2>1
  <2>5. uu \in [1..n -> Int] BY <2>1
  <2>6. PICK A \in Int, B \in Int, C \in Int, one \in Int :
          A = X * X /\ B = -2 * X * Y /\ C = Y * Y /\ one = 1
    BY SMT
  <2>7. Combined(n, one, q, A, vv, B, uv, C, uu)
    <3>1. q \in [1..n -> Int] BY <2>2
    <3>2. \A k \in 1..n : /\ q[k] = w(k) * w(k) /\ vv[k] = v[k] * v[k]
                          /\ uv[k] = u[k] * v[k] /\ uu[k] = u[k] * u[k]
      OBVIOUS
    <3> HIDE DEF q, vv, uv, uu, w
    <3>3. \A k \in 1..n : one * q[k] = A * vv[k] + B * uv[k] + C * uu[k]
      BY <2>1, <2>6, <3>2, Zenon
    <3> QED BY <2>3, <2>4, <2>5, <3>1, <3>3, Zenon DEF Combined
  <2>8. Total(vv) = Z /\ Total(uv) = Y /\ Total(uu) = X BY <1>1, Zenon DEF Dot
  <2>9. \A k \in 1..n : q[k] = w(k) * w(k) OBVIOUS
  <2> HIDE DEF q, vv, uv, uu
  <2>10. one * Total(q) = A * Total(vv) + B * Total(uv) + C * Total(uu)
    BY <2>7, TotalsCombined
  <2>11. 1 * Total(q) = (X * X) * Z + (-2 * X * Y) * Y + (Y * Y) * X
    BY <2>6, <2>8, <2>10, Zenon
  <2>12. (X * X) * Z + (-2 * X * Y) * Y + (Y * Y) * X = X * (X * Z - Y * Y) BY SMT
  <2>13. X * 0 = 0 BY SMT
  <2>14. Total(q) \in Int
    <3>1. q \in [1..n -> Int] BY <2>2
    <3> QED BY <3>1, TotalIsNumber
  <2>15. 1 * Total(q) = 0 BY <1>2, <2>11, <2>12, <2>13, Zenon
  <2>16. Total(q) = 0 BY <2>14, <2>15
  <2>17. \A k \in 1..n : w(k) * w(k) = 0 BY <2>2, <2>9, <2>16, TotalIsZero
  <2>18. \A k \in 1..n : w(k) = 0
    <3> TAKE k \in 1..n
    <3>1. w(k) \in Int /\ w(k) * w(k) = 0 BY <2>1, <2>17
    <3> HIDE DEF w
    <3> QED BY <3>1, Square
  <2>19. PICK a \in Int, b \in Int, c \in Int, d \in Int :
           a = u[i] /\ b = v[i] /\ c = u[j] /\ d = v[j]
    BY <1>3
  <2>20. X * b - Y * a = 0 /\ X * d - Y * c = 0 BY <2>18, <2>19, Zenon
  <2>21. X * (a * d - c * b) = a * (X * d - Y * c) - c * (X * b - Y * a) BY SMT
  <2>22. a * 0 - c * 0 = 0 BY SMT
  <2>23. X * (a * d - c * b) = 0 BY <2>20, <2>21, <2>22, Zenon
  <2>24. a * d - c * b \in Int /\ a * d \in Int /\ c * b \in Int BY SMT
  <2>25. a * d - c * b = 0
    <3> DEFINE t == a * d - c * b
    <3>1. t \in Int /\ X * t = 0 BY <2>23, <2>24
    <3> HIDE DEF t
    <3>2. t = 0 BY <1>5, <3>1, NoZeroDivisor
    <3> QED BY <3>2 DEF t
  <2>26. a * d = c * b BY <2>24, <2>25
  <2> QED BY <2>19, <2>26, Zenon
<1> QED BY <1>4, <1>5
\* One coordinate of an affine transform over e, in numbers: a, b and c take x and y to z,
\* and X and Y, n times the centre, to Z; m and k are what least squares found for a and b.
Fitted(e, a, b, c, n, d, m, k, x, y, z, X, Y, Z) ==
  /\ e \in Int /\ a \in Int /\ b \in Int /\ c \in Int /\ n \in Int /\ d \in Int
  /\ m \in Int /\ k \in Int /\ x \in Int /\ y \in Int /\ z \in Int
  /\ X \in Int /\ Y \in Int /\ Z \in Int
  /\ e # 0 /\ e * m = a * d /\ e * k = b * d
  /\ e * z = a * x + b * y + c /\ e * Z = a * X + b * Y + c * n

\* What AffineParameters and AffineTransform make of them is z.
LEMMA FittedTransform ==
  ASSUME NEW e, NEW a, NEW b, NEW c, NEW n, NEW d, NEW m, NEW k,
         NEW x, NEW y, NEW z, NEW X, NEW Y, NEW Z,
         Fitted(e, a, b, c, n, d, m, k, x, y, z, X, Y, Z)
  PROVE  n * (m * x + k * y) + (d * Z - m * X - k * Y) = (n * d) * z
<1>0. /\ e \in Int /\ a \in Int /\ b \in Int /\ c \in Int /\ n \in Int /\ d \in Int
      /\ m \in Int /\ k \in Int /\ x \in Int /\ y \in Int /\ z \in Int
      /\ X \in Int /\ Y \in Int /\ Z \in Int
  BY DEF Fitted
<1>1. /\ e # 0 /\ e * m = a * d /\ e * k = b * d
      /\ e * z = a * x + b * y + c /\ e * Z = a * X + b * Y + c * n
  BY DEF Fitted
<1> DEFINE t == n * (m * x + k * y) + (d * Z - m * X - k * Y)
           u == (n * d) * z
<1>2. t \in Int /\ u \in Int BY <1>0, SMT
<1>3. e * (t - u) = n * ((e * m) * x + (e * k) * y) + (d * (e * Z) - (e * m) * X - (e * k) * Y)
                      - (n * d) * (e * z)
  BY <1>0, SMT
<1>4. n * ((a * d) * x + (b * d) * y) + (d * (a * X + b * Y + c * n) - (a * d) * X - (b * d) * Y)
        - (n * d) * (a * x + b * y + c) = 0
  BY <1>0, SMT
<1>5. e * (t - u) = 0 BY <1>1, <1>3, <1>4, Zenon
<1> HIDE DEF t, u
<1>6. t - u \in Int BY <1>2
<1>7. t - u = 0 BY <1>0, <1>1, <1>5, <1>6, NoZeroDivisor
<1>8. t = u BY <1>2, <1>7
<1> QED BY <1>8 DEF t, u

\* The pairs fit one row of an affine transform over e.
RowFits(n, pairs, z, e, a, b, c) ==
  /\ n \in Nat \ {0} /\ z \in {"x1", "y1"} /\ InNumbers(n, pairs)
  /\ e \in Int /\ a \in Int /\ b \in Int /\ c \in Int
  /\ \A i \in 1..n : e * pairs[i][z] = a * pairs[i]["x0"] + b * pairs[i]["y0"] + c

\* The row takes the centre to the centre.
LEMMA CentersFit ==
  ASSUME NEW n, NEW pairs, NEW z, NEW e, NEW a, NEW b, NEW c, RowFits(n, pairs, z, e, a, b, c)
  PROVE  LET C == Centers(pairs)
         IN /\ C["x0"] \in Int /\ C["y0"] \in Int /\ C[z] \in Int
            /\ e * C[z] = a * C["x0"] + b * C["y0"] + c * n
<1>0. /\ n \in Nat \ {0} /\ z \in {"x1", "y1"} /\ InNumbers(n, pairs)
      /\ e \in Int /\ a \in Int /\ b \in Int /\ c \in Int
      /\ \A i \in 1..n : e * pairs[i][z] = a * pairs[i]["x0"] + b * pairs[i]["y0"] + c
  BY DEF RowFits
<1> DEFINE E(k) == Each(n, pairs, k)
           ones == [i \in 1..n |-> 1]
           C == Centers(pairs)
<1>1. E("x0") \in [1..n -> Int] /\ E("y0") \in [1..n -> Int] /\ E(z) \in [1..n -> Int]
  BY <1>0, EachIsNumbers
<1>2. PICK u \in [1..n -> Int], v \in [1..n -> Int], w \in [1..n -> Int], o \in [1..n -> Int] :
        u = E(z) /\ v = E("x0") /\ w = E("y0") /\ o = ones
  <2>1. ones \in [1..n -> Int] OBVIOUS
  <2> QED BY <1>1, <2>1, Zenon
<1>3. C["x0"] = Total(v) /\ C["y0"] = Total(w) /\ C[z] = Total(u)
  <2>1. DOMAIN pairs = 1..n BY <1>0 DEF InNumbers
  <2>2. \A k \in Coordinates : C[k] = Total([i \in 1..n |-> pairs[i][k]])
    BY <2>1 DEF Centers
  <2>3. "x0" \in Coordinates /\ "y0" \in Coordinates /\ z \in Coordinates
    BY <1>0 DEF Coordinates
  <2> HIDE DEF C
  <2> QED BY <1>2, <2>2, <2>3, Zenon DEF Each
<1>4. \A i \in 1..n : /\ u[i] = pairs[i][z] /\ v[i] = pairs[i]["x0"]
                      /\ w[i] = pairs[i]["y0"] /\ o[i] = 1
  BY <1>2, Zenon DEF Each
<1>5. c * 1 = c BY <1>0
<1>6. \A i \in 1..n : e * u[i] = a * v[i] + b * w[i] + c * o[i] BY <1>0, <1>4, <1>5, Zenon
<1>7. n \in Nat BY <1>0
<1>8. Combined(n, e, u, a, v, b, w, c, o) BY <1>0, <1>6, <1>7, Zenon DEF Combined
<1>9. e * Total(u) = a * Total(v) + b * Total(w) + c * Total(o) BY <1>8, TotalsCombined
<1>10. Total(o) = n
  <2>1. PICK k \in Int : k = 1 OBVIOUS
  <2>2. Total([i \in 1..n |-> k]) = n * k BY <1>7, TotalOfSame
  <2>3. n * k = n BY <1>7, <2>1
  <2> QED BY <1>2, <2>1, <2>2, <2>3, Zenon
<1>11. Total(u) \in Int /\ Total(v) \in Int /\ Total(w) \in Int BY <1>7, TotalIsNumber
<1> HIDE DEF C
<1>12. e * C[z] = a * C["x0"] + b * C["y0"] + c * n BY <1>3, <1>9, <1>10, Zenon
<1> QED BY <1>3, <1>11, <1>12, Zenon DEF C

\* The pairs around their centre fit the row without its offset.
LEMMA CentredFit ==
  ASSUME NEW n, NEW pairs, NEW z, NEW e, NEW a, NEW b, NEW c, RowFits(n, pairs, z, e, a, b, c),
         Len(pairs) = n
  PROVE  LET D == Centred(pairs)
             C == Centers(pairs)
         IN \A i \in 1..n :
              /\ D[i]["x0"] = n * pairs[i]["x0"] - C["x0"] /\ D[i]["x0"] \in Int
              /\ D[i]["y0"] = n * pairs[i]["y0"] - C["y0"] /\ D[i]["y0"] \in Int
              /\ D[i][z] = n * pairs[i][z] - C[z] /\ D[i][z] \in Int
              /\ e * D[i][z] = a * D[i]["x0"] + b * D[i]["y0"]
<1>0. /\ n \in Nat \ {0} /\ z \in {"x1", "y1"} /\ InNumbers(n, pairs)
      /\ e \in Int /\ a \in Int /\ b \in Int /\ c \in Int
      /\ \A i \in 1..n : e * pairs[i][z] = a * pairs[i]["x0"] + b * pairs[i]["y0"] + c
  BY DEF RowFits
<1> DEFINE C == Centers(pairs)
           D == Centred(pairs)
<1>1. /\ C["x0"] \in Int /\ C["y0"] \in Int /\ C[z] \in Int
      /\ e * C[z] = a * C["x0"] + b * C["y0"] + c * n
  BY CentersFit
<1>2. SUFFICES ASSUME NEW i \in 1..n
      PROVE   /\ D[i]["x0"] = n * pairs[i]["x0"] - C["x0"] /\ D[i]["x0"] \in Int
              /\ D[i]["y0"] = n * pairs[i]["y0"] - C["y0"] /\ D[i]["y0"] \in Int
              /\ D[i][z] = n * pairs[i][z] - C[z] /\ D[i][z] \in Int
              /\ e * D[i][z] = a * D[i]["x0"] + b * D[i]["y0"]
  OBVIOUS
<1>3. \A k \in Coordinates : D[i][k] = n * pairs[i][k] - C[k]
  <2>1. DOMAIN pairs = 1..n BY <1>0 DEF InNumbers
  <2> HIDE DEF C
  <2>2. D = [j \in 1..n |-> Minus([k \in Coordinates |-> n * pairs[j][k]], C)]
    BY <2>1, Zenon DEF Centred, C
  <2>3. D[i] = Minus([k \in Coordinates |-> n * pairs[i][k]], C) BY <2>2, Zenon
  <2> HIDE DEF D
  <2> QED BY <2>3, Zenon DEF Minus
<1>4. "x0" \in Coordinates /\ "y0" \in Coordinates /\ z \in Coordinates
  BY <1>0 DEF Coordinates
<1>5. PICK X \in Int, Y \in Int, Z \in Int : X = C["x0"] /\ Y = C["y0"] /\ Z = C[z]
  BY <1>1
<1>6. PICK x \in Int, y \in Int, t \in Int :
        x = pairs[i]["x0"] /\ y = pairs[i]["y0"] /\ t = pairs[i][z]
  BY <1>0 DEF InNumbers
<1> HIDE DEF C, D
<1>7. D[i]["x0"] = n * x - X /\ D[i]["y0"] = n * y - Y /\ D[i][z] = n * t - Z
  BY <1>3, <1>4, <1>5, <1>6, Zenon
<1>8. n * x - X \in Int /\ n * y - Y \in Int /\ n * t - Z \in Int BY <1>0, SMT
<1>9. e * t = a * x + b * y + c /\ e * Z = a * X + b * Y + c * n
  BY <1>0, <1>1, <1>5, <1>6, Zenon
<1>10. e * (n * t - Z) = a * (n * x - X) + b * (n * y - Y)
  <2>1. e * (n * t - Z) = n * (e * t) - e * Z BY <1>0, SMT
  <2>2. n * (a * x + b * y + c) - (a * X + b * Y + c * n)
          = a * (n * x - X) + b * (n * y - Y)
    BY <1>0, SMT
  <2> QED BY <1>9, <2>1, <2>2, Zenon
<1> QED BY <1>5, <1>6, <1>7, <1>8, <1>10, Zenon

\* The pairs fit an affine transform over e.
AffineIn(n, pairs, e, a, b, c, f, g, h) ==
  /\ e # 0 /\ Len(pairs) = n
  /\ RowFits(n, pairs, "x1", e, a, b, c) /\ RowFits(n, pairs, "y1", e, f, g, h)

\* Then so do the pairs around their centre, without the offsets.
LEMMA CentredLinear ==
  ASSUME NEW n, NEW pairs, NEW e, NEW a, NEW b, NEW c, NEW f, NEW g, NEW h,
         AffineIn(n, pairs, e, a, b, c, f, g, h)
  PROVE  InNumbers(n, Centred(pairs)) /\ Linear(n, Centred(pairs), e, a, b, f, g)
<1>0. /\ e # 0 /\ Len(pairs) = n
      /\ RowFits(n, pairs, "x1", e, a, b, c) /\ RowFits(n, pairs, "y1", e, f, g, h)
  BY DEF AffineIn
<1>1. /\ n \in Nat /\ DOMAIN pairs = 1..n
      /\ e \in Int /\ a \in Int /\ b \in Int /\ f \in Int /\ g \in Int
  BY <1>0 DEF RowFits, InNumbers
<1> DEFINE D == Centred(pairs)
<1>2. \A i \in 1..n : /\ D[i]["x0"] \in Int /\ D[i]["y0"] \in Int /\ D[i]["x1"] \in Int
                      /\ e * D[i]["x1"] = a * D[i]["x0"] + b * D[i]["y0"]
  BY <1>0, CentredFit
<1>3. \A i \in 1..n : /\ D[i]["y1"] \in Int
                      /\ e * D[i]["y1"] = f * D[i]["x0"] + g * D[i]["y0"]
  BY <1>0, CentredFit
<1>4. DOMAIN D = 1..n BY <1>1 DEF Centred
<1> HIDE DEF D
<1>5. InNumbers(n, D) BY <1>2, <1>3, <1>4 DEF InNumbers
<1>6. PICK x \in [1..n -> Int], y \in [1..n -> Int], t \in [1..n -> Int], u \in [1..n -> Int] :
        /\ x = Each(n, D, "x0") /\ y = Each(n, D, "y0")
        /\ t = Each(n, D, "x1") /\ u = Each(n, D, "y1")
  BY <1>1, <1>5, EachIsNumbers, Zenon
<1>7. \A i \in 1..n : x[i] = D[i]["x0"] /\ y[i] = D[i]["y0"] /\ t[i] = D[i]["x1"]
                      /\ u[i] = D[i]["y1"]
  BY <1>6, Zenon DEF Each
<1>8. \A i \in 1..n : e * t[i] = a * x[i] + b * y[i] /\ e * u[i] = f * x[i] + g * y[i]
  BY <1>2, <1>3, <1>7, Zenon
<1>9. Mixed(n, e, t, a, x, b, y) BY <1>1, <1>8, Zenon DEF Mixed
<1>10. Mixed(n, e, u, f, x, g, y) BY <1>1, <1>8, Zenon DEF Mixed
<1> QED BY <1>5, <1>6, <1>9, <1>10, Zenon DEF Linear, D

\* Where the spots are not on a line, the affine transform takes each to its angles.
LEMMA AffineFits ==
  ASSUME NEW n, NEW pairs, NEW e, NEW a, NEW b, NEW c, NEW f, NEW g, NEW h,
         AffineIn(n, pairs, e, a, b, c, f, g, h),
         LeastSquares(Centred(pairs)).d # 0,
         NEW i \in 1..n
  PROVE  Is(AffineTransform(AffineParameters(pairs), pairs[i]["x0"], pairs[i]["y0"]),
            pairs[i]["x1"], pairs[i]["y1"])
<1>0. /\ e # 0 /\ Len(pairs) = n
      /\ RowFits(n, pairs, "x1", e, a, b, c) /\ RowFits(n, pairs, "y1", e, f, g, h)
  BY DEF AffineIn
<1>1. /\ n \in Nat \ {0} /\ InNumbers(n, pairs)
      /\ e \in Int /\ a \in Int /\ b \in Int /\ c \in Int
      /\ f \in Int /\ g \in Int /\ h \in Int
      /\ \A j \in 1..n : /\ e * pairs[j]["x1"] = a * pairs[j]["x0"] + b * pairs[j]["y0"] + c
                         /\ e * pairs[j]["y1"] = f * pairs[j]["x0"] + g * pairs[j]["y0"] + h
  BY <1>0, Zenon DEF RowFits
<1>2. n \in Nat /\ n \in Int /\ n # 0 BY <1>1
<1> DEFINE m == LeastSquares(Centred(pairs))
           C == Centers(pairs)
<1>3. /\ m.m00 \in Int /\ m.m01 \in Int /\ m.m10 \in Int /\ m.m11 \in Int /\ m.d \in Int
      /\ e * m.m00 = a * m.d /\ e * m.m01 = b * m.d
      /\ e * m.m10 = f * m.d /\ e * m.m11 = g * m.d
  <2>1. PICK D : D = Centred(pairs) OBVIOUS
  <2>2. InNumbers(n, D) /\ Linear(n, D, e, a, b, f, g) BY <2>1, CentredLinear
  <2>3. m = LeastSquares(D) BY <2>1
  <2> QED BY <1>2, <2>2, <2>3, LeastSquaresExact
<1>4. /\ C["x0"] \in Int /\ C["y0"] \in Int /\ C["x1"] \in Int
      /\ e * C["x1"] = a * C["x0"] + b * C["y0"] + c * n
  BY <1>0, CentersFit
<1>5. C["y1"] \in Int /\ e * C["y1"] = f * C["x0"] + g * C["y0"] + h * n
  BY <1>0, CentersFit
<1>6. PICK x \in Int, y \in Int, t \in Int, u \in Int :
        x = pairs[i]["x0"] /\ y = pairs[i]["y0"] /\ t = pairs[i]["x1"] /\ u = pairs[i]["y1"]
  BY <1>1 DEF InNumbers
<1> HIDE DEF m, C
<1>7. PICK p \in Int, q \in Int, r \in Int, s \in Int, d \in Int,
           X \in Int, Y \in Int, T \in Int, U \in Int :
        /\ p = m.m00 /\ q = m.m01 /\ r = m.m10 /\ s = m.m11 /\ d = m.d
        /\ X = C["x0"] /\ Y = C["y0"] /\ T = C["x1"] /\ U = C["y1"]
  BY <1>3, <1>4, <1>5
<1>8. Fitted(e, a, b, c, n, d, p, q, x, y, t, X, Y, T)
  BY <1>0, <1>1, <1>2, <1>3, <1>4, <1>6, <1>7, Zenon DEF Fitted
<1>9. Fitted(e, f, g, h, n, d, r, s, x, y, u, X, Y, U)
  BY <1>0, <1>1, <1>2, <1>3, <1>4, <1>5, <1>6, <1>7, Zenon DEF Fitted
<1>10. n * (p * x + q * y) + (d * T - p * X - q * Y) = (n * d) * t BY <1>8, FittedTransform
<1>11. n * (r * x + s * y) + (d * U - r * X - s * Y) = (n * d) * u BY <1>9, FittedTransform
<1>12. n * d # 0
  <2>1. d # 0 BY <1>7, Zenon DEF m
  <2> QED BY <1>2, <2>1, NoZeroDivisor
<1>13. AffineParameters(pairs)
         = [a |-> m, n |-> n, t0 |-> d * T - p * X - q * Y, t1 |-> d * U - r * X - s * Y]
  BY <1>0, <1>7, Zenon DEF AffineParameters, m, C
<1>14. PICK P : P = AffineParameters(pairs) OBVIOUS
<1>15. /\ P.a = m /\ P.n = n /\ P.t0 = d * T - p * X - q * Y
       /\ P.t1 = d * U - r * X - s * Y
  BY <1>13, <1>14
<1>16. AffineTransform(P, x, y)
         = [x |-> n * (p * x + q * y) + (d * T - p * X - q * Y),
            y |-> n * (r * x + s * y) + (d * U - r * X - s * Y), over |-> n * d]
  BY <1>7, <1>15, Zenon DEF AffineTransform
<1>17. AffineTransform(P, x, y)
         = [x |-> (n * d) * t, y |-> (n * d) * u, over |-> n * d]
  BY <1>10, <1>11, <1>16, Zenon
<1>18. PICK F : F = AffineTransform(P, x, y) OBVIOUS
<1>19. F.x = (n * d) * t /\ F.y = (n * d) * u /\ F.over = n * d BY <1>17, <1>18
<1>20. Is(F, t, u) BY <1>12, <1>19, Zenon DEF Is
<1> QED BY <1>6, <1>14, <1>18, <1>20, Zenon

\* A determinant of 0 means that all spots are on a line through the origin.
LEMMA NoDeterminant ==
  ASSUME NEW n \in Nat, NEW pairs, InNumbers(n, pairs), LeastSquares(pairs).d = 0,
         NEW i \in 1..n, NEW j \in 1..n
  PROVE  pairs[i]["x0"] * pairs[j]["y0"] = pairs[j]["x0"] * pairs[i]["y0"]
<1>1. PICK u \in [1..n -> Int], v \in [1..n -> Int] :
        u = Each(n, pairs, "x0") /\ v = Each(n, pairs, "y0")
  BY EachIsNumbers, Zenon
<1>2. \A k \in 1..n : u[k] = pairs[k]["x0"] /\ v[k] = pairs[k]["y0"] BY <1>1, Zenon DEF Each
<1> DEFINE m == LeastSquares(pairs)
<1>3. m.d = Dot(n, u, u) * Dot(n, v, v) - Dot(n, u, v) * Dot(n, v, u)
  <2>1. PICK A, B, C, D, d :
          /\ m = [m00 |-> A, m01 |-> B, m10 |-> C, m11 |-> D, d |-> d]
          /\ d = Dot(n, u, u) * Dot(n, v, v) - Dot(n, u, v) * Dot(n, v, u)
    BY <1>1, LeastSquaresAre, Zenon
  <2> HIDE DEF m
  <2>2. m.d = d BY <2>1
  <2> QED BY <2>1, <2>2, Zenon
<1>4. Dot(n, v, u) = Dot(n, u, v) BY DotIsNumber
<1>5. Dot(n, u, u) * Dot(n, v, v) - Dot(n, u, v) * Dot(n, u, v) = 0
  BY <1>3, <1>4, Zenon
<1>6. u[i] * v[j] = u[j] * v[i] BY <1>5, OnALine
<1> QED BY <1>2, <1>6, Zenon

\* The steps from spot i and from spot j to the next ones are not parallel.
Apart(pairs, i, j) ==
  (pairs[i + 1]["x0"] - pairs[i]["x0"]) * (pairs[j + 1]["y0"] - pairs[j]["y0"])
    # (pairs[j + 1]["x0"] - pairs[j]["x0"]) * (pairs[i + 1]["y0"] - pairs[i]["y0"])

\* Then the least squares around the centre have a solution.
LEMMA CentredSolvable ==
  ASSUME NEW n, NEW pairs, NEW e, NEW a, NEW b, NEW c, NEW f, NEW g, NEW h,
         AffineIn(n, pairs, e, a, b, c, f, g, h),
         NEW i \in 1..(n - 1), NEW j \in 1..(n - 1), Apart(pairs, i, j)
  PROVE  LeastSquares(Centred(pairs)).d # 0
<1> SUFFICES ASSUME LeastSquares(Centred(pairs)).d = 0 PROVE FALSE OBVIOUS
<1>0. Len(pairs) = n /\ RowFits(n, pairs, "x1", e, a, b, c) BY DEF AffineIn
<1>1. n \in Nat /\ n # 0 /\ InNumbers(n, pairs) BY <1>0 DEF RowFits
<1> DEFINE D == Centred(pairs)
           C == Centers(pairs)
<1>2. \A k, l \in 1..n : D[k]["x0"] * D[l]["y0"] = D[l]["x0"] * D[k]["y0"]
  BY <1>1, CentredLinear, NoDeterminant
<1>3. \A k \in 1..n : /\ D[k]["x0"] = n * pairs[k]["x0"] - C["x0"]
                      /\ D[k]["y0"] = n * pairs[k]["y0"] - C["y0"]
  BY <1>0, CentredFit
<1>4. PICK X \in Int, Y \in Int : X = C["x0"] /\ Y = C["y0"] BY <1>0, CentersFit
<1>5. /\ i \in 1..n /\ i + 1 \in 1..n /\ j \in 1..n /\ j + 1 \in 1..n BY <1>1
<1>6. PICK x \in Int, y \in Int, xx \in Int, yy \in Int,
           z \in Int, w \in Int, zz \in Int, ww \in Int :
        /\ x = pairs[i]["x0"] /\ y = pairs[i]["y0"]
        /\ xx = pairs[i + 1]["x0"] /\ yy = pairs[i + 1]["y0"]
        /\ z = pairs[j]["x0"] /\ w = pairs[j]["y0"]
        /\ zz = pairs[j + 1]["x0"] /\ ww = pairs[j + 1]["y0"]
  BY <1>1, <1>5 DEF InNumbers
<1> HIDE DEF D, C
<1>7. PICK A, B, AA, BB, G, H, GG, HH :
        /\ A = n * x - X /\ B = n * y - Y /\ AA = n * xx - X /\ BB = n * yy - Y
        /\ G = n * z - X /\ H = n * w - Y /\ GG = n * zz - X /\ HH = n * ww - Y
  BY Zenon
<1>8. A * H = G * B /\ A * HH = GG * B /\ AA * H = G * BB /\ AA * HH = GG * BB
  <2>1. /\ D[i]["x0"] = A /\ D[i]["y0"] = B
        /\ D[i + 1]["x0"] = AA /\ D[i + 1]["y0"] = BB
        /\ D[j]["x0"] = G /\ D[j]["y0"] = H
        /\ D[j + 1]["x0"] = GG /\ D[j + 1]["y0"] = HH
    BY <1>3, <1>4, <1>5, <1>6, <1>7, Zenon
  <2> QED BY <1>2, <1>5, <2>1, Zenon
<1>9. /\ A \in Int /\ B \in Int /\ AA \in Int /\ BB \in Int
      /\ G \in Int /\ H \in Int /\ GG \in Int /\ HH \in Int
  BY <1>1, <1>7, SMT
<1>10. (AA - A) * (HH - H) = (GG - G) * (BB - B)
  <2>1. (AA - A) * (HH - H) = AA * HH - AA * H - A * HH + A * H BY <1>9, SMT
  <2>2. GG * BB - G * BB - GG * B + G * B = (GG - G) * (BB - B) BY <1>9, SMT
  <2> QED BY <1>8, <2>1, <2>2, Zenon
<1> DEFINE s == (xx - x) * (ww - w) - (zz - z) * (yy - y)
<1>11. AA - A = n * (xx - x) /\ BB - B = n * (yy - y)
  BY <1>1, <1>7, SMT
<1>12. GG - G = n * (zz - z) /\ HH - H = n * (ww - w)
  BY <1>1, <1>7, SMT
<1>13. (n * (xx - x)) * (n * (ww - w)) = (n * (zz - z)) * (n * (yy - y))
  BY <1>10, <1>11, <1>12, Zenon
<1>14. (n * n) * s = (n * (xx - x)) * (n * (ww - w)) - (n * (zz - z)) * (n * (yy - y))
  BY <1>1, SMT
<1>15. (n * (zz - z)) * (n * (yy - y)) \in Int BY <1>1, SMT
<1>16. (n * n) * s = 0 BY <1>13, <1>14, <1>15
<1>17. /\ s \in Int /\ n * n \in Int
       /\ (xx - x) * (ww - w) \in Int /\ (zz - z) * (yy - y) \in Int
  BY <1>1, SMT
<1>18. s = 0
  <2> HIDE DEF s
  <2>1. n * n # 0 BY <1>1, NoZeroDivisor
  <2> QED BY <1>16, <1>17, <2>1, NoZeroDivisor
<1>19. (xx - x) * (ww - w) = (zz - z) * (yy - y) BY <1>17, <1>18
<1> QED BY <1>6, <1>19, Zenon DEF Apart

\* The steps from each of the first spots to the next.
Steps(pairs, k) == [i \in 1..k |-> Minus(pairs[i + 1], pairs[i])]

\* The difference of two pairs fits the transform without its offset.
LEMMA DifferenceFits ==
  ASSUME NEW n, NEW pairs, NEW z, NEW e, NEW a, NEW b, NEW c, RowFits(n, pairs, z, e, a, b, c),
         NEW i \in 1..n, NEW j \in 1..n
  PROVE  /\ pairs[i][z] - pairs[j][z] \in Int /\ pairs[i]["x0"] - pairs[j]["x0"] \in Int
         /\ pairs[i]["y0"] - pairs[j]["y0"] \in Int
         /\ e * (pairs[i][z] - pairs[j][z])
              = a * (pairs[i]["x0"] - pairs[j]["x0"]) + b * (pairs[i]["y0"] - pairs[j]["y0"])
<1>0. /\ n \in Nat \ {0} /\ z \in {"x1", "y1"} /\ InNumbers(n, pairs)
      /\ e \in Int /\ a \in Int /\ b \in Int /\ c \in Int
      /\ \A k \in 1..n : e * pairs[k][z] = a * pairs[k]["x0"] + b * pairs[k]["y0"] + c
  BY DEF RowFits
<1>1. PICK x \in Int, y \in Int, t \in Int, xx \in Int, yy \in Int, tt \in Int :
        /\ xx = pairs[i]["x0"] /\ yy = pairs[i]["y0"] /\ tt = pairs[i][z]
        /\ x = pairs[j]["x0"] /\ y = pairs[j]["y0"] /\ t = pairs[j][z]
  BY <1>0 DEF InNumbers
<1>2. e * tt = a * xx + b * yy + c /\ e * t = a * x + b * y + c BY <1>0, <1>1, Zenon
<1>3. e * (tt - t) = e * tt - e * t BY <1>0, SMT
<1>4. (a * xx + b * yy + c) - (a * x + b * y + c) = a * (xx - x) + b * (yy - y)
  BY <1>0, SMT
<1>5. e * (tt - t) = a * (xx - x) + b * (yy - y) BY <1>2, <1>3, <1>4, Zenon
<1>6. tt - t \in Int /\ xx - x \in Int /\ yy - y \in Int OBVIOUS
<1> QED BY <1>1, <1>5, <1>6, Zenon

\* The steps fit it, too.
LEMMA StepsLinear ==
  ASSUME NEW n, NEW pairs, NEW e, NEW a, NEW b, NEW c, NEW f, NEW g, NEW h,
         AffineIn(n, pairs, e, a, b, c, f, g, h), NEW k \in Nat, k < n
  PROVE  LET S == Steps(pairs, k)
         IN /\ InNumbers(k, S) /\ Linear(k, S, e, a, b, f, g)
            /\ \A i \in 1..k : /\ S[i]["x0"] = pairs[i + 1]["x0"] - pairs[i]["x0"]
                               /\ S[i]["y0"] = pairs[i + 1]["y0"] - pairs[i]["y0"]
<1>0. RowFits(n, pairs, "x1", e, a, b, c) /\ RowFits(n, pairs, "y1", e, f, g, h) BY DEF AffineIn
<1>1. /\ n \in Nat
      /\ e \in Int /\ a \in Int /\ b \in Int /\ f \in Int /\ g \in Int
  BY <1>0 DEF RowFits
<1> DEFINE S == Steps(pairs, k)
<1>2. ASSUME NEW i \in 1..k
      PROVE  /\ S[i]["x0"] = pairs[i + 1]["x0"] - pairs[i]["x0"]
             /\ S[i]["y0"] = pairs[i + 1]["y0"] - pairs[i]["y0"]
             /\ S[i]["x1"] = pairs[i + 1]["x1"] - pairs[i]["x1"]
             /\ S[i]["y1"] = pairs[i + 1]["y1"] - pairs[i]["y1"]
  <2>1. S[i] = Minus(pairs[i + 1], pairs[i]) BY DEF Steps
  <2>2. \A z \in Coordinates : S[i][z] = pairs[i + 1][z] - pairs[i][z] BY <2>1, Zenon DEF Minus
  <2> HIDE DEF S
  <2> QED BY <2>2 DEF Coordinates
<1>3. DOMAIN S = 1..k BY DEF Steps
<1> HIDE DEF S
<1>4. ASSUME NEW i \in 1..k
      PROVE  /\ S[i]["x0"] \in Int /\ S[i]["y0"] \in Int
             /\ S[i]["x1"] \in Int /\ S[i]["y1"] \in Int
             /\ e * S[i]["x1"] = a * S[i]["x0"] + b * S[i]["y0"]
             /\ e * S[i]["y1"] = f * S[i]["x0"] + g * S[i]["y0"]
  <2>1. PICK j \in 1..n : j = i + 1 BY <1>1
  <2>2. i \in 1..n BY <1>1
  <2>3. /\ pairs[j]["x1"] - pairs[i]["x1"] \in Int /\ pairs[j]["x0"] - pairs[i]["x0"] \in Int
        /\ pairs[j]["y0"] - pairs[i]["y0"] \in Int
        /\ e * (pairs[j]["x1"] - pairs[i]["x1"])
             = a * (pairs[j]["x0"] - pairs[i]["x0"]) + b * (pairs[j]["y0"] - pairs[i]["y0"])
    BY <1>0, <2>2, DifferenceFits
  <2>4. /\ pairs[j]["y1"] - pairs[i]["y1"] \in Int
        /\ e * (pairs[j]["y1"] - pairs[i]["y1"])
             = f * (pairs[j]["x0"] - pairs[i]["x0"]) + g * (pairs[j]["y0"] - pairs[i]["y0"])
    BY <1>0, <2>2, DifferenceFits
  <2> QED BY <1>2, <2>1, <2>3, <2>4, Zenon
<1>5. InNumbers(k, S) BY <1>3, <1>4 DEF InNumbers
<1>6. PICK x \in [1..k -> Int], y \in [1..k -> Int], t \in [1..k -> Int], u \in [1..k -> Int] :
        /\ x = Each(k, S, "x0") /\ y = Each(k, S, "y0")
        /\ t = Each(k, S, "x1") /\ u = Each(k, S, "y1")
  BY <1>5, EachIsNumbers, Zenon
<1>7. \A i \in 1..k : x[i] = S[i]["x0"] /\ y[i] = S[i]["y0"] /\ t[i] = S[i]["x1"]
                      /\ u[i] = S[i]["y1"]
  BY <1>6, Zenon DEF Each
<1>8. \A i \in 1..k : e * t[i] = a * x[i] + b * y[i] /\ e * u[i] = f * x[i] + g * y[i]
  BY <1>4, <1>7, Zenon
<1>9. Mixed(k, e, t, a, x, b, y) BY <1>1, <1>8, Zenon DEF Mixed
<1>10. Mixed(k, e, u, f, x, g, y) BY <1>1, <1>8, Zenon DEF Mixed
<1> QED BY <1>2, <1>5, <1>6, <1>9, <1>10, Zenon DEF Linear, S

\* Where two of the steps are not parallel, the sensitivity matrix takes every difference of
\* spots to that of their angles.
LEMMA SensitivityFits ==
  ASSUME NEW n, NEW pairs, NEW e, NEW a, NEW b, NEW c, NEW f, NEW g, NEW h,
         AffineIn(n, pairs, e, a, b, c, f, g, h), NEW k \in Nat, k < n,
         NEW i \in 1..k, NEW j \in 1..k, Apart(pairs, i, j),
         NEW p \in 1..n, NEW q \in 1..n
  PROVE  Is(TransformD(LeastSquares(Steps(pairs, k)),
                       pairs[p]["x0"] - pairs[q]["x0"], pairs[p]["y0"] - pairs[q]["y0"]),
            pairs[p]["x1"] - pairs[q]["x1"], pairs[p]["y1"] - pairs[q]["y1"])
<1>0. /\ e # 0
      /\ RowFits(n, pairs, "x1", e, a, b, c) /\ RowFits(n, pairs, "y1", e, f, g, h)
  BY DEF AffineIn
<1>1. /\ e \in Int /\ a \in Int /\ b \in Int /\ f \in Int /\ g \in Int
  BY <1>0 DEF RowFits
<1>2. PICK S : S = Steps(pairs, k) OBVIOUS
<1>3. /\ InNumbers(k, S) /\ Linear(k, S, e, a, b, f, g)
      /\ \A l \in 1..k : /\ S[l]["x0"] = pairs[l + 1]["x0"] - pairs[l]["x0"]
                         /\ S[l]["y0"] = pairs[l + 1]["y0"] - pairs[l]["y0"]
  BY <1>2, StepsLinear
<1> DEFINE m == LeastSquares(S)
<1>4. /\ m.m00 \in Int /\ m.m01 \in Int /\ m.m10 \in Int /\ m.m11 \in Int /\ m.d \in Int
      /\ e * m.m00 = a * m.d /\ e * m.m01 = b * m.d
      /\ e * m.m10 = f * m.d /\ e * m.m11 = g * m.d
  BY <1>3, LeastSquaresExact
<1>5. m.d # 0
  <2> SUFFICES ASSUME LeastSquares(S).d = 0 PROVE FALSE OBVIOUS
  <2>1. S[i]["x0"] * S[j]["y0"] = S[j]["x0"] * S[i]["y0"] BY <1>3, NoDeterminant
  <2> QED BY <1>3, <2>1, Zenon DEF Apart
<1>6. PICK x \in Int, y \in Int, t \in Int :
        /\ x = pairs[p]["x0"] - pairs[q]["x0"] /\ y = pairs[p]["y0"] - pairs[q]["y0"]
        /\ t = pairs[p]["x1"] - pairs[q]["x1"] /\ e * t = a * x + b * y
  BY <1>0, DifferenceFits
<1>7. PICK u \in Int :
        u = pairs[p]["y1"] - pairs[q]["y1"] /\ e * u = f * x + g * y
  BY <1>0, <1>6, DifferenceFits
<1> HIDE DEF m
<1>8. PICK A \in Int, B \in Int, F \in Int, G \in Int, d \in Int, one \in Int, zero \in Int :
        /\ A = m.m00 /\ B = m.m01 /\ F = m.m10 /\ G = m.m11 /\ d = m.d
        /\ one = 1 /\ zero = 0
  <2>1. 1 \in Int /\ 0 \in Int OBVIOUS
  <2> QED BY <1>4, <2>1, Zenon
<1>9. a * x + b * y + zero = a * x + b * y /\ f * x + g * y + zero = f * x + g * y
  BY <1>1, <1>8, SMT
<1>10. /\ e * zero = a * zero + b * zero + zero * one
       /\ e * zero = f * zero + g * zero + zero * one
  BY <1>1, <1>8, SMT
<1>11. Fitted(e, a, b, zero, one, d, A, B, x, y, t, zero, zero, zero)
  BY <1>0, <1>1, <1>4, <1>6, <1>8, <1>9, <1>10, Zenon DEF Fitted
<1>12. Fitted(e, f, g, zero, one, d, F, G, x, y, u, zero, zero, zero)
  BY <1>0, <1>1, <1>4, <1>7, <1>8, <1>9, <1>10, Zenon DEF Fitted
<1>13. one * (A * x + B * y) + (d * zero - A * zero - B * zero) = (one * d) * t
  BY <1>11, FittedTransform
<1>14. one * (F * x + G * y) + (d * zero - F * zero - G * zero) = (one * d) * u
  BY <1>12, FittedTransform
<1>15. A * x + B * y = d * t
  <2>1. one * (A * x + B * y) + (d * zero - A * zero - B * zero) = A * x + B * y
    BY <1>8, SMT
  <2>2. (one * d) * t = d * t BY <1>8, SMT
  <2> QED BY <1>13, <2>1, <2>2, Zenon
<1>16. F * x + G * y = d * u
  <2>1. one * (F * x + G * y) + (d * zero - F * zero - G * zero) = F * x + G * y
    BY <1>8, SMT
  <2>2. (one * d) * u = d * u BY <1>8, SMT
  <2> QED BY <1>14, <2>1, <2>2, Zenon
<1>17. TransformD(m, x, y) = [x |-> d * t, y |-> d * u, over |-> d]
  BY <1>8, <1>15, <1>16, Zenon DEF TransformD
<1>18. PICK R : R = TransformD(m, x, y) OBVIOUS
<1>19. R.x = d * t /\ R.y = d * u /\ R.over = d BY <1>17, <1>18
<1>20. Is(R, t, u) BY <1>5, <1>8, <1>19, Zenon DEF Is
<1> QED BY <1>2, <1>6, <1>7, <1>18, <1>20, Zenon DEF m

\* A part of the pairs is no more than all of them.
LEMMA PartIsSmaller ==
  ASSUME NEW n \in Nat, NEW q \in Nat \ {0}
  PROVE  n \div q \in Nat /\ n \div q <= n
<1>1. n = q * (n \div q) + (n % q) /\ n % q \in 0..(q - 1) /\ n \div q \in Int BY Euclid
<1>2. PICK d \in Int : d = n \div q BY <1>1
<1>3. PICK r \in 0..(q - 1) : r = n % q BY <1>1
<1>4. n = q * d + r BY <1>1, <1>2, <1>3, Zenon
<1>5. d >= 0
  <2> SUFFICES ASSUME d <= -1 PROVE FALSE BY <1>2
  <2>1. q * (-1 - d) >= 0 BY SMT
  <2>2. q * (-1 - d) = -q - q * d BY SMT
  <2>3. q * d \in Int BY SMT
  <2> QED BY <1>4, <2>1, <2>2, <2>3
<1>6. d <= n
  <2>1. (q - 1) * d >= 0 BY <1>5, SMT
  <2>2. (q - 1) * d = q * d - d BY SMT
  <2>3. q * d \in Int BY SMT
  <2> QED BY <1>4, <2>1, <2>2, <2>3
<1> QED BY <1>2, <1>5, <1>6

\* So the two transforms fit all pairs of an affine picture, if two of the steps that make
\* the sensitivity matrix are not parallel.
LEMMA TransformsOfAffine ==
  ASSUME NEW n, NEW pairs, NEW e, NEW a, NEW b, NEW c, NEW f, NEW g, NEW h,
         AffineIn(n, pairs, e, a, b, c, f, g, h),
         NEW i \in 1..((n \div SensitivityPart) - 1),
         NEW j \in 1..((n \div SensitivityPart) - 1), Apart(pairs, i, j)
  PROVE  TransformsFit(pairs)
<1>1. /\ n \in Nat \ {0} /\ DOMAIN pairs = 1..n /\ Len(pairs) = n
  BY DEF AffineIn, RowFits, InNumbers
<1>2. n \div SensitivityPart \in Nat /\ n \div SensitivityPart <= n
  BY <1>1, SensitivityPartAssumption, PartIsSmaller
<1>3. PICK k : k = (n \div SensitivityPart) - 1 OBVIOUS
<1>4. i \in 1..k /\ j \in 1..k BY <1>3, Zenon
<1>5. k \in Nat /\ k < n BY <1>1, <1>2, <1>3, <1>4
<1>6. i \in 1..(n - 1) /\ j \in 1..(n - 1) BY <1>1, <1>4, <1>5
<1>7. LeastSquares(Centred(pairs)).d # 0 BY <1>6, CentredSolvable
<1>8. \A p \in 1..n :
        Is(AffineTransform(AffineParameters(pairs), pairs[p]["x0"], pairs[p]["y0"]),
           pairs[p]["x1"], pairs[p]["y1"])
  BY <1>7, AffineFits
<1>9. \A p, q \in 1..n :
        Is(TransformD(LeastSquares(Steps(pairs, k)),
                      pairs[p]["x0"] - pairs[q]["x0"], pairs[p]["y0"] - pairs[q]["y0"]),
           pairs[p]["x1"] - pairs[q]["x1"], pairs[p]["y1"] - pairs[q]["y1"])
  BY <1>4, <1>5, SensitivityFits
<1>10. SensitivityMatrix(pairs) = LeastSquares(Steps(pairs, k))
  BY <1>1, <1>3, Zenon DEF SensitivityMatrix, Steps
<1>11. SUFFICES ASSUME NEW p \in 1..n, NEW q \in 1..n
       PROVE /\ Is(AffineTransform(AffineParameters(pairs), pairs[p].x0, pairs[p].y0),
                   pairs[p].x1, pairs[p].y1)
             /\ Is(TransformD(SensitivityMatrix(pairs), pairs[p].x0 - pairs[q].x0,
                               pairs[p].y0 - pairs[q].y0),
                   pairs[p].x1 - pairs[q].x1, pairs[p].y1 - pairs[q].y1)
  BY <1>1, Zenon DEF TransformsFit
<1> QED BY <1>8, <1>9, <1>10, Zenon

-------------------------------------------------------------------------------
(* The detector. *)

\* Where the spot is depends on the drive by an affine map that can be undone.
AffineDetector(X, Y, A, B, C, D) ==
  /\ X \in Int /\ Y \in Int
  /\ A \in Int /\ B \in Int /\ C \in Int /\ D \in Int
  /\ A * D # B * C
  /\ \A x, y \in Int : Detector(x, y) = <<X + A * x + B * y, Y + C * x + D * y>>

\* There is such a map: the laser, the mirror and the camera make one.
AffineOptics == \E X, Y, A, B, C, D : AffineDetector(X, Y, A, B, C, D)

\* The pairs are the laser's spots under a selection of the spiral's angles.
Paired(n, pick) ==
  /\ n \in Nat /\ pick \in Selections(n)
  /\ DOMAIN points = 1..n
  /\ \A i \in 1..n : /\ points[i].angles = Spiral[pick[i]]
                     /\ points[i].spot = LitAt(Volts(points[i].angles))

\* Where the spots of the pairs are.
LEMMA MeasuredAre ==
  ASSUME NEW X, NEW Y, NEW A, NEW B, NEW C, NEW D, AffineDetector(X, Y, A, B, C, D),
         NEW n, NEW pick, Paired(n, pick), NEW i \in 1..n
  PROVE  \E s \in Int, t \in Int :
           /\ s = Spiral[pick[i]][1] /\ t = Spiral[pick[i]][2]
           /\ Measured[i]["x0"] = X + A * (2 * s) + B * (2 * t)
           /\ Measured[i]["y0"] = Y + C * (2 * s) + D * (2 * t)
           /\ Measured[i]["x1"] = s /\ Measured[i]["y1"] = t
<1>1. pick[i] \in 1..Len(Spiral) BY DEF Paired, Selections
<1>2. Spiral[pick[i]] \in Int \X Int BY <1>1, CalibrationAssumption
<1>3. PICK s \in Int, t \in Int : Spiral[pick[i]] = <<s, t>> BY <1>2
<1>4. s = Spiral[pick[i]][1] /\ t = Spiral[pick[i]][2] BY <1>3
<1>5. points[i].angles = <<s, t>> /\ points[i].spot = LitAt(Volts(<<s, t>>))
  BY <1>3 DEF Paired
<1>6. PICK m : m = Volts(<<s, t>>) OBVIOUS
<1>7. points[i].spot.mirror = m BY <1>5, <1>6 DEF LitAt
<1>8. m = [XP |-> s, XM |-> -s, YP |-> t, YM |-> -t] BY <1>6 DEF Volts
<1>9. m.XP - m.XM = 2 * s /\ m.YP - m.YM = 2 * t BY <1>8
<1>10. 2 * s \in Int /\ 2 * t \in Int OBVIOUS
<1>11. Detector(2 * s, 2 * t)
         = <<X + A * (2 * s) + B * (2 * t), Y + C * (2 * s) + D * (2 * t)>>
  BY <1>10, Zenon DEF AffineDetector
<1>12. PICK u, v : u = X + A * (2 * s) + B * (2 * t) /\ v = Y + C * (2 * s) + D * (2 * t)
  BY Zenon
<1>13. Detector(m.XP - m.XM, m.YP - m.YM) = <<u, v>> BY <1>9, <1>11, <1>12, Zenon
<1>14. <<u, v>>[1] = u /\ <<u, v>>[2] = v /\ <<s, t>>[1] = s /\ <<s, t>>[2] = t OBVIOUS
<1>15. i \in DOMAIN points BY DEF Paired
<1>16. Measured[i] = [x0 |-> u, y0 |-> v, x1 |-> s, y1 |-> t]
  BY <1>5, <1>7, <1>13, <1>14, <1>15, Zenon DEF Measured
<1>17. PICK r : r = Measured[i] OBVIOUS
<1>18. r["x0"] = u /\ r["y0"] = v /\ r["x1"] = s /\ r["y1"] = t BY <1>16, <1>17
<1> QED BY <1>4, <1>12, <1>17, <1>18, Zenon

\* So the angles are an affine map of the spots, which undoes the detector's.
LEMMA MeasuredAffine ==
  ASSUME NEW X, NEW Y, NEW A, NEW B, NEW C, NEW D, AffineDetector(X, Y, A, B, C, D),
         NEW n, NEW pick, Paired(n, pick), n # 0
  PROVE  \E e, a, b, c, f, g, h : AffineIn(n, Measured, e, a, b, c, f, g, h)
<1>0. /\ X \in Int /\ Y \in Int
      /\ A \in Int /\ B \in Int /\ C \in Int /\ D \in Int
      /\ A * D # B * C
  BY DEF AffineDetector
<1>1. PICK e \in Int, a \in Int, b \in Int, c \in Int, f \in Int, g \in Int, h \in Int :
        /\ e = 2 * (A * D - B * C) /\ a = D /\ b = -B /\ c = B * Y - D * X
        /\ f = -C /\ g = A /\ h = C * X - A * Y
  <2>1. 2 * (A * D - B * C) \in Int BY <1>0, SMT
  <2>2. B * Y - D * X \in Int /\ C * X - A * Y \in Int /\ -B \in Int /\ -C \in Int
    BY <1>0, SMT
  <2> QED BY <1>0, <2>1, <2>2
<1>2. e # 0
  <2>1. A * D \in Int /\ B * C \in Int BY <1>0, SMT
  <2> QED BY <1>0, <1>1, <2>1
<1>3. n \in Nat \ {0} /\ DOMAIN Measured = 1..n BY DEF Paired, Measured
<1>4. Len(Measured) = n
  <2> DEFINE M == Measured
             S == {M[i] : i \in 1..n}
  <2>1. M = [i \in 1..n |-> M[i]] BY <1>3 DEF Measured
  <2> HIDE DEF M
  <2>2. M \in [1..n -> S] BY <2>1
  <2> HIDE DEF S
  <2>3. M \in Seq(S) BY <1>3, <2>2
  <2> QED BY <1>3, <2>3 DEF M
<1>5. ASSUME NEW i \in 1..n
      PROVE  /\ Measured[i]["x0"] \in Int /\ Measured[i]["y0"] \in Int
             /\ Measured[i]["x1"] \in Int /\ Measured[i]["y1"] \in Int
             /\ e * Measured[i]["x1"] = a * Measured[i]["x0"] + b * Measured[i]["y0"] + c
             /\ e * Measured[i]["y1"] = f * Measured[i]["x0"] + g * Measured[i]["y0"] + h
  <2>1. PICK s \in Int, t \in Int :
          /\ Measured[i]["x0"] = X + A * (2 * s) + B * (2 * t)
          /\ Measured[i]["y0"] = Y + C * (2 * s) + D * (2 * t)
          /\ Measured[i]["x1"] = s /\ Measured[i]["y1"] = t
    BY MeasuredAre
  <2>2. PICK x, y : /\ x = X + A * (2 * s) + B * (2 * t)
                    /\ y = Y + C * (2 * s) + D * (2 * t)
    BY Zenon
  <2>3. x \in Int /\ y \in Int BY <1>0, <2>2, SMT
  <2>4. (2 * (A * D - B * C)) * s
          = D * (X + A * (2 * s) + B * (2 * t)) + (-B) * (Y + C * (2 * s) + D * (2 * t))
              + (B * Y - D * X)
    BY <1>0, SMT
  <2>5. (2 * (A * D - B * C)) * t
          = (-C) * (X + A * (2 * s) + B * (2 * t)) + A * (Y + C * (2 * s) + D * (2 * t))
              + (C * X - A * Y)
    BY <1>0, SMT
  <2>6. e * s = a * x + b * y + c BY <1>1, <2>2, <2>4, Zenon
  <2>7. e * t = f * x + g * y + h BY <1>1, <2>2, <2>5, Zenon
  <2> QED BY <2>1, <2>2, <2>3, <2>6, <2>7, Zenon
<1>6. InNumbers(n, Measured) BY <1>3, <1>5 DEF InNumbers
<1>7. "x1" \in {"x1", "y1"} /\ "y1" \in {"x1", "y1"} OBVIOUS
<1>8. RowFits(n, Measured, "x1", e, a, b, c) BY <1>3, <1>5, <1>6, <1>7, Zenon DEF RowFits
<1>9. RowFits(n, Measured, "y1", e, f, g, h) BY <1>3, <1>5, <1>6, <1>7, Zenon DEF RowFits
<1>10. AffineIn(n, Measured, e, a, b, c, f, g, h)
  BY <1>2, <1>4, <1>8, <1>9, Zenon DEF AffineIn
<1> QED BY <1>10, Zenon

\* Where the spiral turns, so do the spots.
LEMMA MeasuredTurn ==
  ASSUME NEW X, NEW Y, NEW A, NEW B, NEW C, NEW D, AffineDetector(X, Y, A, B, C, D),
         NEW n, NEW pick, Paired(n, pick),
         NEW i \in 1..(n - 1), NEW j \in 1..(n - 1), Turning(pick, i, j)
  PROVE  Apart(Measured, i, j)
<1>0. /\ X \in Int /\ Y \in Int
      /\ A \in Int /\ B \in Int /\ C \in Int /\ D \in Int
      /\ A * D # B * C
  BY DEF AffineDetector
<1>1. PICK k, l : k = i + 1 /\ l = j + 1 OBVIOUS
<1>2. n \in Nat BY DEF Paired
<1>3. i \in 1..n /\ j \in 1..n /\ k \in 1..n /\ l \in 1..n BY <1>1, <1>2
<1> DEFINE At(p, s, t) ==
             /\ s = Spiral[pick[p]][1] /\ t = Spiral[pick[p]][2]
             /\ Measured[p]["x0"] = X + A * (2 * s) + B * (2 * t)
             /\ Measured[p]["y0"] = Y + C * (2 * s) + D * (2 * t)
<1>4. \A p \in 1..n : \E s \in Int, t \in Int : At(p, s, t) BY MeasuredAre
<1> HIDE DEF At
<1>5. PICK q \in Int, r \in Int : At(i, q, r) BY <1>3, <1>4
<1>6. PICK s \in Int, t \in Int : At(k, s, t) BY <1>3, <1>4
<1>7. PICK u \in Int, v \in Int : At(j, u, v) BY <1>3, <1>4
<1>8. PICK w \in Int, z \in Int : At(l, w, z) BY <1>3, <1>4
<1>9. (s - q) * (z - v) # (w - u) * (t - r)
  BY <1>1, <1>5, <1>6, <1>7, <1>8, Zenon DEF At, Turning
<1> DEFINE x(a, b) == X + A * (2 * a) + B * (2 * b)
           y(a, b) == Y + C * (2 * a) + D * (2 * b)
           cross == (s - q) * (z - v) - (w - u) * (t - r)
           det == A * D - B * C
<1>10. (x(s, t) - x(q, r)) * (y(w, z) - y(u, v)) - (x(w, z) - x(u, v)) * (y(s, t) - y(q, r))
         = 4 * (det * cross)
  <2> DEFINE dx == s - q
             dy == t - r
             ex == w - u
             ey == z - v
  <2>1. x(s, t) - x(q, r) = 2 * (A * dx + B * dy) BY <1>0, SMT
  <2>2. y(s, t) - y(q, r) = 2 * (C * dx + D * dy) BY <1>0, SMT
  <2>3. x(w, z) - x(u, v) = 2 * (A * ex + B * ey) BY <1>0, SMT
  <2>4. y(w, z) - y(u, v) = 2 * (C * ex + D * ey) BY <1>0, SMT
  <2>5. dx \in Int /\ dy \in Int /\ ex \in Int /\ ey \in Int OBVIOUS
  <2>6. cross = dx * ey - ex * dy OBVIOUS
  <2> HIDE DEF dx, dy, ex, ey, x, y, cross
  <2>7. (2 * (A * dx + B * dy)) * (2 * (C * ex + D * ey))
          - (2 * (A * ex + B * ey)) * (2 * (C * dx + D * dy))
        = 4 * ((A * D - B * C) * (dx * ey - ex * dy))
    BY <1>0, <2>5, SMT
  <2> QED BY <2>1, <2>2, <2>3, <2>4, <2>6, <2>7, Zenon
<1>11. det \in Int /\ det # 0
  <2>1. A * D \in Int /\ B * C \in Int BY <1>0, SMT
  <2> QED BY <1>0, <2>1
<1>12. cross \in Int /\ cross # 0
  <2>1. (s - q) * (z - v) \in Int /\ (w - u) * (t - r) \in Int BY SMT
  <2> QED BY <1>9, <2>1
<1>13. PICK P \in Int, Q \in Int, R \in Int, T \in Int :
         /\ P = x(s, t) - x(q, r) /\ Q = y(w, z) - y(u, v)
         /\ R = x(w, z) - x(u, v) /\ T = y(s, t) - y(q, r)
  <2>1. \A a, b \in Int : x(a, b) \in Int /\ y(a, b) \in Int
    <3> TAKE a \in Int, b \in Int
    <3> QED BY <1>0, SMT
  <2> HIDE DEF x, y
  <2>2. /\ x(s, t) \in Int /\ x(q, r) \in Int /\ x(w, z) \in Int /\ x(u, v) \in Int
        /\ y(s, t) \in Int /\ y(q, r) \in Int /\ y(w, z) \in Int /\ y(u, v) \in Int
    BY <2>1
  <2> QED BY <2>2
<1>14. /\ Measured[k]["x0"] - Measured[i]["x0"] = P /\ Measured[l]["y0"] - Measured[j]["y0"] = Q
       /\ Measured[l]["x0"] - Measured[j]["x0"] = R /\ Measured[k]["y0"] - Measured[i]["y0"] = T
  BY <1>5, <1>6, <1>7, <1>8, <1>13, Zenon DEF At
<1>15. P * Q # R * T
  <2> SUFFICES ASSUME P * Q = R * T PROVE FALSE OBVIOUS
  <2>1. P * Q - R * T = 4 * (det * cross) BY <1>10, <1>13, Zenon
  <2> HIDE DEF det, cross
  <2>2. P * Q \in Int /\ R * T \in Int /\ det * cross \in Int BY <1>11, <1>12, SMT
  <2>3. PICK a \in Int, b \in Int, c \in Int : a = P * Q /\ b = R * T /\ c = det * cross
    BY <2>2
  <2>4. a = b /\ a - b = 4 * c BY <2>1, <2>3, Zenon
  <2>5. c = 0 BY <2>4
  <2> QED BY <1>11, <1>12, <2>3, <2>5, NoZeroDivisor
<1> QED BY <1>1, <1>14, <1>15, Zenon DEF Apart

\* A selection has no more angles than the spiral: each is at least as far in the spiral.
LEMMA SelectionIsShort ==
  ASSUME NEW n \in Nat, NEW pick \in Selections(n)
  PROVE  n <= Len(Spiral)
<1>1. /\ pick \in [1..n -> 1..Len(Spiral)]
      /\ \A i, j \in 1..n : i < j => pick[i] < pick[j]
  BY DEF Selections
<1>2. Len(Spiral) \in Nat BY CalibrationAssumption
<1> DEFINE Bad == {i \in 1..n : pick[i] < i}
<1>3. Bad = {}
  <2> SUFFICES ASSUME Bad # {} PROVE FALSE OBVIOUS
  <2>1. Bad \in SUBSET Nat OBVIOUS
  <2>2. PICK m \in Bad : \A k \in Bad : m <= k BY <2>1, LeastNumber
  <2>3. m \in 1..n /\ pick[m] < m /\ pick[m] \in 1..Len(Spiral) BY <1>1, <2>2
  <2>4. m - 1 \in 1..n BY <1>2, <2>3
  <2>5. m - 1 \notin Bad BY <2>2, <2>3
  <2>6. pick[m - 1] \in 1..Len(Spiral) /\ ~(pick[m - 1] < m - 1) BY <1>1, <2>4, <2>5
  <2>7. pick[m - 1] < pick[m] BY <1>1, <2>3, <2>4
  <2> QED BY <1>2, <2>3, <2>6, <2>7
<1>4. CASE n = 0 BY <1>2, <1>4
<1>5. CASE n # 0
  <2>1. n \in 1..n BY <1>5
  <2>2. pick[n] \in 1..Len(Spiral) /\ ~(pick[n] < n) BY <1>1, <1>3, <2>1
  <2> QED BY <1>2, <2>2
<1> QED BY <1>4, <1>5

\* So what a run computes from its pairs fits them.
LEMMA PairedFit ==
  ASSUME NEW X, NEW Y, NEW A, NEW B, NEW C, NEW D, AffineDetector(X, Y, A, B, C, D),
         Determined, NEW n, NEW pick, Paired(n, pick), n >= MinPairs
  PROVE  TransformsFit(Measured)
<1>1. n \in Nat /\ pick \in Selections(n) BY DEF Paired
<1>2. PICK i \in 1..((n \div SensitivityPart) - 1),
           j \in 1..((n \div SensitivityPart) - 1) : Turning(pick, i, j)
  <2>1. n <= Len(Spiral) BY <1>1, SelectionIsShort
  <2>2. n \in MinPairs..Len(Spiral) BY <1>1, <2>1, CalibrationAssumption
  <2> QED BY <1>1, <2>2, Zenon DEF Determined
<1>3. n \div SensitivityPart \in Nat /\ n \div SensitivityPart <= n
  BY <1>1, SensitivityPartAssumption, PartIsSmaller
<1>4. i \in 1..(n - 1) /\ j \in 1..(n - 1) /\ n # 0 BY <1>1, <1>3
<1>5. Apart(Measured, i, j) BY <1>2, <1>4, MeasuredTurn
<1>6. PICK e, a, b, c, f, g, h : AffineIn(n, Measured, e, a, b, c, f, g, h)
  BY <1>4, MeasuredAffine
<1> QED BY <1>5, <1>6, TransformsOfAffine

\* For every spiral whose first angles are never on a line, every optics that takes angles to
\* the detector by an affine map, every number of pairs wanted and every way pictures and
\* commands may go wrong: a run that succeeds has sound pairs, and unless something went
\* wrong on the way the affine transform and the sensitivity matrix it computes from them
\* are defined and take every spot, and every difference of spots, to its angles (run,
\* calculateAffineParameters, calculateSensitivityMatrix).
THEOREM CalibrationFits ==
  ASSUME Determined, AffineOptics
  PROVE  Spec => CalibrationSound
<1>1. Init => RunKnown BY DEF Init, CalInit, RunKnown
<1>2. RunKnown /\ [Next]_vars => RunKnown' BY RunStep
<1>3. ASSUME RunKnown, [Next]_vars
      PROVE  [RunSucceeds /\ ~troubled => TransformsFit(Measured)
             ]_<<calVars, cameraVars, mirrorVars>>
  <2> SUFFICES ASSUME Next, RunSucceeds, ~troubled PROVE TransformsFit(Measured)
    BY <1>3 DEF vars
  <2>1. task = "calibrate" /\ task' = "none" /\ calibrated' BY DEF RunSucceeds
  <2>2. IsSeq(points) /\ Selected /\ Untroubled BY <1>3, <2>1 DEF RunKnown
  <2>3. Len(points) >= MinPairs BY <1>3, <2>1, SuccessHasPairs
  <2>4. PICK n \in Nat : n = Len(points) BY <2>2, Emptied
  <2>5. DOMAIN points = 1..n BY <2>2, <2>4 DEF IsSeq
  <2>6. PICK pick \in Selections(n) : \A i \in 1..n : points[i].angles = Spiral[pick[i]]
    BY <2>2, <2>4 DEF Selected
  <2>7. \A i \in 1..n : points[i].spot = LitAt(Volts(points[i].angles))
    BY <2>2, <2>4 DEF Untroubled
  <2>8. Paired(n, pick) BY <2>5, <2>6, <2>7, Zenon DEF Paired
  <2>9. PICK X, Y, A, B, C, D : AffineDetector(X, Y, A, B, C, D) BY DEF AffineOptics
  <2>10. n >= MinPairs BY <2>3, <2>4, Zenon
  <2> QED BY <2>8, <2>9, <2>10, PairedFit
<1> QED BY <1>1, <1>2, <1>3, PairsAreSound, PTL DEF Spec, CalibrationSound

-------------------------------------------------------------------------------
(* Exposure and mirror. *)

\* controlExposure keeps an exposure between its limits, and as long as the lower limit
\* is no smaller than the divider, it never sticks at an exposure outside the tolerance
\* unless at a limit.
THEOREM ExposureControlled ==
  ASSUME NEW difference \in Int, NEW tolerance \in Nat, NEW divider \in Nat \ {0},
         NEW min \in Nat, NEW max \in Nat, min <= max,
         NEW exposure \in min..max
  PROVE  LET next == ControlExposure(difference, tolerance, exposure, divider, min, max)
         IN /\ next \in min..max
            /\ divider <= min /\ difference > tolerance => next < exposure \/ exposure = min
            /\ divider <= min /\ -difference > tolerance => next > exposure \/ exposure = max
<1> DEFINE step == exposure \div divider
<1>1. step \in Nat /\ step <= exposure
  OBVIOUS
<1>2. divider <= exposure => step >= 1
  OBVIOUS
<1> HIDE DEF step
<1> QED BY <1>1, <1>2, SMT DEF ControlExposure, Lowered, Raised, AtLeast, AtMost, Abs, step

\* control: the commanded angle stays within the mirror's range, a step up is no larger
\* than CALIB_FSM_MAX_DELTA, and a step down is no larger than the error makes it.
THEOREM ActionWithinRange ==
  ASSUME NEW one \in Nat \ {0}, NEW action \in -one..one, NEW error \in Int,
         NEW maxDelta \in Nat
  PROVE  LET next == Action(action, Delta(error, maxDelta), one)
         IN /\ next \in -one..one
            /\ next - action <= maxDelta
            /\ action - next <= AtLeast(-error, 0)
BY SMT DEF Action, Delta, AtMost, AtLeast, Abs
===============================================================================
