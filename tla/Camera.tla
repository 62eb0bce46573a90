--------------------------------- MODULE Camera ---------------------------------
(***************************************************************************)
(* pat/camera.cpp: pictures on demand from the BlueFOX camera.              *)
(*                                                                          *)
(* requestFrame queues a request with the driver, waitForFrame takes the    *)
(* oldest one that is done.  A wait gives up after CAMERA_MAX_WAIT, but its *)
(* request stays with the driver and is answered to a later wait.           *)
(* PAT's one thread requests and waits in one go, so the two, with the      *)
(* Image that copies the picture and unlocks the request, are one step.     *)
(*                                                                          *)
(* The driver is external: it has MaxRequests requests, answers them in     *)
(* order, and a picture shows what there was when it was requested.         *)
(***************************************************************************)
EXTENDS Integers, Sequences

CONSTANTS
  MaxRequests,   \* requests the driver can hold
  MaxFaults      \* bound on pictures late or bad and on failed mirror writes

ASSUME CameraAssumption == MaxRequests \in Nat \ {0} /\ MaxFaults \in Nat

VARIABLES
  outstanding,   \* the scenes the driver has still to deliver, oldest first
  queuedCount,
  frameId,       \* the number of the request that was delivered last
  own,           \* the last picture used since the queue was last cleared was the one
                 \* requested for it (history)
  stray,         \* a wait has timed out since the queue was last cleared (history)
  doubles,       \* requests unlocked twice (history)
  faults         \* faults so far

cameraVars == <<outstanding, queuedCount, frameId, own, stray, doubles, faults>>

CameraInit ==
  /\ outstanding = <<>> /\ queuedCount = 0 /\ frameId = 0
  /\ own = TRUE /\ stray = FALSE /\ doubles = 0 /\ faults = 0

Fault == faults < MaxFaults /\ faults' = faults + 1

\* imageRequestSingle is refused when the driver has no request left; no caller
\* looks at what requestFrame returns.
Requested(scene) ==
  IF Len(outstanding) < MaxRequests THEN Append(outstanding, scene) ELSE outstanding

\* What the next wait delivers.
Had(scene) == Head(Requested(scene))

\* Request numbers come round.
Delivered(got) ==
  frameId' = IF got = "late" THEN frameId ELSE (frameId + 1) % MaxRequests

UncountedShot(scene, got) ==  \* faulty: a late request is taken for lost
  LET q == Requested(scene)
  IN /\ outstanding' = IF got = "late" THEN q ELSE Tail(q)
     /\ queuedCount' = queuedCount
     /\ Delivered(got)
     /\ own' = IF got = "frame" THEN Len(q) = 1 ELSE own
     /\ stray' = (stray \/ got = "late")
     /\ UNCHANGED doubles
     /\ IF got = "frame" THEN UNCHANGED faults ELSE Fault

\* requestFrame, waitForFrame, Image::Image.  A bad picture is unlocked by
\* waitForFrame, a good one by Image.
Shot(scene, got) ==
  LET q == Requested(scene)
      n == queuedCount + Len(q) - Len(outstanding)
  IN /\ outstanding' = IF got = "late" THEN q ELSE Tail(q)
     /\ queuedCount' = IF got = "late" THEN n ELSE n - 1
     /\ Delivered(got)
     /\ own' = IF got = "frame" THEN Len(q) = 1 ELSE own
     /\ stray' = (stray \/ got = "late")
     /\ UNCHANGED doubles
     /\ IF got = "frame" THEN UNCHANGED faults ELSE Fault

\* One pass of ignoreNextFrames: waitForFrame has unlocked a bad picture already.
\* When the driver has nothing, the wait fails.
SkipFrame(got) ==
  /\ outstanding = <<>> => got = "late"
  /\ outstanding' = IF got = "late" THEN outstanding ELSE Tail(outstanding)
  /\ queuedCount' = queuedCount - (CASE got = "late" -> 0 [] got = "frame" -> 1 [] got = "bad" -> 2)
  /\ doubles' = IF got = "bad" THEN doubles + 1 ELSE doubles
  /\ Delivered(got)
  /\ stray' = (stray \/ got = "late")
  /\ IF got = "frame" \/ outstanding = <<>> THEN UNCHANGED faults ELSE Fault
  /\ UNCHANGED own

-------------------------------------------------------------------------------
\* A picture that is judged is the one requested for the purpose, with the laser and
\* the mirror as they are now, unless a wait has timed out since the queue was last
\* cleared or a request was unlocked twice (waitForFrame, ignoreNextFrames).
OwnFrame == own \/ stray \/ doubles > 0

\* queuedCount, which says how many old pictures to skip, is the driver's backlog, but
\* for the requests unlocked twice (requestFrame, unlockRequest).
BacklogCounted == queuedCount + doubles = Len(outstanding)
===============================================================================
