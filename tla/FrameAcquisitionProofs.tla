----------------------- MODULE FrameAcquisitionProofs -----------------------
(***************************************************************************)
(* Theorems about FrameAcquisition, for any number of cameras, lights and  *)
(* jobs and any threshold.                                                 *)
(***************************************************************************)
EXTENDS FrameAcquisition, FiniteSets, FiniteSetTheorems, TLAPS

-----------------------------------------------------------------------------
(***************************************************************************)
(* The failure path.                                                       *)
(***************************************************************************)
\* No camera has failed more often since it was last started than jobs have
\* failed since the devices were last reset or a bundle was complete.
StreaksCounted == \A c \in Cameras : unrestarted[c] <= consecutive

Clean == \A c \in Cameras : camera[c].flight = {} /\ camera[c].buffer = {}

\* A restarted camera is in one of two states.
LEMMA RestartsTyped ==
  ASSUME NEW s \in Restarts
  PROVE  s \in CameraStates /\ s.flight = {} /\ s.buffer = {}
<1>1. PICK up \in BOOLEAN : s = [grabbing |-> up, flight |-> {}, buffer |-> {}]
  BY DEF Restarts, Started
<1>2. {} \in SUBSET Frames
  OBVIOUS
<1> QED BY <1>1, <1>2 DEF CameraStates

\* What a drain leaves of a camera.
LEMMA DrainedTyped ==
  ASSUME NEW cam \in CameraStates, NEW s \in Drained(cam)
  PROVE  /\ s \in CameraStates /\ s.buffer = {}
         /\ DrainSettles => s.flight = {}
<1>1. PICK rest \in SUBSET cam.flight :
         /\ s = [cam EXCEPT !.buffer = {}, !.flight = rest]
         /\ DrainSettles => rest = {}
  BY DrainAssumption DEF Drained
<1>2. /\ cam.flight \subseteq Frames
      /\ cam.grabbing \in BOOLEAN
      /\ cam = [grabbing |-> cam.grabbing, flight |-> cam.flight, buffer |-> cam.buffer]
  BY DEF CameraStates
<1>3. s = [grabbing |-> cam.grabbing, flight |-> rest, buffer |-> {}]
  BY <1>1, <1>2
<1> QED BY <1>1, <1>2, <1>3 DEF CameraStates

\* The counters stay below the threshold.
LEMMA CountFailureTyped ==
  ASSUME NEW n \in 0 .. MaxFailures - 1
  PROVE  /\ CountFailure(n) \in 0 .. MaxFailures - 1
         /\ CountFailure(n) # 0 => CountFailure(n) = n + 1
BY MaxFailuresAssumption DEF CountFailure

\* A job that fails leaves typed variables, counted streaks and, if drains
\* settle, no frame behind.
LEMMA FailJobKeeps ==
  ASSUME TypeOK, StreaksCounted,
         NEW cams \in [Cameras -> CameraStates], NEW result \in Outcomes \ {"Bundle"},
         NEW failed \in SUBSET Cameras, NEW passed \in SUBSET Cameras,
         NEW twice \in BOOLEAN,
         FailJob(result, cams, failed, passed, twice)
  PROVE  /\ TypeOK' /\ StreaksCounted'
         /\ pc' = "idle" /\ outcome' # "Bundle"
         /\ DrainSettles => Clean'
<1> DEFINE restarted == {c \in failed : CountFailure(cameraFailures[c]) = 0}
           once == CountFailure(consecutive)
           count == IF twice THEN CountFailure(once) ELSE once
           reset == once = 0 \/ count = 0
           After(c) == IF c \in restarted THEN Restarts ELSE Drained(cams[c])
<1>0. /\ pc' = "idle" /\ outcome' = result /\ consecutive' = count
      /\ failedJobs' = failedJobs + 1
      /\ UNCHANGED <<seat, light, waits, frames, lossy>>
  BY DEF FailJob, EndJob
<1>1. once \in 0 .. MaxFailures - 1 /\ count \in 0 .. MaxFailures - 1
  BY CountFailureTyped DEF TypeOK
<1>2. cameraFailures' \in [Cameras -> 0 .. MaxFailures - 1]
  <2>1. cameraFailures' = [c \in Cameras |->
                             IF c \in failed THEN CountFailure(cameraFailures[c])
                             ELSE IF c \in passed THEN 0 ELSE cameraFailures[c]]
    BY DEF FailJob
  <2>2. \A c \in Cameras : CountFailure(cameraFailures[c]) \in 0 .. MaxFailures - 1
    BY CountFailureTyped DEF TypeOK
  <2> QED BY <2>1, <2>2, MaxFailuresAssumption DEF TypeOK
<1>3. /\ camera' \in [Cameras -> CameraStates] /\ ready' \in BOOLEAN
      /\ DrainSettles => Clean'
  <2>1. CASE reset
    <3>1. ready' = FALSE /\ camera' = [c \in Cameras |-> Started(FALSE)]
      BY <2>1 DEF FailJob, ResetDevices
    <3>2. Started(FALSE) \in Restarts
      BY DEF Restarts
    <3> QED BY <3>1, <3>2, RestartsTyped DEF Clean
  <2>2. CASE ~reset
    <3>1. /\ ready' = ready
          /\ camera' \in {next \in [Cameras -> UNION {After(c) : c \in Cameras}] :
                            \A c \in Cameras : next[c] \in After(c)}
      BY <2>2 DEF FailJob
    <3>2. \A c \in Cameras : camera'[c] \in After(c)
      BY <3>1
    <3>3. DOMAIN camera' = Cameras /\ camera' = [c \in Cameras |-> camera'[c]]
      BY <3>1
    <3>4. ASSUME NEW c \in Cameras
          PROVE  /\ camera'[c] \in CameraStates /\ camera'[c].buffer = {}
                 /\ DrainSettles => camera'[c].flight = {}
      <4>1. CASE c \in restarted
        BY <3>2, <4>1, RestartsTyped
      <4>2. CASE c \notin restarted
        <5>1. cams[c] \in CameraStates /\ camera'[c] \in Drained(cams[c])
          BY <3>2, <4>2
        <5> QED BY <5>1, DrainedTyped
      <4> QED BY <4>1, <4>2
    <3> QED BY <3>1, <3>3, <3>4 DEF Clean, TypeOK
  <2> QED BY <2>1, <2>2
<1>4. unrestarted' \in [Cameras -> Nat] /\ StreaksCounted'
  <2>1. unrestarted' = [c \in Cameras |->
                          IF reset \/ c \in restarted THEN 0
                          ELSE IF c \in failed THEN unrestarted[c] + 1
                          ELSE unrestarted[c]]
    BY DEF FailJob
  <2>2. ~reset => count >= consecutive + 1
    <3>1. ~reset => once = consecutive + 1 /\ (twice => count = once + 1)
      BY <1>1, CountFailureTyped DEF TypeOK
    <3> QED BY <3>1 DEF TypeOK
  <2>3. \A c \in Cameras : unrestarted[c] \in Nat /\ unrestarted[c] <= consecutive
    BY DEF StreaksCounted, TypeOK
  <2> HIDE DEF restarted, reset, count
  <2>4. count \in Nat /\ consecutive \in Nat
    BY <1>1, MaxFailuresAssumption DEF TypeOK
  <2>5. ASSUME NEW c \in Cameras
        PROVE  unrestarted'[c] \in Nat /\ unrestarted'[c] <= count
    BY <2>1, <2>2, <2>3, <2>4
  <2> QED BY <2>1, <2>5, <1>0 DEF StreaksCounted
<1> QED
  BY <1>0, <1>1, <1>2, <1>3, <1>4 DEF TypeOK

-----------------------------------------------------------------------------
(***************************************************************************)
(* Type correctness and restarts.                                          *)
(***************************************************************************)
CountedInv == TypeOK /\ StreaksCounted

LEMMA InitCounted == Init => CountedInv
<1> SUFFICES ASSUME Init PROVE CountedInv
  OBVIOUS
<1>1. Started(FALSE) \in CameraStates
  BY RestartsTyped DEF Restarts
<1>2. [c \in Cameras |-> [l \in LightSteps |-> NoFrame]]
        \in [Cameras -> [LightSteps -> Frames \cup {NoFrame}]]
  OBVIOUS
<1>3. 1 \in LightSteps /\ 0 \in 0 .. MaxFailures - 1
  BY LightsAssumption, MaxFailuresAssumption DEF LightSteps
<1>4. camera \in [Cameras -> CameraStates]
  BY <1>1 DEF Init
<1>5. frames \in [Cameras -> [LightSteps -> Frames \cup {NoFrame}]]
  BY <1>2 DEF Init
<1>6. StreaksCounted
  <2>1. consecutive = 0 /\ \A c \in Cameras : unrestarted[c] = 0
    BY DEF Init
  <2>2. 0 <= 0
    OBVIOUS
  <2> QED BY <2>1, <2>2, Zenon DEF StreaksCounted
<1>7. TypeOK
  BY <1>3, <1>4, <1>5 DEF Init, TypeOK, Outcomes
<1> QED BY <1>6, <1>7 DEF CountedInv

\* Firing a light leaves the cameras typed.
LEMMA ExposedTyped ==
  ASSUME TypeOK
  PROVE  Exposed \in [Cameras -> CameraStates]
<1>1. [seat |-> seat, light |-> light] \in Frames
  BY DEF TypeOK, Frames
<1>2. ASSUME NEW c \in Cameras
      PROVE  [camera[c] EXCEPT !.flight = @ \cup {[seat |-> seat, light |-> light]}]
               \in CameraStates
  <2>1. camera[c] \in CameraStates
    BY DEF TypeOK
  <2> QED BY <1>1, <2>1 DEF CameraStates
<1> QED BY <1>2 DEF Exposed

\* A camera with other frames is still a camera.
LEMMA FramesChanged ==
  ASSUME NEW cam \in CameraStates, NEW flight \in SUBSET Frames,
         NEW buffer \in SUBSET Frames,
         NEW s, s = [cam EXCEPT !.buffer = buffer, !.flight = flight]
  PROVE  s \in CameraStates
<1>1. cam = [grabbing |-> cam.grabbing, flight |-> cam.flight, buffer |-> cam.buffer]
      /\ cam.grabbing \in BOOLEAN
  BY DEF CameraStates
<1>2. s = [grabbing |-> cam.grabbing, flight |-> flight, buffer |-> buffer]
  BY <1>1
<1> QED BY <1>1, <1>2 DEF CameraStates

\* One step of the job or of a frame on its way.
LEMMA StepCounted == CountedInv /\ [Next]_vars => CountedInv'
<1> SUFFICES ASSUME CountedInv, [Next]_vars PROVE CountedInv'
  OBVIOUS
<1>0. TypeOK /\ StreaksCounted
  BY DEF CountedInv
<1>1. ASSUME InitializeDevices PROVE CountedInv'
  <2>1. camera' \in [Cameras -> CameraStates]
    BY <1>1, RestartsTyped DEF InitializeDevices
  <2> QED BY <1>0, <1>1, <2>1
        DEF InitializeDevices, BeginJob, counters, CountedInv, TypeOK, StreaksCounted
<1>2. ASSUME InitializeDevicesFails PROVE CountedInv'
  BY <1>0, <1>2 DEF InitializeDevicesFails, BeginJob, CountedInv, TypeOK,
                    StreaksCounted, Outcomes
<1>3. ASSUME UseDevices PROVE CountedInv'
  BY <1>0, <1>3 DEF UseDevices, BeginJob, counters, CountedInv, TypeOK, StreaksCounted
<1>4. ASSUME PrepareSequence PROVE CountedInv'
  <2>1. 1 \in LightSteps
    BY LightsAssumption DEF LightSteps
  <2>2. frames' \in [Cameras -> [LightSteps -> Frames \cup {NoFrame}]]
    BY <1>4 DEF PrepareSequence
  <2> QED BY <1>0, <1>4, <2>1, <2>2
        DEF PrepareSequence, counters, CountedInv, TypeOK, StreaksCounted
<1>5. ASSUME PrepareSequenceFails PROVE CountedInv'
  <2>1. camera' \in [Cameras -> CameraStates]
    BY <1>5, RestartsTyped DEF PrepareSequenceFails, ResetDevices, Restarts
  <2>2. StreaksCounted' /\ unrestarted' \in [Cameras -> Nat]
    <3>1. consecutive' \in Nat
      BY <1>0, <1>5, MaxFailuresAssumption DEF PrepareSequenceFails, TypeOK
    <3>2. unrestarted' = [c \in Cameras |-> 0]
      BY <1>5 DEF PrepareSequenceFails
    <3> QED BY <3>1, <3>2 DEF StreaksCounted
  <2>3. camera' \in [Cameras -> CameraStates] /\ ready' \in BOOLEAN
    BY <1>5, <2>1 DEF PrepareSequenceFails, ResetDevices
  <2>4. TypeOK'
    BY <1>0, <1>5, <2>2, <2>3 DEF PrepareSequenceFails, EndJob, TypeOK, Outcomes
  <2> QED BY <2>2, <2>4 DEF CountedInv
<1>6. ASSUME ArmAllViews PROVE CountedInv'
  <2>1. 0 \in 0 .. MaxFailures - 1
    BY MaxFailuresAssumption
  <2> QED BY <1>0, <1>6, <2>1 DEF ArmAllViews, CountedInv, TypeOK, StreaksCounted
<1>7. ASSUME ArmFails PROVE CountedInv'
  <2>1. PICK failed \in SUBSET Cameras :
          FailJob("CameraFault", camera, failed, Cameras \ failed, FALSE)
    BY <1>7 DEF ArmFails
  <2>2. camera \in [Cameras -> CameraStates] /\ "CameraFault" \in Outcomes \ {"Bundle"}
    BY <1>0 DEF TypeOK, Outcomes
  <2> QED BY <1>0, <2>1, <2>2, FailJobKeeps DEF CountedInv
<1>8. ASSUME TriggerLight PROVE CountedInv'
  <2>1. camera' \in [Cameras -> CameraStates]
    BY <1>0, <1>8, ExposedTyped DEF TriggerLight
  <2>2. light' \in LightSteps /\ pc' \in {"arm", "wait"}
        /\ waits' \in [Cameras -> {"waiting", "received", "failed"}]
    BY <1>0, <1>8, LightsAssumption DEF TriggerLight, LightSteps, TypeOK
  <2> QED BY <1>0, <1>8, <2>1, <2>2
        DEF TriggerLight, counters, CountedInv, TypeOK, StreaksCounted
<1>9. ASSUME TriggerFails PROVE CountedInv'
  <2>1. PICK cams \in {camera, Exposed} : FailJob("LightFault", cams, {}, {}, FALSE)
    BY <1>9 DEF TriggerFails
  <2>2. cams \in [Cameras -> CameraStates] /\ "LightFault" \in Outcomes \ {"Bundle"}
    BY <1>0, ExposedTyped DEF TypeOK, Outcomes
  <2> QED BY <1>0, <2>1, <2>2, FailJobKeeps DEF CountedInv
<1>10. ASSUME NEW c \in Cameras, ReceiveFrame(c) PROVE CountedInv'
  <2>1. PICK f \in camera[c].buffer : frames' = [frames EXCEPT ![c][light] = f]
    BY <1>10 DEF ReceiveFrame, Latest
  <2>2. camera[c] \in CameraStates /\ f \in Frames
    BY <1>0, <2>1 DEF TypeOK, CameraStates
  <2>3. camera' \in [Cameras -> CameraStates]
    BY <1>0, <1>10, <2>2 DEF ReceiveFrame, TypeOK, CameraStates
  <2>4. frames' \in [Cameras -> [LightSteps -> Frames \cup {NoFrame}]]
    BY <1>0, <2>1, <2>2 DEF TypeOK
  <2> QED BY <1>0, <1>10, <2>3, <2>4
        DEF ReceiveFrame, counters, CountedInv, TypeOK, StreaksCounted
<1>11. ASSUME NEW c \in Cameras, RejectFrame(c) PROVE CountedInv'
  <2>1. camera' \in [Cameras -> CameraStates]
    BY <1>0, <1>11 DEF RejectFrame, TypeOK, CameraStates
  <2> QED BY <1>0, <1>11, <2>1
        DEF RejectFrame, counters, CountedInv, TypeOK, StreaksCounted
<1>12. ASSUME NEW c \in Cameras, WaitTimesOut(c) PROVE CountedInv'
  BY <1>0, <1>12 DEF WaitTimesOut, counters, CountedInv, TypeOK, StreaksCounted
<1>13. ASSUME NextLight PROVE CountedInv'
  <2>1. 0 \in 0 .. MaxFailures - 1 /\ light' \in LightSteps
    BY <1>0, <1>13, MaxFailuresAssumption, LightsAssumption
       DEF NextLight, TypeOK, LightSteps
  <2> QED BY <1>0, <1>13, <2>1
        DEF NextLight, LightStepDone, CountedInv, TypeOK, StreaksCounted
<1>14. ASSUME CompleteBundle PROVE CountedInv'
  <2>1. 0 \in 0 .. MaxFailures - 1
    BY MaxFailuresAssumption
  <2> QED BY <1>0, <1>14, <2>1
        DEF CompleteBundle, LightStepDone, CountedInv, TypeOK, StreaksCounted, Outcomes
<1>15. ASSUME LightStepFails PROVE CountedInv'
  <2>1. PICK failed \in SUBSET Cameras :
          FailJob("MissingFrame", camera, failed, Cameras \ failed, TRUE)
    BY <1>15 DEF LightStepFails
  <2>2. camera \in [Cameras -> CameraStates] /\ "MissingFrame" \in Outcomes \ {"Bundle"}
    BY <1>0 DEF TypeOK, Outcomes
  <2> QED BY <1>0, <2>1, <2>2, FailJobKeeps DEF CountedInv
<1>16. ASSUME NEW c \in Cameras, Arrive(c) PROVE CountedInv'
  <2>1. PICK f \in camera[c].flight : camera' = [camera EXCEPT ![c] = Buffered(@, f)]
    BY <1>16 DEF Arrive
  <2>2. camera \in [Cameras -> CameraStates] /\ camera[c] \in CameraStates
        /\ camera[c].flight \ {f} \in SUBSET Frames
        /\ camera[c].buffer \cup {f} \in SUBSET Frames
    BY <1>0 DEF TypeOK, CameraStates
  <2>3. Buffered(camera[c], f) \in CameraStates
    BY <2>2, FramesChanged DEF Buffered
  <2>4. camera' \in [Cameras -> CameraStates]
    BY <2>1, <2>2, <2>3
  <2> QED BY <1>0, <1>16, <2>4
        DEF Arrive, counters, CountedInv, TypeOK, StreaksCounted
<1>17. ASSUME NEW c \in Cameras, Lose(c) PROVE CountedInv'
  <2>1. PICK f \in camera[c].flight :
          camera' = [camera EXCEPT ![c].flight = @ \ {f}]
    BY <1>17 DEF Lose
  <2>2. camera \in [Cameras -> CameraStates] /\ camera[c] \in CameraStates
    BY <1>0 DEF TypeOK
  <2>3. [camera[c] EXCEPT !.flight = @ \ {f}] \in CameraStates
    BY <2>2 DEF CameraStates
  <2>4. camera' \in [Cameras -> CameraStates]
    BY <2>1, <2>2, <2>3
  <2> QED BY <1>0, <1>17, <2>4
        DEF Lose, counters, CountedInv, TypeOK, StreaksCounted
<1>18. ASSUME UNCHANGED vars PROVE CountedInv'
  BY <1>0, <1>18 DEF vars, counters, CountedInv, TypeOK, StreaksCounted
<1> QED
  BY <1>1, <1>2, <1>3, <1>4, <1>5, <1>6, <1>7, <1>8, <1>9, <1>10, <1>11, <1>12,
     <1>13, <1>14, <1>15, <1>16, <1>17, <1>18 DEF Next, AcquireStep

\* The acquisition is type correct; in particular no light beyond light_order is
\* armed and both failure counters stay below the threshold between jobs.
THEOREM AcquisitionTypeCorrect == Spec => []TypeOK
<1>1. CountedInv => TypeOK
  BY DEF CountedInv
<1> QED BY <1>1, InitCounted, StepCounted, PTL DEF Spec

\* A camera that keeps failing is restarted, alone or with all devices, before
\* max_camera_failures_before_reset of its jobs have failed.
THEOREM FailingCamerasAreRestarted == Spec => []FailingCameraIsRestarted
<1>1. CountedInv => FailingCameraIsRestarted
  <2> SUFFICES ASSUME CountedInv, NEW c \in Cameras PROVE unrestarted[c] < MaxFailures
    BY DEF FailingCameraIsRestarted
  <2>1. unrestarted[c] \in Nat /\ unrestarted[c] <= consecutive
    BY DEF CountedInv, StreaksCounted, TypeOK
  <2>2. consecutive \in 0 .. MaxFailures - 1
    BY DEF CountedInv, TypeOK
  <2> QED BY <2>1, <2>2, MaxFailuresAssumption
<1> QED BY <1>1, InitCounted, StepCounted, PTL DEF Spec

-----------------------------------------------------------------------------
(***************************************************************************)
(* Whose image is it.  A camera that has delivered the frames it was asked *)
(* for has delivered the right ones (Exact), or has skipped one; then too  *)
(* few are left to finish the job (Short).                                 *)
(***************************************************************************)
OnTheWay(c) == camera[c].flight \cup camera[c].buffer

\* The lights that have been fired, and the frames that a camera has delivered.
Fired == IF pc = "wait" THEN Lights ELSE IF pc \in {"arm", "fire"} THEN light - 1 ELSE 0
Taken(c) == IF waits[c] = "received" THEN light ELSE light - 1

Exact(c) ==
  /\ \A l \in LightSteps : l <= Taken(c) => frames[c][l] = [seat |-> seat, light |-> l]
  /\ \A f \in OnTheWay(c) : f.light > Taken(c)

Short(c) ==
  /\ Taken(c) < Lights
  /\ \A f \in OnTheWay(c) : f.light > Taken(c) + 1

InOrder(c) ==
  /\ \A f \in OnTheWay(c) : f.seat = seat /\ f.light <= Fired
  /\ \A f \in camera[c].flight, g \in camera[c].buffer : g.light < f.light
  /\ pc = "wait" => Exact(c) \/ Short(c)

FrameInv == BundleFaithful /\ \A c \in Cameras : InOrder(c)

\* Clean cameras are in order as long as nothing is being collected.
LEMMA CleanIsInOrder ==
  ASSUME Clean, pc # "wait"
  PROVE  \A c \in Cameras : InOrder(c)
BY DEF Clean, InOrder, OnTheWay

\* The frames of a camera are those of lights that exist.
LEMMA FramesTyped ==
  ASSUME TypeOK, NEW c \in Cameras, NEW f \in OnTheWay(c)
  PROVE  f \in Frames /\ f.seat \in Nat /\ f.light \in Int /\ 1 <= f.light /\ f.light <= Lights
<1>1. camera[c].flight \subseteq Frames /\ camera[c].buffer \subseteq Frames
  BY DEF TypeOK, CameraStates
<1>2. f \in Frames
  BY <1>1 DEF OnTheWay
<1> QED BY <1>2, LightsAssumption DEF Frames, LightSteps

\* Before the first light is fired, cameras that are in order are clean.
LEMMA InOrderIsClean ==
  ASSUME TypeOK, \A c \in Cameras : InOrder(c), pc \in {"idle", "prepare"}
  PROVE  Clean
<1> SUFFICES ASSUME NEW c \in Cameras, NEW f \in OnTheWay(c) PROVE FALSE
  BY DEF Clean, OnTheWay
<1>1. 1 <= f.light /\ f.light \in Int
  BY FramesTyped
<1>2. f.light <= 0
  BY DEF InOrder, Fired
<1> QED BY <1>1, <1>2

\* A camera that receives a frame has received the right one or skipped one.
LEMMA ReceiveInOrder ==
  ASSUME TypeOK, NEW c \in Cameras, InOrder(c), ReceiveFrame(c)
  PROVE  InOrder(c)'
<1>1. PICK f \in camera[c].buffer : frames' = [frames EXCEPT ![c][light] = f]
  BY DEF ReceiveFrame, Latest
<1>2. /\ pc = "wait" /\ pc' = "wait" /\ light' = light /\ seat' = seat
      /\ waits[c] = "waiting" /\ waits'[c] = "received"
      /\ light \in Int /\ 1 <= light /\ light <= Lights /\ Lights \in Int
  BY LightsAssumption DEF ReceiveFrame, TypeOK, LightSteps
<1>3. camera'[c].flight = camera[c].flight /\ camera'[c].buffer = {}
  <2>1. camera[c] \in CameraStates /\ camera \in [Cameras -> CameraStates]
    BY DEF TypeOK
  <2>2. camera' = [camera EXCEPT ![c].buffer = {}]
    BY DEF ReceiveFrame
  <2> QED BY <2>1, <2>2 DEF CameraStates
<1>4. f \in OnTheWay(c)
  BY DEF OnTheWay
<1>5. /\ f.light \in Int /\ f.light <= Lights /\ f.seat = seat
      /\ f = [seat |-> seat, light |-> f.light]
  <2>1. f \in Frames /\ f.light \in Int /\ f.light <= Lights
    BY <1>4, FramesTyped
  <2>2. f.seat = seat
    BY <1>4 DEF InOrder
  <2> QED BY <2>1, <2>2 DEF Frames
<1>6. \A g \in camera[c].flight : g.light \in Int /\ f.light < g.light
  <2>1. ASSUME NEW g \in camera[c].flight PROVE g.light \in Int
    BY FramesTyped DEF OnTheWay
  <2> QED BY <2>1 DEF InOrder
<1>7. Taken(c) = light - 1 /\ Taken(c)' = light
  BY <1>2 DEF Taken
<1>8. \A l \in LightSteps : l # light => frames'[c][l] = frames[c][l]
  BY <1>1 DEF TypeOK
<1>9. frames'[c][light] = f
  BY <1>1 DEF TypeOK
<1>10. CASE Exact(c) /\ f.light = light
  <2>1. ASSUME NEW l \in LightSteps, l <= light
        PROVE  frames'[c][l] = [seat |-> seat, light |-> l]
    <3>1. CASE l = light
      BY <1>5, <1>9, <1>10, <3>1
    <3>2. CASE l # light
      <4>1. l <= light - 1
        BY <1>2, <2>1, <3>2 DEF LightSteps
      <4> QED BY <1>7, <1>8, <1>10, <3>2, <4>1 DEF Exact
    <3> QED BY <3>1, <3>2
  <2>2. Exact(c)'
    BY <1>2, <1>3, <1>6, <1>7, <1>10, <2>1 DEF Exact, OnTheWay
  <2> QED BY <1>2, <1>3, <2>2 DEF InOrder, OnTheWay, Fired
<1>11. CASE Exact(c) /\ f.light # light
  <2>1. f.light > light
    BY <1>2, <1>4, <1>5, <1>7, <1>11 DEF Exact
  <2>2. Short(c)'
    BY <1>2, <1>3, <1>5, <1>6, <1>7, <2>1 DEF Short, OnTheWay
  <2> QED BY <1>2, <1>3, <2>2 DEF InOrder, OnTheWay, Fired
<1>12. CASE Short(c)
  <2>1. f.light > light
    BY <1>2, <1>4, <1>5, <1>7, <1>12 DEF Short
  <2>2. Short(c)'
    BY <1>2, <1>3, <1>5, <1>6, <1>7, <2>1 DEF Short, OnTheWay
  <2> QED BY <1>2, <1>3, <2>2 DEF InOrder, OnTheWay, Fired
<1> QED BY <1>2, <1>10, <1>11, <1>12 DEF InOrder

\* A step that leaves a camera, its frames and the place in the job alone leaves
\* the camera in order; it may lose frames on their way or from the buffer.
LEMMA UntouchedInOrder ==
  ASSUME NEW c \in Cameras, InOrder(c),
         camera'[c].flight \subseteq camera[c].flight,
         camera'[c].buffer \subseteq camera[c].buffer,
         UNCHANGED <<pc, seat, light>>, frames'[c] = frames[c],
         waits'[c] = waits[c] \/ (waits[c] = "waiting" /\ waits'[c] = "failed")
  PROVE  InOrder(c)'
<1>1. Taken(c)' = Taken(c) /\ Fired' = Fired
  BY DEF Taken, Fired
<1>2. OnTheWay(c)' \subseteq OnTheWay(c)
  BY DEF OnTheWay
<1>3. Exact(c) => Exact(c)'
  BY <1>1, <1>2 DEF Exact
<1>4. Short(c) => Short(c)'
  BY <1>1, <1>2 DEF Short
<1> QED BY <1>1, <1>2, <1>3, <1>4 DEF InOrder

\* Firing the light adds the newest frame.
LEMMA TriggerInOrder ==
  ASSUME TypeOK, NEW c \in Cameras, InOrder(c), TriggerLight
  PROVE  InOrder(c)'
<1> DEFINE new == [seat |-> seat, light |-> light]
<1>1. camera'[c].flight = camera[c].flight \cup {new}
      /\ camera'[c].buffer = camera[c].buffer
  <2>1. camera[c] \in CameraStates
    BY DEF TypeOK
  <2>2. camera'[c] = [camera[c] EXCEPT !.flight = @ \cup {new}]
    BY DEF TriggerLight, Exposed
  <2> QED BY <2>1, <2>2 DEF CameraStates
<1>2. light \in Int /\ 1 <= light /\ light <= Lights /\ Lights \in Int
  BY LightsAssumption DEF TypeOK, LightSteps
<1>3. /\ pc = "fire" /\ Fired = light - 1 /\ seat' = seat
      /\ Fired' = light
      /\ pc' = "wait" => light' = 1 /\ waits'[c] = "waiting"
  BY <1>2 DEF TriggerLight, Fired
<1>4. \A f \in OnTheWay(c) : f.light \in Int /\ 1 <= f.light /\ f.light <= light - 1
                             /\ f.seat = seat
  BY <1>3, FramesTyped DEF InOrder
<1>5. \A f \in OnTheWay(c)' : f = new \/ f \in OnTheWay(c)
  BY <1>1 DEF OnTheWay
<1>6. \A f \in OnTheWay(c)' : f.light \in Int /\ 1 <= f.light /\ f.light <= light
                              /\ f.seat = seat
  BY <1>2, <1>4, <1>5
<1>7. \A f \in camera'[c].flight, g \in camera'[c].buffer : g.light < f.light
  <2> SUFFICES ASSUME NEW f \in camera'[c].flight, NEW g \in camera'[c].buffer
               PROVE  g.light < f.light
    OBVIOUS
  <2>1. CASE f = new
    <3>1. g \in OnTheWay(c)
      BY <1>1 DEF OnTheWay
    <3> QED BY <1>2, <1>4, <2>1, <3>1
  <2>2. CASE f \in camera[c].flight
    BY <1>1, <2>2 DEF InOrder
  <2> QED BY <1>1, <2>1, <2>2
<1>8. pc' = "wait" => Exact(c)'
  <2> SUFFICES ASSUME pc' = "wait" PROVE Exact(c)'
    OBVIOUS
  <2>1. Taken(c)' = 0
    BY <1>3 DEF Taken
  <2>2. \A l \in LightSteps : ~(l <= 0)
    BY DEF LightSteps
  <2>3. \A f \in OnTheWay(c)' : f.light > 0
    BY <1>6
  <2> QED BY <2>1, <2>2, <2>3 DEF Exact
<1> QED BY <1>3, <1>6, <1>7, <1>8 DEF InOrder

\* A bundle is completed only by cameras that have delivered exactly the right
\* frames, and then none is left.
LEMMA CompleteIsFaithful ==
  ASSUME TypeOK, \A c \in Cameras : InOrder(c), CompleteBundle
  PROVE  Clean' /\ BundleFaithful' /\ pc' = "idle"
<1>1. /\ pc = "wait" /\ pc' = "idle" /\ light = Lights /\ Lights \in Nat
      /\ UNCHANGED <<camera, frames, seat>>
      /\ \A c \in Cameras : waits[c] = "received"
  BY LightsAssumption DEF CompleteBundle, LightStepDone
<1>2. ASSUME NEW c \in Cameras
      PROVE  /\ OnTheWay(c) = {}
             /\ \A l \in LightSteps : frames[c][l] = [seat |-> seat, light |-> l]
  <2>1. Taken(c) = Lights
    BY <1>1 DEF Taken
  <2>2. Exact(c)
    <3>1. ~(Lights < Lights)
      BY <1>1
    <3> QED BY <1>1, <2>1, <3>1 DEF InOrder, Short
  <2>3. \A f \in OnTheWay(c) : FALSE
    <3> SUFFICES ASSUME NEW f \in OnTheWay(c) PROVE FALSE
      OBVIOUS
    <3>1. f.light \in Int /\ f.light <= Lights
      BY FramesTyped
    <3> QED BY <1>1, <2>1, <2>2, <3>1 DEF Exact
  <2>4. \A l \in LightSteps : l <= Lights
    BY <1>1 DEF LightSteps
  <2> QED BY <2>1, <2>2, <2>3, <2>4 DEF Exact
<1>3. Clean'
  BY <1>1, <1>2 DEF Clean, OnTheWay
<1>4. BundleFaithful'
  BY <1>1, <1>2 DEF BundleFaithful
<1> QED BY <1>1, <1>3, <1>4

\* A frame that arrives is the oldest on its way and the newest in the buffer.
LEMMA ArriveInOrder ==
  ASSUME TypeOK, NEW c \in Cameras, InOrder(c), Arrive(c)
  PROVE  InOrder(c)'
<1>1. PICK f \in camera[c].flight :
        /\ \A g \in camera[c].flight : g = f \/ Earlier(f, g)
        /\ camera' = [camera EXCEPT ![c] = Buffered(@, f)]
  BY DEF Arrive
<1>2. /\ camera'[c].flight = camera[c].flight \ {f}
      /\ camera'[c].buffer = camera[c].buffer \cup {f}
  <2>1. camera[c] \in CameraStates /\ camera'[c] = Buffered(camera[c], f)
    BY <1>1 DEF TypeOK
  <2> QED BY <2>1 DEF Buffered, CameraStates
<1>3. UNCHANGED <<pc, seat, light, waits, frames>>
  BY DEF Arrive
<1>4. OnTheWay(c)' = OnTheWay(c)
  BY <1>2 DEF OnTheWay
<1>5. Taken(c)' = Taken(c) /\ Fired' = Fired
  BY <1>3 DEF Taken, Fired
<1>6. \A g \in camera[c].flight : g.seat \in Nat /\ g.seat = seat
  BY FramesTyped DEF InOrder, OnTheWay
<1>7. \A g \in camera'[c].flight : f.light < g.light
  <2> SUFFICES ASSUME NEW g \in camera'[c].flight PROVE f.light < g.light
    OBVIOUS
  <2>1. g \in camera[c].flight /\ g # f
    BY <1>2
  <2>2. Earlier(f, g) /\ f.seat = g.seat /\ g.seat \in Nat
    BY <1>1, <1>6, <2>1
  <2> QED BY <2>2 DEF Earlier
<1>8. \A g \in camera'[c].flight, h \in camera'[c].buffer : h.light < g.light
  BY <1>2, <1>7 DEF InOrder
<1>9. (Exact(c) => Exact(c)') /\ (Short(c) => Short(c)')
  BY <1>3, <1>4, <1>5 DEF Exact, Short
<1> QED BY <1>3, <1>4, <1>5, <1>8, <1>9 DEF InOrder

\* The next light is waited for: what was delivered stays what it was.
LEMMA NextLightInOrder ==
  ASSUME TypeOK, NEW c \in Cameras, InOrder(c), NextLight
  PROVE  InOrder(c)'
<1>1. /\ pc = "wait" /\ waits[c] = "received" /\ waits'[c] = "waiting"
      /\ light' = light + 1 /\ light \in Int
      /\ UNCHANGED <<pc, seat, camera, frames>>
  BY DEF NextLight, LightStepDone, TypeOK, LightSteps
<1>2. Taken(c)' = Taken(c) /\ Fired' = Fired /\ OnTheWay(c)' = OnTheWay(c)
  BY <1>1 DEF Taken, Fired, OnTheWay
<1>3. (Exact(c) => Exact(c)') /\ (Short(c) => Short(c)')
  BY <1>1, <1>2 DEF Exact, Short
<1> QED BY <1>1, <1>2, <1>3 DEF InOrder

\* Every step keeps all cameras in order and every bundle faithful.
LEMMA StepFaithful ==
  ASSUME DrainSettles, CountedInv, FrameInv, [Next]_vars
  PROVE  FrameInv'
<1>0. TypeOK /\ StreaksCounted /\ BundleFaithful /\ \A c \in Cameras : InOrder(c)
  BY DEF CountedInv, FrameInv
<1>a. ASSUME Clean', pc' # "wait", pc' # "idle" \/ outcome' # "Bundle" PROVE FrameInv'
  <2>1. \A c \in Cameras : InOrder(c)'
    BY <1>a DEF Clean, InOrder, OnTheWay
  <2> QED BY <1>a, <2>1 DEF FrameInv, BundleFaithful
<1>b. ASSUME NEW failed \in SUBSET Cameras, NEW passed \in SUBSET Cameras,
             NEW cams \in [Cameras -> CameraStates], NEW twice \in BOOLEAN,
             NEW result \in Outcomes \ {"Bundle"},
             FailJob(result, cams, failed, passed, twice)
      PROVE  FrameInv'
  BY <1>0, <1>a, <1>b, FailJobKeeps
<1>1. ASSUME InitializeDevices PROVE FrameInv'
  <2>1. \A c \in Cameras : camera'[c] \in Restarts
    BY <1>1 DEF InitializeDevices
  <2> QED BY <1>1, <1>a, <2>1, RestartsTyped DEF InitializeDevices, Clean
<1>2. ASSUME InitializeDevicesFails PROVE FrameInv'
  <2>1. Clean
    BY <1>0, <1>2, InOrderIsClean DEF InitializeDevicesFails, BeginJob
  <2> QED BY <1>2, <1>a, <2>1 DEF InitializeDevicesFails, BeginJob, Clean
<1>3. ASSUME UseDevices PROVE FrameInv'
  <2>1. Clean
    BY <1>0, <1>3, InOrderIsClean DEF UseDevices, BeginJob
  <2> QED BY <1>3, <1>a, <2>1 DEF UseDevices, Clean
<1>4. ASSUME PrepareSequence PROVE FrameInv'
  <2>1. Clean
    BY <1>0, <1>4, InOrderIsClean DEF PrepareSequence
  <2> QED BY <1>4, <1>a, <2>1 DEF PrepareSequence, Clean
<1>5. ASSUME PrepareSequenceFails PROVE FrameInv'
  BY <1>5, <1>a DEF PrepareSequenceFails, ResetDevices, EndJob, Clean, Started
<1>6. ASSUME ArmAllViews PROVE FrameInv'
  <2>1. ASSUME NEW c \in Cameras PROVE InOrder(c)'
    <3>1. /\ UNCHANGED <<seat, light, camera>>
          /\ pc = "arm" /\ pc' = "fire"
      BY <1>6 DEF ArmAllViews
    <3> QED BY <1>0, <3>1 DEF InOrder, OnTheWay, Fired
  <2> QED BY <1>6, <2>1 DEF ArmAllViews, FrameInv, BundleFaithful
<1>7. ASSUME ArmFails PROVE FrameInv'
  <2>1. camera \in [Cameras -> CameraStates] /\ "CameraFault" \in Outcomes \ {"Bundle"}
    BY <1>0 DEF TypeOK, Outcomes
  <2> QED BY <1>7, <1>b, <2>1 DEF ArmFails
<1>8. ASSUME TriggerLight PROVE FrameInv'
  <2>1. pc' # "idle"
    BY <1>8 DEF TriggerLight
  <2> QED BY <1>0, <1>8, <2>1, TriggerInOrder DEF FrameInv, BundleFaithful
<1>9. ASSUME TriggerFails PROVE FrameInv'
  <2>1. /\ camera \in [Cameras -> CameraStates] /\ Exposed \in [Cameras -> CameraStates]
        /\ "LightFault" \in Outcomes \ {"Bundle"}
    BY <1>0, ExposedTyped DEF TypeOK, Outcomes
  <2> QED BY <1>9, <1>b, <2>1 DEF TriggerFails
<1>10. ASSUME NEW c \in Cameras, ReceiveFrame(c) PROVE FrameInv'
  <2>1. ASSUME NEW d \in Cameras, d # c PROVE InOrder(d)'
    <3>1. /\ camera'[d] = camera[d] /\ frames'[d] = frames[d] /\ waits'[d] = waits[d]
          /\ UNCHANGED <<pc, seat, light>>
      BY <1>0, <1>10, <2>1 DEF ReceiveFrame, TypeOK
    <3> QED BY <1>0, <3>1, UntouchedInOrder
  <2>2. pc' # "idle"
    BY <1>10 DEF ReceiveFrame
  <2> QED BY <1>0, <1>10, <2>1, <2>2, ReceiveInOrder DEF FrameInv, BundleFaithful
<1>11. ASSUME NEW c \in Cameras, RejectFrame(c) PROVE FrameInv'
  <2>1. ASSUME NEW d \in Cameras PROVE InOrder(d)'
    <3>1. /\ camera'[d].flight \subseteq camera[d].flight
          /\ camera'[d].buffer \subseteq camera[d].buffer
      <4>1. camera[d] \in CameraStates
        BY <1>0 DEF TypeOK
      <4> QED BY <1>0, <1>11, <4>1 DEF RejectFrame, TypeOK, CameraStates
    <3>2. /\ frames'[d] = frames[d] /\ UNCHANGED <<pc, seat, light>>
          /\ waits'[d] = waits[d] \/ (waits[d] = "waiting" /\ waits'[d] = "failed")
      BY <1>0, <1>11 DEF RejectFrame, TypeOK
    <3> QED BY <1>0, <3>1, <3>2, UntouchedInOrder
  <2>2. pc' # "idle"
    BY <1>11 DEF RejectFrame
  <2> QED BY <2>1, <2>2 DEF FrameInv, BundleFaithful
<1>12. ASSUME NEW c \in Cameras, WaitTimesOut(c) PROVE FrameInv'
  <2>1. ASSUME NEW d \in Cameras PROVE InOrder(d)'
    <3>1. /\ camera'[d] = camera[d]
          /\ frames'[d] = frames[d] /\ UNCHANGED <<pc, seat, light>>
          /\ waits'[d] = waits[d] \/ (waits[d] = "waiting" /\ waits'[d] = "failed")
      BY <1>0, <1>12 DEF WaitTimesOut, TypeOK
    <3> QED BY <1>0, <3>1, UntouchedInOrder
  <2>2. pc' # "idle"
    BY <1>12 DEF WaitTimesOut
  <2> QED BY <2>1, <2>2 DEF FrameInv, BundleFaithful
<1>13. ASSUME NextLight PROVE FrameInv'
  <2>1. pc' # "idle"
    BY <1>13 DEF NextLight, LightStepDone
  <2> QED BY <1>0, <1>13, <2>1, NextLightInOrder DEF FrameInv, BundleFaithful
<1>14. ASSUME CompleteBundle PROVE FrameInv'
  <2>1. Clean' /\ BundleFaithful' /\ pc' = "idle"
    BY <1>0, <1>14, CompleteIsFaithful
  <2>2. \A c \in Cameras : InOrder(c)'
    BY <2>1 DEF Clean, InOrder, OnTheWay
  <2> QED BY <2>1, <2>2 DEF FrameInv
<1>15. ASSUME LightStepFails PROVE FrameInv'
  <2>1. camera \in [Cameras -> CameraStates] /\ "MissingFrame" \in Outcomes \ {"Bundle"}
    BY <1>0 DEF TypeOK, Outcomes
  <2>2. PICK failed \in SUBSET Cameras :
          FailJob("MissingFrame", camera, failed, Cameras \ failed, TRUE)
    BY <1>15 DEF LightStepFails
  <2> QED BY <1>b, <2>1, <2>2
<1>16. ASSUME NEW c \in Cameras, Arrive(c) PROVE FrameInv'
  <2>1. ASSUME NEW d \in Cameras, d # c PROVE InOrder(d)'
    <3>1. camera'[d] = camera[d] /\ UNCHANGED <<pc, seat, light, frames, waits>>
      BY <1>0, <1>16, <2>1 DEF Arrive, TypeOK
    <3> QED BY <1>0, <3>1, UntouchedInOrder
  <2>2. InOrder(c)'
    BY <1>0, <1>16, ArriveInOrder
  <2>3. BundleFaithful'
    BY <1>0, <1>16 DEF Arrive, BundleFaithful
  <2> QED BY <2>1, <2>2, <2>3 DEF FrameInv
<1>17. ASSUME NEW c \in Cameras, Lose(c) PROVE FrameInv'
  <2>1. ASSUME NEW d \in Cameras PROVE InOrder(d)'
    <3>1. /\ camera'[d].flight \subseteq camera[d].flight
          /\ camera'[d].buffer \subseteq camera[d].buffer
      <4>1. camera[d] \in CameraStates
        BY <1>0 DEF TypeOK
      <4> QED BY <1>0, <1>17, <4>1 DEF Lose, TypeOK, CameraStates
    <3>2. UNCHANGED <<pc, seat, light, frames, waits>>
      BY <1>17 DEF Lose
    <3> QED BY <1>0, <3>1, <3>2, UntouchedInOrder
  <2>2. BundleFaithful'
    BY <1>0, <1>17 DEF Lose, BundleFaithful
  <2> QED BY <2>1, <2>2 DEF FrameInv
<1>18. ASSUME UNCHANGED vars PROVE FrameInv'
  <2>1. ASSUME NEW d \in Cameras PROVE InOrder(d)'
    BY <1>0, <1>18, UntouchedInOrder DEF vars, counters
  <2>2. BundleFaithful'
    BY <1>0, <1>18 DEF vars, counters, BundleFaithful
  <2> QED BY <2>1, <2>2 DEF FrameInv
<1> QED
  BY <1>1, <1>2, <1>3, <1>4, <1>5, <1>6, <1>7, <1>8, <1>9, <1>10, <1>11, <1>12,
     <1>13, <1>14, <1>15, <1>16, <1>17, <1>18 DEF Next, AcquireStep

LEMMA InitFaithful == Init => FrameInv
<1> SUFFICES ASSUME Init PROVE FrameInv
  OBVIOUS
<1>1. Clean /\ pc = "idle" /\ outcome = "NoJob"
  BY DEF Init, Clean, Started
<1> QED BY <1>1, CleanIsInOrder DEF FrameInv, BundleFaithful

\* If drains settle, every image of a bundle is of its seat and was taken under
\* the light it is labelled with, although frames get lost, newer frames replace
\* older ones, and nothing but the order of arrival tells frames apart.
THEOREM BundlesAreFaithful == DrainSettles => (Spec => []BundleFaithful)
<1> SUFFICES ASSUME DrainSettles PROVE Spec => []BundleFaithful
  OBVIOUS
<1>1. CountedInv /\ FrameInv /\ [Next]_vars => CountedInv' /\ FrameInv'
  BY StepCounted, StepFaithful
<1>2. FrameInv => BundleFaithful
  BY DEF FrameInv
<1> QED BY <1>1, <1>2, InitCounted, InitFaithful, PTL DEF Spec

\* If drains settle, no job finds a frame of an earlier one in a buffer or on
\* its way to it.
THEOREM NothingIsLeftBehind == DrainSettles => (Spec => []NothingLeftBehind)
<1> SUFFICES ASSUME DrainSettles PROVE Spec => []NothingLeftBehind
  OBVIOUS
<1>1. CountedInv /\ FrameInv /\ [Next]_vars => CountedInv' /\ FrameInv'
  BY StepCounted, StepFaithful
<1>2. CountedInv /\ FrameInv => NothingLeftBehind
  BY InOrderIsClean DEF CountedInv, FrameInv, NothingLeftBehind, Clean
<1> QED BY <1>1, <1>2, InitCounted, InitFaithful, PTL DEF Spec

-----------------------------------------------------------------------------
(***************************************************************************)
(* What a reset takes.  A job in which frames are missing counts twice, so *)
(* the devices may be released after half the configured failures         *)
(* (ResetAfterRepeatedFailures is refuted), but never after fewer.         *)
(***************************************************************************)
FailuresCounted == consecutive <= 2 * failedJobs

ResetEarned == ready /\ ~ready' /\ pc # "prepare" => 2 * failedJobs' >= MaxFailures

LEMMA FailJobCounts ==
  ASSUME TypeOK, FailuresCounted, NEW result, NEW cams, NEW failed, NEW passed,
         NEW twice \in BOOLEAN, FailJob(result, cams, failed, passed, twice)
  PROVE  FailuresCounted' /\ ResetEarned
<1> DEFINE once == CountFailure(consecutive)
           count == IF twice THEN CountFailure(once) ELSE once
<1>1. /\ consecutive' = count /\ failedJobs' = failedJobs + 1
      /\ ready /\ ~ready' => once = 0 \/ count = 0
  BY DEF FailJob
<1>2. consecutive \in Nat /\ failedJobs \in Nat /\ MaxFailures \in Nat \ {0}
  BY MaxFailuresAssumption DEF TypeOK
<1>3. /\ once \in Nat /\ once <= consecutive + 1
      /\ once = 0 => consecutive + 1 >= MaxFailures
  BY <1>2 DEF CountFailure
<1>4. /\ count \in Nat /\ count <= consecutive + 2
      /\ count = 0 => consecutive + 2 >= MaxFailures
  BY <1>2, <1>3 DEF CountFailure
<1> HIDE DEF once, count
<1> QED BY <1>1, <1>2, <1>3, <1>4 DEF FailuresCounted, ResetEarned

LEMMA StepEarned ==
  CountedInv /\ FailuresCounted /\ [Next]_vars => FailuresCounted' /\ ResetEarned
<1> SUFFICES ASSUME CountedInv, FailuresCounted, [Next]_vars
             PROVE  FailuresCounted' /\ ResetEarned
  OBVIOUS
<1>0. TypeOK /\ failedJobs \in Nat /\ consecutive \in Nat
  BY MaxFailuresAssumption DEF CountedInv, TypeOK
<1>1. ASSUME ready' \/ ~ready, UNCHANGED <<consecutive, failedJobs>>
      PROVE  FailuresCounted' /\ ResetEarned
  BY <1>1 DEF FailuresCounted, ResetEarned
<1>2. CASE InitializeDevices \/ UseDevices \/ PrepareSequence \/ ArmAllViews
           \/ TriggerLight \/ NextLight \/ UNCHANGED vars
  BY <1>1, <1>2
     DEF InitializeDevices, UseDevices, PrepareSequence, ArmAllViews, TriggerLight, NextLight,
         LightStepDone, vars, counters
<1>3. CASE \E c \in Cameras : \/ ReceiveFrame(c) \/ RejectFrame(c) \/ WaitTimesOut(c)
                              \/ Arrive(c) \/ Lose(c)
  BY <1>1, <1>3 DEF ReceiveFrame, RejectFrame, WaitTimesOut, Arrive, Lose, counters
<1>4. CASE InitializeDevicesFails
  BY <1>0, <1>4 DEF InitializeDevicesFails, FailuresCounted, ResetEarned
<1>5. CASE PrepareSequenceFails
  BY <1>0, <1>5 DEF PrepareSequenceFails, FailuresCounted, ResetEarned
<1>6. CASE CompleteBundle
  BY <1>6 DEF CompleteBundle, LightStepDone, FailuresCounted, ResetEarned
<1>7. CASE ArmFails
  BY <1>0, <1>7, FailJobCounts DEF ArmFails
<1>8. CASE TriggerFails
  BY <1>0, <1>8, FailJobCounts DEF TriggerFails
<1>9. CASE LightStepFails
  BY <1>0, <1>9, FailJobCounts DEF LightStepFails
<1> QED
  BY <1>2, <1>3, <1>4, <1>5, <1>6, <1>7, <1>8, <1>9 DEF Next, AcquireStep

\* The devices are released by failing jobs only after at least half as many
\* failed jobs in a row as max_camera_failures_before_reset (a sequence that the
\* light controller refuses resets them at once).
THEOREM ResetsAreEarned ==
  Spec => [][ready /\ ~ready' /\ pc # "prepare" => 2 * failedJobs' >= MaxFailures]_vars
<1>1. Init => FailuresCounted
  BY DEF Init, FailuresCounted
<1>2. CountedInv /\ FailuresCounted /\ [Next]_vars =>
        [ready /\ ~ready' /\ pc # "prepare" => 2 * failedJobs' >= MaxFailures]_vars
  BY StepEarned DEF ResetEarned
<1> QED BY <1>1, <1>2, InitCounted, StepCounted, StepEarned, PTL DEF Spec

-----------------------------------------------------------------------------
(***************************************************************************)
(* Why every job ends.  For each light a turn: one camera after the other  *)
(* is through with its wait, then the turn is closed; before that, each    *)
(* light is armed and fired.                                               *)
(***************************************************************************)
Waiting == {c \in Cameras : waits[c] = "waiting"}
Turn == Cardinality(Cameras) + 1

\* How many steps of the job are left at most.
StepsLeft ==
  IF pc = "prepare" THEN Lights * Turn + 2 * Lights + 1
  ELSE IF pc = "arm" THEN Lights * Turn + 2 * (Lights - light) + 2
  ELSE IF pc = "fire" THEN Lights * Turn + 2 * (Lights - light) + 1
  ELSE IF pc = "wait" THEN (Lights - light) * Turn + Cardinality(Waiting) + 1
  ELSE 0

LEMMA WaitingCounted ==
  ASSUME IsFiniteSet(Cameras)
  PROVE  /\ Turn \in Nat /\ Cardinality(Waiting) \in Nat
         /\ IsFiniteSet(Waiting) /\ Cardinality(Waiting) <= Turn - 1
<1>1. Waiting \subseteq Cameras
  BY DEF Waiting
<1>2. Cardinality(Cameras) \in Nat
  BY FS_CardinalityType
<1>3. IsFiniteSet(Waiting) /\ Cardinality(Waiting) <= Cardinality(Cameras)
  BY <1>1, FS_Subset
<1>4. Cardinality(Waiting) \in Nat
  BY <1>3, FS_CardinalityType
<1> QED BY <1>2, <1>3, <1>4 DEF Turn

\* A camera that is through with its wait is waited for no more.
LEMMA OneLessWaiting ==
  ASSUME IsFiniteSet(Cameras), TypeOK, NEW c \in Cameras, waits[c] = "waiting",
         NEW how \in {"received", "failed"}, waits' = [waits EXCEPT ![c] = how]
  PROVE  Cardinality(Waiting') = Cardinality(Waiting) - 1
<1>1. Waiting' = Waiting \ {c} /\ c \in Waiting
  BY DEF Waiting, TypeOK
<1>2. IsFiniteSet(Waiting)
  BY WaitingCounted
<1> QED BY <1>1, <1>2, FS_RemoveElement

LEMMA StepsLeftTyped ==
  ASSUME IsFiniteSet(Cameras), TypeOK
  PROVE  StepsLeft \in Nat /\ (pc # "idle" => StepsLeft > 0)
<1>1. Lights \in Nat /\ light \in Nat /\ light <= Lights /\ Lights - light \in Nat
  BY LightsAssumption DEF TypeOK, LightSteps
<1>2. Turn \in Nat /\ Cardinality(Waiting) \in Nat
  BY WaitingCounted
<1>3. Lights * Turn \in Nat /\ (Lights - light) * Turn \in Nat
  <2>1. \A a, b \in Nat : a * b \in Nat
    OBVIOUS
  <2> QED BY <1>1, <1>2, <2>1
<1> DEFINE all == Lights * Turn
           rest == (Lights - light) * Turn
           some == Cardinality(Waiting)
<1>4. StepsLeft = IF pc = "prepare" THEN all + 2 * Lights + 1
                  ELSE IF pc = "arm" THEN all + 2 * (Lights - light) + 2
                  ELSE IF pc = "fire" THEN all + 2 * (Lights - light) + 1
                  ELSE IF pc = "wait" THEN rest + some + 1 ELSE 0
  BY DEF StepsLeft
<1>5. all \in Nat /\ rest \in Nat /\ some \in Nat
  BY <1>2, <1>3
<1> HIDE DEF all, rest, some
<1> QED BY <1>1, <1>4, <1>5 DEF TypeOK

\* Every step of a job leaves fewer steps than before.
LEMMA StepsAreSpent ==
  ASSUME IsFiniteSet(Cameras), TypeOK, TypeOK', AcquireStep
  PROVE  StepsLeft' < StepsLeft
<1>0. /\ Lights \in Nat /\ light \in Nat /\ 1 <= light /\ light <= Lights
      /\ Turn \in Nat /\ Cardinality(Waiting) \in Nat /\ Turn' = Turn
      /\ Cardinality(Waiting') \in Nat /\ Cardinality(Waiting') <= Turn - 1
  <2>1. Waiting' \subseteq Cameras
    BY DEF Waiting
  <2>2. IsFiniteSet(Waiting') /\ Cardinality(Waiting') <= Cardinality(Cameras)
    BY <2>1, FS_Subset
  <2>3. Cardinality(Waiting') \in Nat /\ Cardinality(Cameras) \in Nat
    BY <2>2, FS_CardinalityType
  <2> QED BY <2>2, <2>3, WaitingCounted, LightsAssumption DEF TypeOK, LightSteps, Turn
<1>1. ASSUME pc # "idle", pc' = "idle" PROVE StepsLeft' < StepsLeft
  <2>1. StepsLeft' = 0
    BY <1>1 DEF StepsLeft
  <2>2. StepsLeft \in Nat /\ StepsLeft > 0
    BY <1>1, StepsLeftTyped
  <2> QED BY <2>1, <2>2
<1>2. CASE PrepareSequence
  <2>1. pc = "prepare" /\ pc' = "arm" /\ light' = 1
    BY <1>2 DEF PrepareSequence
  <2>2. /\ StepsLeft = Lights * Turn + 2 * Lights + 1
        /\ StepsLeft' = Lights * Turn + 2 * (Lights - 1) + 2
    BY <1>0, <2>1 DEF StepsLeft
  <2> QED BY <1>0, <2>2
<1>3. CASE ArmAllViews
  <2>1. pc = "arm" /\ pc' = "fire" /\ light' = light
    BY <1>3 DEF ArmAllViews
  <2>2. /\ StepsLeft = Lights * Turn + 2 * (Lights - light) + 2
        /\ StepsLeft' = Lights * Turn + 2 * (Lights - light) + 1
    BY <1>0, <2>1 DEF StepsLeft
  <2> QED BY <1>0, <2>2
<1>4. CASE TriggerLight
  <2>1. StepsLeft = Lights * Turn + 2 * (Lights - light) + 1
    BY <1>4 DEF TriggerLight, StepsLeft
  <2>2. CASE light < Lights
    <3>1. pc' = "arm" /\ light' = light + 1
      BY <1>4, <2>2 DEF TriggerLight
    <3>2. StepsLeft' = Lights * Turn + 2 * (Lights - (light + 1)) + 2
      BY <1>0, <3>1 DEF StepsLeft
    <3> QED BY <1>0, <2>1, <3>2
  <2>3. CASE ~(light < Lights)
    <3>1. pc' = "wait" /\ light' = 1 /\ light = Lights
      BY <1>0, <1>4, <2>3 DEF TriggerLight
    <3>2. StepsLeft' = (Lights - 1) * Turn + Cardinality(Waiting') + 1
      BY <1>0, <3>1 DEF StepsLeft
    <3>3. (Lights - 1) * Turn = Lights * Turn - Turn
      BY <1>0
    <3> QED BY <1>0, <2>1, <3>1, <3>2, <3>3
  <2> QED BY <2>2, <2>3
<1>5. CASE \E c \in Cameras : ReceiveFrame(c) \/ RejectFrame(c) \/ WaitTimesOut(c)
  <2>1. PICK c \in Cameras : ReceiveFrame(c) \/ RejectFrame(c) \/ WaitTimesOut(c)
    BY <1>5
  <2>2. /\ pc = "wait" /\ pc' = "wait" /\ light' = light /\ waits[c] = "waiting"
        /\ \E how \in {"received", "failed"} : waits' = [waits EXCEPT ![c] = how]
    BY <2>1 DEF ReceiveFrame, RejectFrame, WaitTimesOut
  <2>3. Cardinality(Waiting') = Cardinality(Waiting) - 1
    BY <2>2, OneLessWaiting
  <2>4. /\ StepsLeft = (Lights - light) * Turn + Cardinality(Waiting) + 1
        /\ StepsLeft' = (Lights - light) * Turn + Cardinality(Waiting') + 1
    BY <1>0, <2>2 DEF StepsLeft
  <2> QED BY <1>0, <2>3, <2>4
<1>6. CASE NextLight
  <2>1. pc = "wait" /\ pc' = "wait" /\ light' = light + 1
    BY <1>6 DEF NextLight, LightStepDone
  <2>2. /\ StepsLeft = (Lights - light) * Turn + Cardinality(Waiting) + 1
        /\ StepsLeft' = (Lights - (light + 1)) * Turn + Cardinality(Waiting') + 1
    BY <1>0, <2>1 DEF StepsLeft
  <2>3. (Lights - (light + 1)) * Turn = (Lights - light) * Turn - Turn
    BY <1>0
  <2> QED BY <1>0, <2>2, <2>3
<1>7. CASE CompleteBundle
  BY <1>1, <1>7 DEF CompleteBundle, LightStepDone
<1>8. CASE PrepareSequenceFails \/ ArmFails \/ TriggerFails \/ LightStepFails
  BY <1>1, <1>8 DEF PrepareSequenceFails, ArmFails, TriggerFails, LightStepFails, FailJob, EndJob
<1> QED BY <1>2, <1>3, <1>4, <1>5, <1>6, <1>7, <1>8 DEF AcquireStep

\* A job is bound to end: each of its steps leaves fewer than before, whatever
\* fails, and frames that arrive or get lost, at any time, make it no longer.
THEOREM JobsAreBounded ==
  IsFiniteSet(Cameras) =>
    (Spec => [][/\ AcquireStep => StepsLeft' < StepsLeft
                /\ pc # "idle" => StepsLeft' <= StepsLeft]_vars)
<1> SUFFICES ASSUME IsFiniteSet(Cameras)
             PROVE  Spec => [][/\ AcquireStep => StepsLeft' < StepsLeft
                               /\ pc # "idle" => StepsLeft' <= StepsLeft]_vars
  OBVIOUS
<1> DEFINE Counted == CountedInv /\ StepsLeft \in Nat
<1>1. CountedInv => Counted
  BY StepsLeftTyped DEF CountedInv
<1>2. Counted /\ Counted' /\ [Next]_vars =>
        [/\ AcquireStep => StepsLeft' < StepsLeft
         /\ pc # "idle" => StepsLeft' <= StepsLeft]_vars
  <2> SUFFICES ASSUME Counted, Counted', Next
               PROVE  /\ AcquireStep => StepsLeft' < StepsLeft
                      /\ pc # "idle" => StepsLeft' <= StepsLeft
    OBVIOUS
  <2>1. TypeOK /\ TypeOK' /\ StepsLeft \in Nat /\ StepsLeft' \in Nat
    BY DEF CountedInv
  <2>2. AcquireStep => StepsLeft' < StepsLeft
    BY <2>1, StepsAreSpent
  <2>3. ASSUME NEW c \in Cameras, Arrive(c) \/ Lose(c) PROVE StepsLeft' <= StepsLeft
    <3>1. UNCHANGED <<pc, light, waits>>
      BY <2>3 DEF Arrive, Lose
    <3>2. StepsLeft' = StepsLeft
      BY <3>1 DEF StepsLeft, Waiting, Turn
    <3> QED BY <2>1, <3>2
  <2>4. AcquireStep => StepsLeft' <= StepsLeft
    BY <2>1, <2>2
  <2>5. pc = "idle" \/ AcquireStep \/ \E c \in Cameras : Arrive(c) \/ Lose(c)
    BY DEF Next, InitializeDevices, InitializeDevicesFails, UseDevices, BeginJob
  <2> QED BY <2>2, <2>3, <2>4, <2>5
<1> HIDE DEF Counted
<1>3. Spec => []CountedInv
  BY InitCounted, StepCounted, PTL DEF Spec
<1>4. Spec => []Counted
  BY <1>1, <1>3, PTL
<1> QED BY <1>2, <1>4, PTL DEF Spec

(***************************************************************************)
(* Fairness with the guard of AcquireStep spelled out, since ENABLED is    *)
(* beyond the prover, and a fact of the natural numbers that it cannot     *)
(* state as one, having no induction over behaviours: StepsLeft does not   *)
(* fall for ever.                                                          *)
(***************************************************************************)
AcquireRuns == []<>(pc = "idle") \/ []<><<AcquireStep>>_vars

NoEndlessDescent ==
  <>[][StepsLeft' <= StepsLeft]_vars => ~[]<><<StepsLeft' < StepsLeft>>_vars

\* Every job ends, with a bundle or an error, whatever the cameras deliver.
THEOREM JobsEnd ==
  IsFiniteSet(Cameras) => (Spec /\ AcquireRuns /\ NoEndlessDescent => EveryJobEnds)
<1> SUFFICES ASSUME IsFiniteSet(Cameras)
             PROVE  Spec /\ AcquireRuns /\ NoEndlessDescent => EveryJobEnds
  OBVIOUS
<1> DEFINE Idle == pc = "idle"
           Falls == StepsLeft' < StepsLeft
           Stays == StepsLeft' <= StepsLeft
<1>1. Spec => [][/\ AcquireStep => Falls
                 /\ ~Idle => Stays]_vars
  <2>1. Spec => [][/\ AcquireStep => StepsLeft' < StepsLeft
                   /\ pc # "idle" => StepsLeft' <= StepsLeft]_vars
    BY JobsAreBounded
  <2>2. [/\ AcquireStep => StepsLeft' < StepsLeft
         /\ pc # "idle" => StepsLeft' <= StepsLeft]_vars =>
          [/\ AcquireStep => Falls
           /\ ~Idle => Stays]_vars
    OBVIOUS
  <2> QED BY <2>1, <2>2, PTL
<1>2. pc # "idle" => ~Idle
  OBVIOUS
<1>3. NoEndlessDescent => (<>[][Stays]_vars => ~[]<><<Falls>>_vars)
  BY PTL DEF NoEndlessDescent
<1>4. AcquireRuns => []<>Idle \/ []<><<AcquireStep>>_vars
  BY PTL DEF AcquireRuns
<1>5. Spec /\ AcquireRuns /\ NoEndlessDescent => (~Idle ~> Idle)
  <2> HIDE DEF Idle, Falls, Stays
  <2> QED BY <1>1, <1>3, <1>4, PTL
<1> QED BY <1>5, PTL DEF EveryJobEnds
=============================================================================
