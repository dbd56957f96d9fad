-------------------------- MODULE FrameAcquisition --------------------------
(***************************************************************************)
(* FrameAssembler, the cameras it drives and the lights it fires: one job  *)
(* per seat, in which every light is armed and fired once (phase A) and    *)
(* then one frame per camera and light is collected (phase B).             *)
(*                                                                         *)
(* A frame does not carry the light it was taken under.  wait_frame labels *)
(* whatever the camera's SDK returns with the light it was asked for, so   *)
(* that what matters is which frames are on their way, and which of them   *)
(* the buffers of the SDK still hold when the next wait, or the next seat, *)
(* comes.                                                                  *)
(***************************************************************************)
EXTENDS Integers

CONSTANTS
  Cameras,       \* the cameras of the station, one view each
  Lights,        \* how many lights light_order lists
  MaxFailures,   \* max_camera_failures_before_reset
  DrainSettles,  \* a frame that was exposed arrives, or is lost, before a drain
                 \* has seen 50 ms without one
  MaxSeats       \* bound: jobs

ASSUME CamerasAssumption == Cameras # {}
ASSUME LightsAssumption == Lights \in Nat \ {0}
ASSUME MaxFailuresAssumption == MaxFailures \in Nat \ {0}
ASSUME DrainAssumption == DrainSettles \in BOOLEAN
ASSUME MaxSeatsAssumption == MaxSeats \in Nat

VARIABLES
  pc,              \* where acquire_bundles is
  seat,            \* the job, numbered from 1
  light,           \* light_seq_index, from 1
  ready,           \* initialized_: the cameras and the light controller exist
  camera,          \* each camera: grabbing_, frames on their way, SDK's buffer
  waits,           \* the futures of wait_all_views_for_light_step
  frames,          \* frames_by_view
  outcome,         \* how the last job ended
  consecutive,     \* consecutive_failures_
  cameraFailures,  \* camera_failures_
  unrestarted,     \* history: a camera's failed jobs since it was last started
  failedJobs,      \* history: failed jobs in a row
  lossy            \* history: cameras that lost a frame in this job

counters == <<consecutive, cameraFailures, unrestarted, failedJobs>>
vars == <<pc, seat, light, ready, camera, waits, frames, outcome, counters, lossy>>

-----------------------------------------------------------------------------
LightSteps == 1 .. Lights
Frames == [seat : Nat, light : LightSteps]
NoFrame == [seat |-> 0, light |-> 0]
Outcomes == {"NoJob", "Bundle", "DeviceFault", "LightFault", "CameraFault",
             "MissingFrame"}
CameraStates == [grabbing : BOOLEAN, flight : SUBSET Frames, buffer : SUBSET Frames]

Earlier(f, g) == f.seat < g.seat \/ (f.seat = g.seat /\ f.light < g.light)

\* A camera that start() has just been called on: its buffer is empty, and
\* grabbing_ stays FALSE when MV_CC_StartGrabbing fails.
Started(grabbing) == [grabbing |-> grabbing, flight |-> {}, buffer |-> {}]
Restarts == {Started(TRUE), Started(FALSE)}

\* Mutant: the buffers are left as they are.
Undrained(cam) == {cam}
\* drain_stale_frames: every frame that arrives before 50 ms pass without one.
\* Frames arrive in the order they were exposed.
Drained(cam) ==
  LET Rests == IF DrainSettles THEN {{}}
               ELSE {rest \in SUBSET cam.flight :
                       \A f \in rest, g \in cam.flight \ rest : Earlier(g, f)}
  IN  {[cam EXCEPT !.buffer = {}, !.flight = rest] : rest \in Rests}

\* Mutant: one failure more than configured is tolerated.
CountFailureLeniently(n) == IF n >= MaxFailures THEN 0 ELSE n + 1
\* handle_acquisition_failure and record_camera_failure count alike; 0 means
\* that the threshold was met and the devices, or the camera, are restarted.
CountFailure(n) == IF n + 1 >= MaxFailures THEN 0 ELSE n + 1

-----------------------------------------------------------------------------
Init ==
  /\ pc = "idle" /\ seat = 0 /\ light = 1
  /\ ready = FALSE
  /\ camera = [c \in Cameras |-> Started(FALSE)]
  /\ waits = [c \in Cameras |-> "waiting"]
  /\ frames = [c \in Cameras |-> [l \in LightSteps |-> NoFrame]]
  /\ outcome = "NoJob"
  /\ consecutive = 0
  /\ cameraFailures = [c \in Cameras |-> 0]
  /\ unrestarted = [c \in Cameras |-> 0]
  /\ failedJobs = 0
  /\ lossy = {}

-----------------------------------------------------------------------------
(***************************************************************************)
(* How a job fails.                                                        *)
(***************************************************************************)
\* reset_devices
ResetDevices ==
  /\ ready' = FALSE
  /\ camera' = [c \in Cameras |-> Started(FALSE)]

EndJob(result) ==
  /\ pc' = "idle" /\ outcome' = result
  /\ UNCHANGED <<seat, light, waits, frames, lossy>>

\* A step of a job fails with the cameras in the states cams: the failed
\* cameras are recorded, and so are those that passed; the failure is handled,
\* all cameras are drained and, when frames are missing, it is handled again.
FailJob(result, cams, failed, passed, handledTwice) ==
  LET restarted == {c \in failed : CountFailure(cameraFailures[c]) = 0}
      once == CountFailure(consecutive)
      count == IF handledTwice THEN CountFailure(once) ELSE once
      reset == once = 0 \/ count = 0
      After(c) == IF c \in restarted THEN Restarts ELSE Drained(cams[c])
  IN  /\ cameraFailures' = [c \in Cameras |->
                              IF c \in failed THEN CountFailure(cameraFailures[c])
                              ELSE IF c \in passed THEN 0 ELSE cameraFailures[c]]
      /\ consecutive' = count
      /\ IF reset THEN ResetDevices
         ELSE /\ camera' \in {next \in [Cameras -> UNION {After(c) : c \in Cameras}] :
                                \A c \in Cameras : next[c] \in After(c)}
              /\ UNCHANGED ready
      /\ unrestarted' = [c \in Cameras |->
                           IF reset \/ c \in restarted THEN 0
                           ELSE IF c \in failed THEN unrestarted[c] + 1
                           ELSE unrestarted[c]]
      /\ failedJobs' = failedJobs + 1
      /\ EndJob(result)

-----------------------------------------------------------------------------
(***************************************************************************)
(* The job up to its first light.                                          *)
(***************************************************************************)
BeginJob == pc = "idle" /\ seat < MaxSeats /\ seat' = seat + 1

\* ensure_initialized: what start() of a camera returned is not looked at.
InitializeDevices ==
  /\ BeginJob /\ ~ready
  /\ ready' = TRUE
  /\ camera' \in [Cameras -> Restarts]
  /\ pc' = "prepare"
  /\ UNCHANGED <<light, waits, frames, outcome, counters, lossy>>

InitializeDevicesFails ==
  /\ BeginJob /\ ~ready
  /\ outcome' = "DeviceFault"
  /\ failedJobs' = failedJobs + 1
  /\ UNCHANGED <<pc, light, ready, camera, waits, frames, consecutive, cameraFailures,
                 unrestarted, lossy>>

UseDevices ==
  /\ BeginJob /\ ready
  /\ pc' = "prepare"
  /\ UNCHANGED <<light, ready, camera, waits, frames, outcome, counters, lossy>>

\* prepare_light_sequence_for_view
PrepareSequence ==
  /\ pc = "prepare"
  /\ pc' = "arm" /\ light' = 1
  /\ frames' = [c \in Cameras |-> [l \in LightSteps |-> NoFrame]]
  /\ lossy' = {}
  /\ UNCHANGED <<seat, ready, camera, waits, outcome, counters>>

PrepareSequenceFails ==
  /\ pc = "prepare"
  /\ ResetDevices
  /\ unrestarted' = [c \in Cameras |-> 0]
  /\ failedJobs' = failedJobs + 1
  /\ UNCHANGED <<consecutive, cameraFailures>>
  /\ EndJob("LightFault")

-----------------------------------------------------------------------------
(***************************************************************************)
(* Phase A: arm all cameras, fire one light, without waiting for frames.   *)
(***************************************************************************)
\* arm_all_views_parallel: the cameras are armed by threads that are joined
\* before anything is recorded.
ArmAllViews ==
  /\ pc = "arm" /\ \A c \in Cameras : camera[c].grabbing
  /\ cameraFailures' = [c \in Cameras |-> 0]
  /\ pc' = "fire"
  /\ UNCHANGED <<seat, light, ready, camera, waits, frames, outcome, consecutive,
                 unrestarted, failedJobs, lossy>>

ArmFails ==
  /\ pc = "arm"
  /\ \E failed \in SUBSET Cameras \ {{}} :
       /\ {c \in Cameras : ~camera[c].grabbing} \subseteq failed
       /\ FailJob("CameraFault", camera, failed, Cameras \ failed, FALSE)

Exposed == [c \in Cameras |-> [camera[c] EXCEPT !.flight = @ \cup {[seat |-> seat, light |-> light]}]]

\* Mutant: the last light is followed by one that does not exist.
TriggerLightPastTheEnd ==
  /\ pc = "fire"
  /\ camera' = Exposed
  /\ IF light <= Lights
     THEN pc' = "arm" /\ light' = light + 1 /\ UNCHANGED waits
     ELSE pc' = "wait" /\ light' = 1 /\ waits' = [c \in Cameras |-> "waiting"]
  /\ UNCHANGED <<seat, ready, frames, outcome, counters, lossy>>
\* trigger_one_light_step: the light fires and every camera is exposed.
TriggerLight ==
  /\ pc = "fire"
  /\ camera' = Exposed
  /\ IF light < Lights
     THEN pc' = "arm" /\ light' = light + 1 /\ UNCHANGED waits
     ELSE pc' = "wait" /\ light' = 1 /\ waits' = [c \in Cameras |-> "waiting"]
  /\ UNCHANGED <<seat, ready, frames, outcome, counters, lossy>>

\* One of the four commands is not acknowledged.  The light fires all the same
\* when that was the last of them and only the acknowledgement was lost.
TriggerFails ==
  /\ pc = "fire"
  /\ \E cams \in {camera, Exposed} : FailJob("LightFault", cams, {}, {}, FALSE)

-----------------------------------------------------------------------------
(***************************************************************************)
(* Phase B: for each light in turn, one thread per camera waits for one    *)
(* frame.                                                                  *)
(***************************************************************************)
\* GetImageBuffer under MV_GrabStrategy_LatestImagesOnly: the newest frame is
\* returned and the older ones are discarded.
Latest(buffer) == {f \in buffer : \A g \in buffer : f = g \/ Earlier(g, f)}

ReceiveFrame(c) ==
  /\ pc = "wait" /\ waits[c] = "waiting"
  /\ \E f \in Latest(camera[c].buffer) : frames' = [frames EXCEPT ![c][light] = f]
  /\ camera' = [camera EXCEPT ![c].buffer = {}]
  /\ waits' = [waits EXCEPT ![c] = "received"]
  /\ UNCHANGED <<pc, seat, light, ready, outcome, counters, lossy>>

\* A frame that is empty or has the wrong size or pixel format is dropped.
RejectFrame(c) ==
  /\ pc = "wait" /\ waits[c] = "waiting"
  /\ camera[c].buffer # {}
  /\ camera' = [camera EXCEPT ![c].buffer = {}]
  /\ waits' = [waits EXCEPT ![c] = "failed"]
  /\ lossy' = lossy \cup {c}
  /\ UNCHANGED <<pc, seat, light, ready, frames, outcome, counters>>

\* Mutant: a camera that has nothing on its way is waited for.
WaitTimesOutInTransfer(c) ==
  /\ pc = "wait" /\ waits[c] = "waiting"
  /\ camera[c].buffer = {} /\ camera[c].flight # {}
  /\ waits' = [waits EXCEPT ![c] = "failed"]
  /\ UNCHANGED <<pc, seat, light, ready, camera, frames, outcome, counters, lossy>>
WaitTimesOut(c) ==
  /\ pc = "wait" /\ waits[c] = "waiting"
  /\ camera[c].buffer = {}
  /\ waits' = [waits EXCEPT ![c] = "failed"]
  /\ UNCHANGED <<pc, seat, light, ready, camera, frames, outcome, counters, lossy>>

\* Mutant: one camera's frame is enough.
LightStepDoneForSome ==
  /\ pc = "wait" /\ \A c \in Cameras : waits[c] # "waiting"
  /\ \E c \in Cameras : waits[c] = "received"
  /\ cameraFailures' = [c \in Cameras |-> 0]
  /\ waits' = [c \in Cameras |-> "waiting"]
  /\ UNCHANGED <<seat, ready, camera, frames, lossy>>
\* The end of wait_all_views_for_light_step when every camera has a frame.
LightStepDone ==
  /\ pc = "wait" /\ \A c \in Cameras : waits[c] = "received"
  /\ cameraFailures' = [c \in Cameras |-> 0]
  /\ waits' = [c \in Cameras |-> "waiting"]
  /\ UNCHANGED <<seat, ready, camera, frames, lossy>>

NextLight ==
  /\ light < Lights
  /\ LightStepDone
  /\ light' = light + 1
  /\ UNCHANGED <<pc, outcome, consecutive, unrestarted, failedJobs>>

\* All frames are there.  validate_shared_light_bundle compares labels that
\* were made from the request itself.
CompleteBundle ==
  /\ light = Lights
  /\ LightStepDone
  /\ pc' = "idle" /\ outcome' = "Bundle"
  /\ consecutive' = 0 /\ failedJobs' = 0
  /\ unrestarted' = [c \in Cameras |-> 0]
  /\ UNCHANGED light

LightStepFails ==
  /\ pc = "wait" /\ \A c \in Cameras : waits[c] # "waiting"
  /\ LET failed == {c \in Cameras : waits[c] = "failed"}
     IN  /\ failed # {}
         /\ FailJob("MissingFrame", camera, failed, Cameras \ failed, TRUE)

-----------------------------------------------------------------------------
(***************************************************************************)
(* The way from the sensor to the buffer, at any time.                     *)
(***************************************************************************)
Buffered(cam, f) == [cam EXCEPT !.buffer = @ \cup {f}, !.flight = @ \ {f}]

Arrive(c) ==
  /\ \E f \in camera[c].flight :
       /\ \A g \in camera[c].flight : g = f \/ Earlier(f, g)
       /\ camera' = [camera EXCEPT ![c] = Buffered(@, f)]
  /\ UNCHANGED <<pc, seat, light, ready, waits, frames, outcome, counters, lossy>>

Lose(c) ==
  /\ \E f \in camera[c].flight : camera' = [camera EXCEPT ![c].flight = @ \ {f}]
  /\ lossy' = lossy \cup {c}
  /\ UNCHANGED <<pc, seat, light, ready, waits, frames, outcome, counters>>

-----------------------------------------------------------------------------
AcquireStep ==
  \/ PrepareSequence \/ PrepareSequenceFails
  \/ ArmAllViews \/ ArmFails \/ TriggerLight \/ TriggerFails
  \/ \E c \in Cameras : ReceiveFrame(c) \/ RejectFrame(c) \/ WaitTimesOut(c)
  \/ NextLight \/ CompleteBundle \/ LightStepFails

Next ==
  \/ InitializeDevices \/ InitializeDevicesFails \/ UseDevices
  \/ AcquireStep
  \/ \E c \in Cameras : Arrive(c) \/ Lose(c)

Spec == Init /\ [][Next]_vars

\* The controller's thread and those it waits for keep taking steps.
FairSpec == Spec /\ WF_vars(AcquireStep)

-----------------------------------------------------------------------------
(***************************************************************************)
(* Properties.                                                             *)
(***************************************************************************)
TypeOK ==
  /\ pc \in {"idle", "prepare", "arm", "fire", "wait"}
  /\ seat \in Nat /\ light \in LightSteps
  /\ ready \in BOOLEAN
  /\ camera \in [Cameras -> CameraStates]
  /\ waits \in [Cameras -> {"waiting", "received", "failed"}]
  /\ frames \in [Cameras -> [LightSteps -> Frames \cup {NoFrame}]]
  /\ outcome \in Outcomes
  /\ consecutive \in 0 .. MaxFailures - 1
  /\ cameraFailures \in [Cameras -> 0 .. MaxFailures - 1]
  /\ unrestarted \in [Cameras -> Nat]
  /\ failedJobs \in Nat
  /\ lossy \subseteq Cameras

\* Every image of a bundle is of this seat and was taken under the light it is
\* labelled with, although no label comes from the camera, frames get lost and
\* a newer frame replaces an older one: a job in which a frame went missing,
\* or one too many arrived, is never completed.
BundleFaithful ==
  pc = "idle" /\ outcome = "Bundle" =>
    \A c \in Cameras, l \in LightSteps : frames[c][l] = [seat |-> seat, light |-> l]

\* docs/cpp_controller_current_logic.md:85: whatever way a job ended, the next
\* one finds no camera with a frame in its buffer or on its way.
NothingLeftBehind ==
  pc = "idle" => \A c \in Cameras : camera[c].flight = {} /\ camera[c].buffer = {}

\* docs/cpp_controller_current_logic.md:124-126: a camera does not fail in
\* max_camera_failures_before_reset jobs without being restarted, alone or with
\* all devices, although successful arming clears its own counter.
FailingCameraIsRestarted == \A c \in Cameras : unrestarted[c] < MaxFailures

\* Every job ends, with a bundle or an error, whatever the cameras deliver.
EveryJobEnds == pc # "idle" ~> pc = "idle"

\* docs/cpp_controller_current_logic.md:126: the devices are released when
\* failures in a row reach the threshold.  (A sequence the light controller
\* refuses resets them at once; that is another matter.)
ResetAfterRepeatedFailures ==
  [][ready /\ ~ready' /\ pc # "prepare" => failedJobs' >= MaxFailures]_vars
=============================================================================
