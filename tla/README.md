# Verification of the seat-surface inspection station

The station photographs car seats under several lights and decides whether a
seat's surface is good. A C++ controller owns the devices and the line signals;
a Python detector judges the images; they talk through two shared-memory rings.
The rule every document of the repository repeats is that the station is
*conservative*: when anything is missing, late, damaged or doubtful the answer
is `RECHECK`, never `OK`.

## Inventory

| Part | State | Operations | Interacts through |
| --- | --- | --- | --- |
| Frame ring (`FrameRingBuffer`, `ShmClient`) | slot states, jobs, `write_index` | initialize, publish; take, release | shared memory; compare-and-swap on one side, load and store on the other |
| Result ring (`ResultRingBuffer`, `ShmClient`) | slot states, results | publish_result; wait, read, reclaim | shared memory |
| Controller loop (`main`, `StationController`) | sequence counter, current job | wait_for_trigger, inspect_one_seat, initialize, cleanup | both rings, signal clients, devices |
| Health (`StationHealthMonitor`) | state, alarm level, counters, streak of rechecks | transition_to, record_result, record_fault | called by the controller |
| Frame acquisition (`FrameAssembler`) | armed cameras, failure counters, capture plan | acquire_bundles, arm, trigger a light, wait, drain, reset | cameras (worker threads), lights |
| Cameras (`CameraDevice`, `HikrobotMvsCamera`) | opened, grabbing, armed | initialize, arm, wait_frame, drain, cancel | vendor SDK callbacks (external) |
| Lights (`FlAcdhLightController`) | link, sequence prepared | prepare_sequence, trigger_channel, shutdown | serial or TCP link, acknowledgements |
| Signal clients (`TcpSignalClient` and others) | socket, receive buffer, waiting for a serial number | wait_trigger, publish_result, reconnect | PLC or scanner, files, presence gate |
| Storage (`image_writer`, `ProductionEventLog`) | day directories, log files | save, clean up, rotate | file system |
| Detector loop (`DetectorProcess`, `ShmClient`) | frame slot held, result | wait_next_job, process, publish_result | both rings |
| Pipeline (`algorithm`, `pipeline/*`, `models/*`) | calibrations and models already read | process: gate, preprocess, register, features, infer, fuse, decide | images in the slot (zero copy) |
| Recipes and calibration (`config/*`) | the loaded recipes | load, validate | read at start, looked up by every job |
| Result trace (`trace_writer`) | files per seat | write_result_json, complete | detector loop, one thread per traced job |
| Display channel (`display_channel`) | `display_events.jsonl`, `display_latest.json` | write, update_latest | files, written by two threads |
| Display application (`display_app`) | offset, seen events, statistics, journal, overlay, pending trigger | poll, record, alarm, manual trigger, restart | files; a socket to the controller |
| Station configuration (`station_runtime_config`) | none | load, validate | read once at start |
| Training tools, installers, QML | offline | — | — |

What is hard here: a verdict that depends on a chain of files, models and
thresholds, each of which may be missing, stale or contradict another; results
that reach the display by two files, written by two threads, several times; two processes that share slots without a lock; deadlines on
one side while the other keeps working; crashes that leave slots in any state;
three different lifetimes of the memory itself; devices that answer late. The
hazards, each at its line, are listed in `PROJECT.json`.

What makes the parts correct:

- rings: no slot is overwritten before its reader gives it back, none is lost
  while the processes live, leftovers cannot block the ring;
- controller and detector together: `OK` and `NG` only on an acceptable verdict
  about this very seat's intact images, one answer for every trigger;
- health: an alarm is raised by a streak of rechecks and stays until a good job;
- acquisition: an image is labelled with the light that was on, and one failure
  is counted once;
- signals: one trigger, one job; a lost answer is not reported as sent;
- pipeline: whatever is missing, stale or doubtful, the seat is not passed, and a
  job that is in order is judged;
- display: every result counts and alarms once, is shown with its own images and
  after the controller has it, and a manual trigger ends for a reason.

## Modules

| Module | What it is |
| --- | --- |
| `SlotProtocol` | the shared vocabulary (slot states, decisions, error codes, jobs, results) and the acceptance rules of `validate_detector_result` |
| `FrameRing`, `ResultRing` | one operator per atomic access to a slot's state word, with the contents that access publishes or gives up |
| `InspectionStation` | the composition: the controller's and the detector's loops over both rings, crashes, restarts, resets; its invariants, action and liveness properties |
| `SeatInspection` | the abstract promise: one seat at a time, at most one verdict per seat, an `OK` or `NG` only on an acceptable verdict on that seat |
| `InspectionStationProofs`, `ResultRoomProofs` | theorems about `InspectionStation` |
| `StationHealth` | the controller's main loop as `StationHealthMonitor` sees it: state, alarm level, streak of rechecks, counters |
| `StationHealthProofs` | theorems about `StationHealth` |
| `FrameAcquisition` | `FrameAssembler` with its cameras and lights: the two phases of a job, frames on their way and in the buffers, failure counters and resets |
| `FrameAcquisitionProofs` | theorems about `FrameAcquisition` |
| `Recipe`, `Calibration` | which documents the loader accepts and what it makes of them; geometry and calibration files |
| `QualityGate` | which jobs have images that may be judged |
| `Preprocessor`, `RoiLocator`, `YoloDecode` | checks against the calibration, and where the regions are in an image |
| `ReflectanceCube`, `FeatureBuilder` | registration of the lights of a region, and what each model gets to see |
| `InferenceEngine`, `PatchCore` | what each backend makes of its network's answer, and the assets it needs |
| `DefectDecision` | fusion, filter and rule engine |
| `DetectionPipeline` | the stages of one job composed of the operators above, with the detector's start and the trace record |
| `DetectionPipelineProofs` | theorems about the verdicts of `DetectionPipeline` |
| `PipelineDataProofs` | theorems about what it makes of images and candidates |
| `SequenceFacts` | lemmas about ranks, filters, least elements, flattened lists and induction that those proofs use |
| `DisplayChannel` | the detector's two threads and the two files of the display |
| `DisplayApp` | the display over `DisplayChannel`: polling, counting, alarms, the manual trigger, restarts |
| `DisplayAppProofs` | theorems about `DisplayApp` |
| `MCInspectionStation`, `MCStationHealth`, `MCDetectionPipeline` | values of the constants for TLC |

The pure modules form one chain of EXTENDS, in the order in which the code calls
them: `Recipe`, `QualityGate`, `Calibration`, `YoloDecode`, `RoiLocator`,
`Preprocessor`, `ReflectanceCube`, `FeatureBuilder`, `PatchCore`,
`InferenceEngine`, `DefectDecision`, `DetectionPipeline`. The modules meet in two
places: `InspectionStation` knows the pipeline as a set of possible verdicts,
of which `DetectionPipeline` shows that the controller accepts each one
(`VerdictAcceptable`, with the acceptance rules of `SlotProtocol`); and
`DisplayChannel` begins where a verdict has been found and its trace record been
written, and has the publishing of `InspectionStation` as a step that succeeds or
raises.

### How the state corresponds to the code

`cpc` and `dpc` are the places the two programs are in between two accesses to
shared memory. `job`, `probe`, `cslot` and `received` are locals of
`inspect_one_seat`, `FrameRingBuffer::publish` and `wait_for_result`; `nextSeq`
is `next_sequence_id_`. `dscan`, `dslot`, `djob`, `dresult` and `rslot` are
locals of `wait_next_job`, `_read_frame_slot` and `publish_result`.

A step is one access to a slot's state word, or one decision taken between two
of them. What lies between a successful claim and the store that ends it is
exclusive to the claimant, so it belongs to that store. A probe of a slot that
is busy is a step of its own: the other process may change the slots that this
pass has visited already.

The images are a number, `unit`: the seats in the order they were triggered.
It is carried by frames, verdicts and results but never looked at by an action's
guard; it lets a property ask whose images an answer is based on. `Tags` stands
for the pairs of trigger and seat id, which the outside may repeat. A checksum
is modelled by whether it still matches (`integrity`, `intact`). Deadlines are
modelled by the choice, at the end of each pass over a ring, between another
pass and giving up, which is where the code looks at the clock.

`unit`, `answer`, `judged`, `crashes`, `restarts` and `spoiled` are history.

### The health monitor

`health` is `StationHealthSnapshot`; `pc` is where `main` is in its loop, with a
step for what it does between two places where it blocks (the display's
trigger, the external trigger, the job). `Transition`, `RecordResult` and
`RecordFault` are the monitor's functions as operators on the snapshot, so that
an action can chain the calls its code makes: a job that fails is counted, may
raise the alarm, may enter `Fault`, and otherwise ends in `Ready`. Alarm
messages are compared by an early return of `transition_to`; the texts that
play one role are one value. The outcomes of `inspect_one_seat` are the choices
of `JobFails`, `CaptureCompletes` and `VerdictDelivered`; how they come about is
what `InspectionStation` models. `captureOnly`, the mode of the configuration, is
chosen once, at the start. The length of the back-off after failed waits
is left out, their number (`triggerFaults`) is kept.

Three things the model makes visible and the documents do not spell out: the
recovery at the start of a wait clears the alarm of a failed trigger as long as
no streak is on; a Critical alarm becomes Warning when a lesser failure follows a
fault before the streak itself is critical; and in capture-only mode nothing
ends a streak, because only a verdict does.

### Frame acquisition

A job is one call of `acquire_bundles`; `pc` is the place in it (`arm` and `fire`
in phase A, `wait` in phase B), and a step is one light's arming, firing or, per
camera thread, waiting. The join of the threads is a step of its own. `FailJob`
is everything a failing step calls: the camera counters and restarts, the
counter of the devices, the drain, and for missing frames the second count.

Frames are pairs of seat and light, the truth about an image that the code does
not have: the assembler labels by position. What is outside is the way from the
sensor to the buffer of the camera's SDK (`Arrive`, `Lose`, any time) and the
SDK's grab strategy, of which the code chooses `LatestImagesOnly`: the newest
frame is returned, older ones are discarded (`Latest`). `DrainSettles` says that
a frame on its way arrives, or is lost, before a drain has seen 50 ms without
one. The code relies on it; whether it holds depends on exposure and transfer
times. `InspectionStation` has this module's outcomes as its `AcquisitionFails`
and its step to publishing.

Per camera the counter of failures is cleared by successful arming, and survives
a reset of the devices. So a camera whose frames keep missing is never restarted
alone: the devices are reset first. What holds (`FailingCameraIsRestarted`) is
that it does not fail in `MaxFailures` jobs without one or the other. A comment in
`station_runtime.production.conf` says that a threshold of 0 disables restarts;
`validate_station_runtime_config` refuses 0, hence the assumption.

### The detection pipeline

`stage` is the place in `SeatSurfaceAoiAlgorithm.process`; `prepared`, `cubes`,
`groups`, `candidates` and `fused` are what its stages hand on. An early return
and an exception handler are steps of the same action: `EndWith` carries the
verdict the handler makes, `Handled` says which handler an exception meets.

What the properties tell apart is kept of the data. A *document* is the parsed
recipe file, with `Absent` for keys it leaves out; `Accepted` is the conjunction
of the loader's checks, which all raise the same error, and `RecipeOf` fills in
the defaults. A *job* is a list of bundles, one per camera and pose, of frames
by light. A frame carries the statistics the gate takes of its pixels, its
capture metadata and `offset`, how far what it shows is displaced. A *site* is
what is installed beside the program: calibration files, templates, model files
and what a region model sees. Scores and ratios are in tenths and coordinates in
whole pixels; `Rounded` is the rounding of Python, `Tanh` a table.

What a network answers is not determined (`Observations`): detection rows, the
distances of patches to the memory bank, or how bright a feature is. Everything
the program makes of an answer is: decoding, thresholds, box mapping, masks, the
calibrated score, merging, suppression, the overflow of a region's candidates.
Image correlation is modelled by what ECC and the translation search answer for a
displacement: the sum of squares of the shift and the correlation, not the
iterations. OpenCV's search, which is outside, is idealised: it answers the displacement
itself. The place of a region in the image is a box, and mapping back into it scales each
axis; this is what the homography of the code does for an upright region. Rounding and
clipping are those of the code. Of a recipe, the ranges of `coreset_ratio` and
`mask_threshold` are left out: nothing here depends on them.

The loader reads every recipe before the detector starts, and one that is not
accepted keeps the service from starting, whichever recipe it is
(`RefuseRecipes`). A job with an unknown recipe is an internal error of the
pipeline but leaves as a `DEVICE_FAULT`, because the trace looks the recipe up
again (`WriteTrace`).

### The display

A result is the number of its job. This stands for the identity the code compares
(sequence, trigger and time stamp): one thread stamps all results, in order.
`events` is `display_events.jsonl`, `latest` is `display_latest.json` with the
result and whose images it shows, `completions` are the daemon threads of the
traces with what each has still to do. `update_latest` reads, compares and
replaces without a lock, so the comparison and the replacement are two steps,
and the detector may write in between; the display may then see the previous result again.

`job` is also the owner of the images in the frame slot: the arrays of a job are
views of the slot, which the next job fills. `snapshot` is the copy taken before
the slot is given back. `PublishFails` ends the process; the files stay. `shutdown`
waits for the trace threads, so in the model they finish before it; that they do not
finish at all is allowed too, since a process that is killed takes its daemon threads
with it.

The display's timer is three steps, the last two of them after whatever the detector did in between:
read the new lines, process them one by one or read the latest file, then the
countdowns. Callbacks of the user interface run between two timer runs, in the
same thread (`task = "none"`); the thread of a manual trigger ends at any time
(`ExchangeWithController`), its signal is handled later. `shown` is the key of
the event on the screen with its image signature; `seen` is
`_seen_detection_events`, rebuilt at a restart from the journal, where a result of
the current session may be missing because its time stamp went through a
float. The session of the code starts two seconds before the program: `session` is
any point before the newest result.

Left out are the review queue, the log of controller alerts, the operator's own
journal records, filters and texts. A line is appended in one write; the code
would lose a line that it sees half-written.

### Memory

`ResetOnStart` is `reset_shared_memory` (cleared by `--no-reset`), `PosixMemory`
chooses the platform. POSIX objects outlive every process, and a reset unlinks
them: a detector that was running keeps the old memory, which the model calls
`detached`. A Windows mapping lives as long as somebody holds it, a reset fails
while the detector is attached, and the detector cannot start before it exists.

## Runs

| Run | Question | Bounds |
| --- | --- | --- |
| `crash` | safety and refinement with a crash of each program | 3 seats, 2 slots, a sound and a self-contradicting verdict (error verdicts come up in `damage`), 1 + 1 crashes |
| `damage` | damaged frames and results, results that cannot be packed: answers stay conservative, and leftovers never fill the result ring | 3 seats over 2 slots, 2 identities |
| `windows` | with Windows mappings and `--no-reset`: is every trigger answered, and does each death cost one frame slot at most? | 3 seats, 1 + 1 crashes |
| `health` | do alarms follow the streak and ease only for a reason, is every job counted once, is a fault recovered from? | 6 jobs, online and capture-only, thresholds 3 and 5, 2 failed waits in a row |
| `acquire` | is every bundle made of the right images, a failing camera restarted, does every job end? | 3 seats, 2 cameras, 3 lights, threshold 2 |
| `acquire_late` (violation) | the same bundles when a frame outlasts the drain | 2 seats, 2 lights |
| `acquire_reset` (violation) | are devices reset only after failures in a row? | 2 seats, threshold 2 |
| `pipeline` | no OK or NG on part of a seat, no OK in spite of a suspicion, no NG without a cause, no verdict the controller would refuse, no job without a verdict | 4 installations, 1 fault out of 34 to 40 edits, 34 disturbances or 27 losses each, up to 18 answers of a network |
| `escape` (violation) | does the safety net's suspicion always count? | the first installation, no fault |
| `display` | is every result counted and alarmed once, shown with its images after the controller has it, no line missed, does a trigger end for a reason? | 2 results, 1 trigger, 1 restart, 1 line per poll |
| `no_reset` (violation) | conservative answers with `--no-reset` | 2 seats, 1 restart |
| `spoiled` (violation) | is a spoiled result slot reported? | 2 seats |

Two slots are the smallest ring in which a pass visits a slot before and after
the one that matters and in which the write index wraps; the default is larger,
which only makes the ring-full cases rarer. Six jobs are enough to pass both
thresholds and to have a job after. Three seats are one more than the threshold of
failures, which is the configured one; three lights are the installed number,
and the least with a light
before and after a skipped one. Two seats are needed for a leftover
to meet a later job, three for a leftover of a dead detector to meet a job of a
restarted controller. The proofs have no bounds.

The combination of platform and `--no-reset` decides what a restarted controller
finds: new memory with the detector left on the old one (`crash`), memory kept in
every case (`no_reset`), or kept exactly as long as the detector lives (`windows`,
where slots left `WRITING`, `READING` or `CORRUPTED` by an earlier life meet the
new sequence numbers, and a controller that died between claiming a frame slot and
publishing it has left one that nobody will publish or free: `FrameSlotsAccounted`
bounds both kinds of leftover by the deaths of their owners). The fourth, a Windows reset, only keeps the controller from
starting while the detector is attached; its safety is covered by the proofs.

`no_reset`: the sequence counter restarts at 1 in every process while
`--no-reset` keeps the rings, and the identities of the simulated, manual and
file triggers restart as well; the late result of the dead controller's seat is
accepted for another seat. Without `--no-reset` the same property holds (`crash`).

`spoiled`: when packing a result raises, the detector marks the slot `CORRUPTED`
before any sequence id of this job is in it. The controller takes it for a
leftover and waits for its deadline. The answer is `RECHECK` either way; the
error code and the waiting time differ from what the controller's test of that
branch expects.

`acquire_late`: the drain after a failed job stops at the first 50 ms of silence,
and nothing is drained before the next job, although the top-level README says
so. A light that fired although its acknowledgement was bad leaves exposures on
their way; a frame that comes later becomes the next seat's first image and
shifts the labels of the others, and the bundle is complete.

`acquire_reset`: a missing frame is handled twice, so that one failed job reaches
the configured threshold of two and releases all devices. It also hides the case
of `acquire_late` for missing frames, because released cameras keep nothing.

`acquire` also allows that two frames which arrive before the first wait cost the
job its last one. A comment in `frame_assembler.cpp` promises that no frame is lost
in the buffers; the grab strategy contradicts it. The answer is a `RECHECK`, and
no wrong bundle comes of it.

`damage` is without crashes, because with a crash of the controller `ResultRoom`
is false: the detector goes on publishing into a ring that nobody sweeps, and
when it is full `publish_result` raises the `TimeoutError` that ends
`run_forever`.

`pipeline`: the four installations between them use every backend of regions,
registration and models: a fixed camera over a template with a detector and a
spatial safety net; a robot's camera at two taught poses with the stand-in model;
a robot's camera that is told its poses, with segmented regions and a global
anomaly model; two fixed cameras with box detectors. One fault is enough to reach every check, since each check is of a single
field or of two that must agree, and starting from order makes the check the only thing between
the fault and a verdict. What two faults can do together is covered by the theorems
where there is one. `SoundJobJudged` is the other half: with no fault a job is not
rechecked for a reason other than what the models answered. `RejectedForACause` does
for NG what `SuspicionNotDropped` does for OK: merging hands a score on together with
the levels it was given under, so no reject comes of what each model called less.

`escape`: fusion keeps of two overlapping candidates the thresholds of the one with
the higher score. A detection of the primary model that is below its own level
absorbs the safety net's candidate, which is above the level of its bank, and the
seat is passed. `SuspicionNotDropped`, which the run `pipeline` checks, is what
does hold: a seat is not passed if the suspicion is above the levels of every
model that looked at the region.

`display`: two results are the fewest that can overtake each other in the two files; one line per poll makes
the limit of lines bite; one restart separates two sessions with a result in
each, or one counted by both. `TypeOK` of this run includes that a trigger's answer is
pending only while it is submitting, which a second delivery of the signal breaks.

## Fairness

Only the controller is assumed to be fair: its thread keeps taking steps
(`WF_vars(ControllerStep)`), and its deadlines are real, so that a pass that is
repeated for ever is cut short (`SF_vars` of the two time-outs: their guard is
true at the end of every pass, not continuously). Nothing is assumed of the
detector, which may be dead, stuck or slow.

`StationHealth` assumes that `main` goes round its loop again after a job or a
wait (`WF_vars(EnterWait \/ Exit)`); triggers need not come. `FrameAcquisition`
assumes that the thread of the job and those it waits for go on
(`WF_vars(AcquireStep)`), their waits being bounded by `camera_timeout_ms`, and
nothing of the cameras.

`DetectionPipeline` states no fairness: a job is a sequence of calls, and what is
checked instead is that no stage lacks a successor (the run checks for deadlock,
and `NextJob` needs a verdict). `DisplayApp` assumes that the event loop runs the
timer's handler (weak fairness of its steps), that it takes the queued signal of
the trigger's thread between two of its runs, and that among the ticks of a wait
that lasts there is one after its 30 s (strong fairness, since both are possible
only between timer runs or in one kind of step); and that the trigger's thread
ends, every read of its socket having a deadline. Nothing is assumed of the
detector, the operator or the controller.

## Proofs

The proofs about the station hold for every `SlotCount` of at least one, every set of tags and
verdicts, and every value of the bounds; the assumptions used are the named
`ASSUME`s of `InspectionStation`. The bounds (`MaxUnits`, `MaxCrashes`,
`MaxRestarts`) stay in the guards but no argument uses how large they are.

| Theorem | Shows | Needs |
| --- | --- | --- |
| `TypeCorrect` | `[]TypeOK` | — |
| `FrameStaysUnderInspection` | `[]FrameUnderInspection` | — |
| `FramesAreKept` | `PublishedFramesKept` | — |
| `FrameSlotsAreAccountedFor` | `[]FrameSlotsAccounted` | — |
| `ResultSlotsAreAccountedFor` | `[]ResultSlotsAccounted` | — |
| `ResultRingHasRoom` | `[]ResultRoom` | `MaxRestarts = 0` |
| `AnswersAreConservative` | `[]ConservativeAnswer` | `ResetOnStart` |
| `StationImplementsSeatInspection` | `ImplementsSeatInspection` | `ResetOnStart` |
| `AlarmsFollowStreaks` | `[]AlarmFollowsStreak` | — |
| `AlarmsMatchStates` | `[]AlarmMatchesState` | — |
| `JobsAreAccountedFor` | `[]JobsAccounted` | — |
| `AlarmsEaseForAReason` | `AlarmEases` | — |
| `AcquisitionTypeCorrect` | `[]TypeOK` | — |
| `FailingCamerasAreRestarted` | `[]FailingCameraIsRestarted` | — |
| `HealthTypeCorrect` | `[]TypeOK` | — |
| `BundlesAreFaithful` | `[]BundleFaithful` | `DrainSettles` |
| `NothingIsLeftBehind` | `[]NothingLeftBehind` | `DrainSettles` |
| `PipelineTypeCorrect` | `[]TypeOK` | — |
| `VerdictsAreAcceptable` | `[]VerdictAcceptable` | — |
| `JudgedInOneShot` | `[]OneShot` | — |
| `JudgedSeatWasSeen` | `[](Judged => SeenInFull)` | — |
| `SeatsAreJudgedInFull` | `[]JudgedInFull` | `[]Typed` |
| `LightsAreInRegister` | `[]LightsInRegister` | `[]Typed` |
| `NoCandidateLost` | `[]CandidatesAccountedFor` | `[]Typed` |
| `SuspicionIsNotDropped` | `[]SuspicionNotDropped` | `[]Typed` |
| `DefectsStayInRegion` | `[]DefectsInRegion` | `[]Typed` |
| `DisplayTypeCorrect` | `[]TypeOK` | — |
| `ResultsCountedOnce` | `[]CountedOnce` | — |
| `OnlyPublishedShown` | `[]ShownWasPublished` | — |
| `ImagesAreOwn` | `[]ImagesOwn` | — |
| `AlarmsAreNew` | `AlarmsOnce` | — |
| `WaitEndsForAReason` | `TriggerEndsForAReason` | — |
| `RejectsHaveCauses` | `[]RejectedForACause` | `[]Typed` |
| `SafetyNetHolds` | `[]SafetyNetNotAbsorbed` | `[](Typed /\ LevelsAgree)` |
| `SoundJobsAreJudged` | `[]SoundJobJudged` | `InstallationsInOrder`, `[]Typed` |
| `ResetsAreEarned` | devices are released after half the configured failures at the earliest | — |
| `JobsAreBounded` | each step of a job lowers `StepsLeft`, no other raises it | `Cameras` finite |
| `NoLineIsMissed` | `[]LinesAccounted` | — |
| `TriggersAreAnswered` | `EveryTriggerAnswered` | `ControllerRuns`, `NoEndlessPass` |
| `JobsEnd` | `EveryJobEnds` | `AcquireRuns`, `NoEndlessDescent`, `Cameras` finite |
| `FaultsRecover` | `FaultRecovers` | `MainLoopRuns` |
| `TriggersEnd` | `TriggerEnds` | `TimerRuns`, `TriggerRuns` |
| `EventsAreRecorded` | `EventRecorded` | `TimerRuns` |

`AnswersAreConservative` and the refinement are false without `ResetOnStart`: the
run `no_reset` is the counterexample, and the hypothesis is used in one place, to
show that a starting controller finds nothing an earlier life left behind. The
other theorems about the rings hold with and without it.

*Frame under inspection.* The property is close to inductive. The detector
holds a slot that is `READING`; the controller writes only slots it has moved
from `EMPTY` to `WRITING`; the one step that could reuse a held slot is the
reset, and that one detaches the detector.

*Conservative answers.* `ConservativeAnswer` compares an answer with the
verdict of the answered seat and says nothing of what is on its way. The
inductive invariant (`SeatInv` and `Lineage`) follows a seat's number:

1. `OneVerdict`: a frame still to be judged belongs to a triggered seat without
   a verdict, and to no seat that another such frame belongs to;
2. `CurrentSeat`: what the controller holds and waits for is the last seat's;
3. `GenuineResults`: an intact `OK` or `NG`, in a slot, in the detector's hands
   or in the controller's, is the detector's verdict on the seat it names;
4. `ResultClaims`: the detector writes only the slot it has claimed, and the
   controller reads only the one it has taken, so bodies do not change in use;
5. `Lineage`: since the memory was reset, seat numbers and sequence numbers have
   advanced together, so a result that carries the awaited sequence number is
   about the awaited seat. The code compares sequence numbers, triggers and
   seat ids; the property is about seats. This is the bridge.

*Refinement.* With those, `StepRefines` maps each step to a trigger, a verdict,
an answer or an abandoned seat of `SeatInspection`, or to a stutter.

*Accounting.* Orphans are the slots that are `READING` or `WRITING` on behalf of
a detector that no longer holds them. A step changes the set by at most the slot
the detector held, and then only when `crashes` goes up. A frame slot that is
`WRITING` and not the controller's is abandoned: the set grows by at most the slot
the controller held, and then only when `restarts` goes up; replacing the
memory empties it. So without a reset a death of either program may cost a slot for as long
as the memory is kept, and nothing else does.

*Room.* A job the detector owes an answer to occupies a frame slot, an answer
nobody has fetched a result slot. `RoomInv` bounds their sum, the load, by
`SlotCount`, and by one more only while the controller waits with an answer still
ahead of its sweep. The load grows only when a frame is published; the wait that
follows ends with one answer fetched, or after a sweep that passed none: sequence
numbers show that no slot with an answer lies behind the sweep. A detector with a
result in hand that finds every slot taken has a load of `SlotCount + 1`, so the
controller is in its wait. A crash voids the argument, hence the hypothesis.

*Health.* The properties follow from one invariant, `HealthInv`. Its first
part (`Sound`) says which snapshots the monitor can be in; the second, which of
them go with each place of the loop. The second part is what makes it inductive:
an alarm is cleared by the transition to `Running` or `Ready`, and a job may only
start after the wait has taken the station out of `Fault`. The thresholds are
arbitrary: the code makes the critical one the larger of the two.

*Bundles.* Labels are positions, so the proof follows positions. `InOrder` says of
each camera that its frames are this seat's, of lights already fired, the
buffered ones older than those on their way, and that it is either exact (what it
delivered was right and only later lights are left) or short (a light was
skipped, and the lights left are too few for the waits left). Receiving a frame
leads from exact to exact or short and from short to short; a camera that has
delivered as many frames as there are lights cannot be short. Between jobs the
same invariant says that nothing is on its way.

*Restarts.* The devices' counter never falls behind a camera's failed jobs since
its last start: both are cleared together, and each failed job moves it.

*Pipeline.* The constants are arbitrary sets of documents, jobs and sites, and an
arbitrary answer for each model, so the theorems hold for any number of faults.
The argument is the gate's: `PipelineInv` says that a job behind the gate has
passed it (`Gated`), that neither the job nor the recipe changes until the next
job, and that a verdict is one that a handler or the rule engine makes (`Fit`). A
judgement is made by the rule engine only, which is behind the gate; what the gate
demands of each light of each bundle is then what the two properties say.

*Data of the pipeline.* The theorems about data hold for all documents, jobs,
sites and answers of the networks that have the types the parsers give them:
`Typed` says that lists are lists, coordinates integers, tables finite. The code has
this from its parsers, whatever a file says; that a width is positive, a box upright
or a polygon a quad is not part of it, but what the checks of the pipeline establish.
Scores and distances are numbers, beside a flag for those that are not finite, and a
bank may lack its mean or its percentile; what is absent is no number
(`AbsentIsNoNumber`). `MCTyped` has TLC confirm that all inputs of the runs are typed. `MadeInv` is
the inductive invariant: what a stage has left behind is what the code makes of the
job, and a result of fusion, once there, comes out of the whole pipeline. It reduces
the properties to statements about the operators:

1. *Judged in full*: every region of a template is located or the job is rechecked;
   every region of every bundle becomes a cube, every cube a group for each model the
   recipe names for it, and the gate has seen every view of the recipe.
2. *In register*: the search stops at the first ring that gives it a reason to, which
   exists since the radius is finite, and answers the first shift of the best value.
   A correlation that is not negative bounds the distance to the displacement, and
   the report passes only with correlations and shifts within the limits. That the base
   light is one of the cube's follows from the checks of the recipe.
3. *Candidates found*: each backend's candidates lie in the box of the region the
   model was shown: rows mapped back from the model's input are clipped to it, and so
   is the box of every component of an anomaly map.
4. *Accounted*: the invariant of the rounds of non-maximum suppression. After
   n candidates, kept, merged and overflowed ones are n; what is kept lies in
   its region (`Claimed`), since all groups of a region have one box and merging
   makes the least box around two; and while nothing has overflowed, each candidate
   lies in a kept one of its region. The sort is a permutation of the candidates
   (`ScoreOrder`), so after the last round this is said of all of them.
5. *Not dropped*: each backend reports its worst finding (`Reports`): a candidate at
   least as bad, unless the finding is below the level its candidates carry, or below
   the threshold that discards rows. Merging keeps the higher score, so the kept candidate
   in which the worst one lies (4) is at least as bad; what level it carries is that of
   some model of the region (`Claimed`), not of this one. The filter drops
   only what is below the level it carries, whatever its area: the seat is passed only if the suspicion is below the level of one of the region's models.

The proof of the last found an error of the model. A recheck level of 0 is legal, and a
model that has seen nothing had been given suspicion 0, which is not below that level:
the property would have asked for a recheck where there is nothing to judge. A model
that saw nothing is now at -1, and the run has the edit that tells the two apart.

*Causes.* `RejectsHaveCauses` is the other direction: each backend's candidates have no
more score than the worst finding it reports, and carry the NG level of their own model
or of the recipe; merging hands on a score together with the levels it came with; the
rule engine says NG only for a kept candidate that reaches its own level. Where a
distance is no number nothing can be said, and `Unsure` says so. What can be said is in
`SuspicionNotDropped`: such a seat is not passed either, because fusion refuses a score
that is no number and the job ends in an error, unless an index stood in for the exact
search (`ScoredByIndex`), which makes the distance zero.

*The escape's extent.* `SafetyNetHolds` is `SuspicionIsNotDropped` with one more
hypothesis. `LevelsAgree` says that no model of a region has a higher recheck level than
its safety net, and that the score threshold of the safety net is not above that level; then `SafetyNetNotAbsorbed`
holds. The finding of the run `escape` can concern other recipes only.

*Sound jobs.* `InOrder` says of any installation what the code asks of it: the recipe is
accepted and is the job's, the gate passes the images, each region is found, each light
in register, each channel can be built, and the files of each model are there. TLC
confirms it of the four installations (`MCInOrder`). `SoundInv` follows a job nothing is
wrong with through the stages: each stage is handed what `InOrder` speaks of, since
`MadeInv` says that what was left behind is what the code makes of this very job.

The recursive functions of these modules (the rounds, the flattening of lists) are
treated by induction in the form `AllNumbers`: a set of numbers with 0 and with n + 1
for each n is all of them; it is first shown that the function exists.

*Display.* `ChannelInv` is about the files: lines are appended in the order of the
jobs and after their publication, and what `display_latest.json` or a trace thread
holds was appended, with its own images or none. A step of the detector only adds
to this (`ChannelGrows`), so what the display relies on stays true while it is
between two steps. `DisplayInv` is about the display: what was counted in this
session was appended and is in `seen`; so a result that is not in `seen` is not
counted yet, and the counter and the set grow together. For the trigger it says
that no result of its seat stamped since the wait began was counted: that result
would have ended the wait in the step that counted it.

*Resets.* A failed job counts once or, when frames are missing, twice: the counter never
exceeds twice the failed jobs in a row, so a reset that failing jobs cause needs at least
half the configured number of them. That is what is left of the documented promise which
`acquire_reset` refutes.

*Liveness.* The prover knows neither ENABLED, which is in the definition of `WF` and
`SF`, nor induction over the length of a behaviour. Two things are therefore hypotheses
of the liveness theorems where `FairSpec` has fairness:

1. Fairness with the guards spelled out: `ControllerRuns`, `AcquireRuns`, `MainLoopRuns`,
   `TimerRuns` and `TriggerRuns` say that an action is taken again and again unless its
   guard is false again and again (weak), or in the end always (strong). The guard is
   the condition under which the action can be taken; that it is exactly that is read
   off the action. For example, `ControllerStep` can be taken in every state but `idle` and `down`.
2. A natural number does not fall for ever. `NoEndlessDescent` says this of `StepsLeft`,
   the bound on the steps of a job that `JobsAreBounded` proves to fall; `NoEndlessPass`
   says it of the slots a pass over a ring has still to visit; and `TimerRuns` has it for
   the lines of one poll, which `BatchShrinks` proves to be fewer after each one
   (`[]<>(task # "lines")`).

Everything else about these properties is proved: that no step leads back, that each
state the controller or the handler waits in has a way out that is taken, and that the
environment (detector, cameras, operator, files) can neither undo nor prolong it.
TLC checks the same properties under `FairSpec` with WF and SF as they are defined.

Only model-checked: that the guards spelled out are those under which the actions are
enabled, by the runs of the same properties under WF and SF; and the disagreements with
the documentation.

## Plan

Done: the rings and the inspection path with their abstract specification; the
health monitor; frame acquisition; the detection pipeline from the recipe file
to the recorded verdict; the display's files and the display; theorems about each.

Left, in this order:

1. `TcpSignal`: the line protocol (a partial line flushed as a whole one when a
   finite wait ends, the state of waiting for a serial number across a reconnect)
   and lost answers.
2. `LightController`: commands and acknowledgements that come late over a link
   that does not match them.
3. `Storage`: watermarks, deletion of the oldest days, log rotation.
4. The review queue of the display.

## Not modelled

- Light controllers, the signal clients and storage: see the plan. What the other
  modules need of them is a step that succeeds or fails.
- Station configuration: a sequential parser; the constraints that matter to
  others are the named assumptions of their constants.
- PNG, CRC and replay: bytes without state; a checksum matches or does not.
- What pixels are: convolution, correlation, embeddings and distances are
  represented by the answers they can give. The sub-pixel part of ECC, histogram
  normalisation and the drawing of overlays are left out.
- Simulated and replay cameras, which have a frame for every wait.
- QML, training tools and installers: they share no state with the running station.

Differences between documents and code that no run shows: `patchcore.py` 89 says
that a distance at the 99th percentile scores 0.76, the formula gives 0.46; the
rows of an ONNX region model are not mapped back from its letterbox
(`roi_locator.py` 137-154); a recipe with a camera's default view and a taught pose
accepts a job without the default view (`Seen`), where `docs/shm_protocol.md` 76
announces a missing pose; `display_app` takes a result stamped up to two seconds
before its start for one of this session (`main_viewmodel.py` 1067-1070), against
`README.md` 42; a patch for which an index finds no finite distance gets the distance
zero and may pass (`patchcore.py` 529-542), where `python_detector/README.md` 298 says
that a value that is not finite never becomes an OK. The model has the zero distance
(`IndexedDistances`); whether an index ever answers so is up to the library.
