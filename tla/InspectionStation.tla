------------------------- MODULE InspectionStation -------------------------
(***************************************************************************)
(* The online inspection path: the C++ controller's loop (main,            *)
(* StationController::inspect_one_seat) and the Python detector's loop     *)
(* (DetectorProcess.run_forever) talking through the frame ring and the    *)
(* result ring, with crashes and restarts of either process.               *)
(*                                                                         *)
(* A step is one atomic access to a slot's state word, or one decision     *)
(* taken between two of them.  Each process runs one thread on the rings.  *)
(***************************************************************************)
EXTENDS FrameRing, ResultRing, FiniteSets

CONSTANTS
  MaxUnits,        \* bound: seats triggered in a behaviour
  MaxCrashes,      \* bound: detector crashes
  MaxRestarts,     \* bound: controller crashes
  AcquisitionCodes,\* codes of a failed storage check, capture or image save
  FrameFaults,     \* integrities a published frame slot may have
  ResultFaults,    \* may a published result be damaged?
  ResetOnStart,    \* reset_shared_memory (FALSE with --no-reset)
  PosixMemory      \* TRUE: POSIX shm objects, FALSE: Windows named mappings

ASSUME BoundsAssumption ==
  MaxUnits \in Nat /\ MaxCrashes \in Nat /\ MaxRestarts \in Nat
ASSUME AcquisitionCodesAssumption == AcquisitionCodes \subseteq ErrorCodes
ASSUME FaultsAssumption ==
  "ok" \in FrameFaults /\ FrameFaults \subseteq Integrities
    /\ ResultFaults \in BOOLEAN
ASSUME MemoryAssumption == ResetOnStart \in BOOLEAN /\ PosixMemory \in BOOLEAN

VARIABLES
  \* controller
  cpc,       \* where the controller is
  nextSeq,   \* next_sequence_id_
  job,       \* the bundle being inspected
  probe,     \* slots visited in the current pass over a ring
  cslot,     \* the slot claimed in the frame ring or taken from the result ring
  received,  \* the result read by wait_for_result
  \* detector
  dpc,       \* where the detector is
  dscan,     \* next slot wait_next_job looks at
  dslot,     \* frame slot held (_pending_frame_slots)
  djob,      \* identity parsed from that slot
  inRead,    \* publish_result was called from _publish_frame_slot_error
  dresult,   \* the result to publish
  rslot,     \* result slot looked at, then the one being written
  \* history
  unit,      \* seats triggered so far
  answer,    \* what the outside was told about each seat
  judged,    \* the detector's verdict on each seat's images
  crashes,   \* detector crashes since the memory was last reset
  restarts,  \* controller crashes so far
  spoiled    \* seats whose result slot was marked CORRUPTED while the
             \* controller's current sweep had that slot still before it

controllerVars == <<cpc, nextSeq, job, probe, cslot, received>>
detectorVars == <<dpc, dscan, dslot, djob, inRead, dresult, rslot>>
ringVars == <<frameVars, resultVars>>
historyVars == <<unit, answer, judged, crashes, restarts, spoiled>>
vars == <<controllerVars, detectorVars, ringVars, historyVars>>

Units == 1 .. MaxUnits

\* An answer as the outside sees it: Open until inspect_one_seat returns.
Answer == [decision : Decisions, code : ErrorCodes, delivered : BOOLEAN]
Open == [decision |-> "ERROR", code |-> "None", delivered |-> FALSE]

ControllerStates == {"down", "idle", "acquire", "publish", "write_frame",
                     "wait_result", "read_result", "validate"}
DetectorStates == {"down", "detached", "wait_job", "parse", "process",
                   "publish", "write_result", "release"}

ControllerTypeOK ==
  /\ cpc \in ControllerStates
  /\ nextSeq \in Nat \ {0}
  /\ job \in Job
  /\ probe \in 0 .. SlotCount
  /\ cslot \in Slots
  /\ received \in Result

DetectorTypeOK ==
  /\ dpc \in DetectorStates
  /\ dscan \in Slots
  /\ dslot \in Slots
  /\ djob \in Job
  /\ inRead \in BOOLEAN
  /\ dresult \in Result
  /\ rslot \in 0 .. SlotCount

HistoryTypeOK ==
  /\ unit \in 0 .. MaxUnits
  /\ answer \in [Units -> Answer]
  /\ judged \in [Units -> Verdict]
  /\ crashes \in 0 .. MaxCrashes
  /\ restarts \in 0 .. MaxRestarts
  /\ spoiled \in SUBSET Nat

\* Every variable keeps its type; in particular no index leaves its ring.
TypeOK == /\ FrameTypeOK
          /\ ResultTypeOK
          /\ ControllerTypeOK
          /\ DetectorTypeOK
          /\ HistoryTypeOK
-----------------------------------------------------------------------------
(***************************************************************************)
(* Controller.                                                             *)
(***************************************************************************)

\* publish_result to the signal client, in its three places.  A client that
\* reports failure has told the outside nothing; the station then returns
\* RECHECK / DeviceFault for its own records.
Reply(decision, code) ==
  /\ \E delivered \in BOOLEAN :
       answer' = [answer EXCEPT ![unit] =
         IF delivered
         THEN [decision |-> decision, code |-> code, delivered |-> TRUE]
         ELSE [decision |-> "RECHECK", code |-> "DeviceFault", delivered |-> FALSE]]
  /\ cpc' = "idle"
  /\ job' = ZeroJob
  /\ probe' = 0
  /\ cslot' = 0
  /\ received' = ZeroResult
  /\ UNCHANGED <<nextSeq, unit, judged, crashes, restarts, spoiled, detectorVars>>

\* A trigger is accepted and inspect_one_seat numbers the job.
Trigger(tag) ==
  /\ cpc = "idle"
  /\ unit < MaxUnits
  /\ cpc' = "acquire"
  /\ unit' = unit + 1
  /\ job' = [seq |-> nextSeq, tag |-> tag, unit |-> unit + 1, integrity |-> "ok"]
  /\ nextSeq' = nextSeq + 1
  /\ UNCHANGED <<probe, cslot, received, answer, judged, crashes, restarts,
                 spoiled, detectorVars, ringVars>>

\* Storage below its watermark, a failed acquisition or a failed image save.
AcquisitionFails ==
  /\ cpc = "acquire"
  /\ \E code \in AcquisitionCodes : Reply("RECHECK", code)
  /\ UNCHANGED ringVars

AcquisitionSucceeds ==
  /\ cpc = "acquire"
  /\ cpc' = "publish"
  /\ UNCHANGED <<nextSeq, job, probe, cslot, received, detectorVars, ringVars,
                 historyVars>>

\* Mutant: the pass over the ring visits one slot too many.
ProbePastTheEnd ==
  /\ cpc = "publish" /\ probe <= SlotCount
  /\ frameState[ProbedSlot(probe)] # "EMPTY"
  /\ probe' = probe + 1
  /\ UNCHANGED <<cpc, nextSeq, job, cslot, received, detectorVars, ringVars,
                 historyVars>>

\* Mutant: the deadline is looked at once more after the claim.
ClaimFrameSlotTooLate ==
  /\ cpc = "publish" /\ probe < SlotCount
  /\ ClaimFrame(ProbedSlot(probe))
  /\ Reply("RECHECK", "SlotUnavailable")
  /\ UNCHANGED resultVars

\* FrameRingBuffer::publish, one probe: the slot is in use ...
ProbeNextFrame ==
  /\ cpc = "publish" /\ probe < SlotCount
  /\ frameState[ProbedSlot(probe)] # "EMPTY"
  /\ probe' = probe + 1
  /\ UNCHANGED <<cpc, nextSeq, job, cslot, received, detectorVars, ringVars,
                 historyVars>>

\* ... or it is claimed.
ClaimFrameSlot ==
  /\ cpc = "publish" /\ probe < SlotCount
  /\ ClaimFrame(ProbedSlot(probe))
  /\ cslot' = ProbedSlot(probe)
  /\ cpc' = "write_frame"
  /\ UNCHANGED <<nextSeq, job, probe, received, detectorVars, resultVars,
                 historyVars>>

\* A whole pass found nothing: sleep 2 ms and start the next pass ...
RetryPublish ==
  /\ cpc = "publish" /\ probe = SlotCount
  /\ probe' = 0
  /\ UNCHANGED <<cpc, nextSeq, job, cslot, received, detectorVars, ringVars,
                 historyVars>>

\* Mutant: the deadline is not enforced while a slot is still being read.
WaitForReader ==
  /\ cpc = "publish" /\ probe = SlotCount
  /\ \A i \in Slots : frameState[i] # "READING"
  /\ Reply("RECHECK", "SlotUnavailable")
  /\ UNCHANGED ringVars

\* ... unless publish_timeout_ms has passed.
PublishTimesOut ==
  /\ cpc = "publish" /\ probe = SlotCount
  /\ Reply("RECHECK", "SlotUnavailable")
  /\ UNCHANGED ringVars

\* Contents, checksums, READY; then wait_for_result begins.
PublishFrame ==
  /\ cpc = "write_frame"
  /\ \E q \in FrameFaults : CommitFrame(cslot, [job EXCEPT !.integrity = q])
  /\ cpc' = "wait_result"
  /\ probe' = 0
  /\ UNCHANGED <<nextSeq, job, cslot, received, detectorVars, resultVars,
                 historyVars>>

\* wait_for_result, one slot of one sweep: the awaited result ...
TakeReadyResult ==
  /\ cpc = "wait_result" /\ probe < SlotCount
  /\ TakeResult(probe, job.seq)
  /\ cslot' = probe
  /\ cpc' = "read_result"
  /\ UNCHANGED <<nextSeq, job, probe, received, detectorVars, frameVars,
                 historyVars>>

\* ... a leftover of an earlier job ...
ReclaimStaleResult ==
  /\ cpc = "wait_result" /\ probe < SlotCount
  /\ Stale(probe, job.seq)
  /\ FreeResult(probe)
  /\ probe' = probe + 1
  /\ UNCHANGED <<cpc, nextSeq, job, cslot, received, detectorVars, frameVars,
                 historyVars>>

\* ... this job's result, marked unusable by the detector ...
ReclaimSpoiledResult ==
  /\ cpc = "wait_result" /\ probe < SlotCount
  /\ Spoiled(probe, job.seq)
  /\ FreeResult(probe)
  /\ Reply("RECHECK", "CrcMismatch")
  /\ UNCHANGED frameVars

\* ... or nothing to do.
PassResultSlot ==
  /\ cpc = "wait_result" /\ probe < SlotCount
  /\ Untouched(probe, job.seq)
  /\ probe' = probe + 1
  /\ UNCHANGED <<cpc, nextSeq, job, cslot, received, detectorVars, ringVars,
                 historyVars>>

RetryWait ==
  /\ cpc = "wait_result" /\ probe = SlotCount
  /\ probe' = 0
  /\ UNCHANGED <<cpc, nextSeq, job, cslot, received, detectorVars, ringVars,
                 historyVars>>

\* detector_timeout_ms has passed.
WaitTimesOut ==
  /\ cpc = "wait_result" /\ probe = SlotCount
  /\ Reply("RECHECK", "DetectorTimeout")
  /\ UNCHANGED ringVars

\* Mutant: the checksums are not compared.
ReadUncheckedResult ==
  /\ cpc = "read_result"
  /\ received' = resultBody[cslot]
  /\ FreeResult(cslot)
  /\ cpc' = "validate"
  /\ UNCHANGED <<nextSeq, job, probe, cslot, detectorVars, frameVars,
                 historyVars>>

\* Sizes and checksums agree: copy the result out and free the slot.
ReadResult ==
  /\ cpc = "read_result"
  /\ resultBody[cslot].intact
  /\ received' = resultBody[cslot]
  /\ FreeResult(cslot)
  /\ cpc' = "validate"
  /\ UNCHANGED <<nextSeq, job, probe, cslot, detectorVars, frameVars,
                 historyVars>>

\* They do not: free the slot and give up on this job's result.
RejectResult ==
  /\ cpc = "read_result"
  /\ ~resultBody[cslot].intact
  /\ FreeResult(cslot)
  /\ \E code \in {"InvalidPayload", "CrcMismatch"} : Reply("RECHECK", code)
  /\ UNCHANGED frameVars

\* validate_detector_result, then the decision goes out.
AnswerWithResult ==
  /\ cpc = "validate"
  /\ BelongsTo(received, job) /\ Acceptable(received.verdict)
  /\ Reply(PublishedDecision(received.verdict), received.verdict.code)
  /\ UNCHANGED ringVars

AnswerInvalidResult ==
  /\ cpc = "validate"
  /\ ~(BelongsTo(received, job) /\ Acceptable(received.verdict))
  /\ Reply("RECHECK", "InvalidPayload")
  /\ UNCHANGED ringVars

\* The controller process dies at any point; slots keep their state.
ControllerCrash ==
  /\ cpc # "down" /\ restarts < MaxRestarts
  /\ restarts' = restarts + 1
  /\ cpc' = "down"
  /\ nextSeq' = 1
  /\ job' = ZeroJob
  /\ probe' = 0
  /\ cslot' = 0
  /\ received' = ZeroResult
  /\ UNCHANGED <<detectorVars, ringVars, unit, answer, judged, crashes, spoiled>>

\* SharedMemory::create_or_open and the rings' initialize.  A Windows
\* mapping disappears with its last user; a reset refuses to run while the
\* detector still maps it.  A POSIX reset unlinks the name, so a running
\* detector is left on the old memory, which nobody else looks at any more.
MemoryIsNew == ResetOnStart \/ (~PosixMemory /\ dpc = "down")

ControllerStart ==
  /\ cpc = "down"
  /\ ResetOnStart /\ ~PosixMemory => dpc = "down"
  /\ cpc' = "idle"
  /\ \/ /\ MemoryIsNew
        /\ FrameReset
        /\ ResultReset
        /\ crashes' = 0
        /\ dpc' = IF dpc = "down" THEN "down" ELSE "detached"
        /\ dscan' = 0
        /\ dslot' = 0
        /\ djob' = ZeroJob
        /\ inRead' = FALSE
        /\ dresult' = ZeroResult
        /\ rslot' = 0
     \/ /\ ~MemoryIsNew
        /\ UNCHANGED <<ringVars, crashes, detectorVars>>
  /\ UNCHANGED <<nextSeq, job, probe, cslot, received, unit, answer, judged,
                 restarts, spoiled>>
-----------------------------------------------------------------------------
(***************************************************************************)
(* Detector.                                                               *)
(***************************************************************************)

\* ShmClient.__init__: both mappings must exist.
DetectorStart ==
  /\ dpc = "down"
  /\ PosixMemory \/ cpc # "down"
  /\ dpc' = "wait_job"
  /\ UNCHANGED <<dscan, dslot, djob, inRead, dresult, rslot, controllerVars,
                 ringVars, historyVars>>

\* The process ends and forgets everything it held.
DetectorGone ==
  /\ dpc' = "down"
  /\ dscan' = 0
  /\ dslot' = 0
  /\ djob' = ZeroJob
  /\ inRead' = FALSE
  /\ dresult' = ZeroResult
  /\ rslot' = 0

\* It is killed, or crashes, at any point; slots keep their state.
DetectorCrash ==
  /\ dpc \notin {"down", "detached"} /\ crashes < MaxCrashes
  /\ DetectorGone
  /\ crashes' = crashes + 1
  /\ UNCHANGED <<controllerVars, ringVars, unit, answer, judged, restarts, spoiled>>

\* An operator stops a detector that was left on unlinked memory.
StopDetached ==
  /\ dpc = "detached"
  /\ DetectorGone
  /\ UNCHANGED <<controllerVars, ringVars, historyVars>>

\* wait_next_job, one slot: not READY.  Passes follow each other endlessly.
SkipFrame ==
  /\ dpc = "wait_job"
  /\ frameState[dscan] # "READY"
  /\ dscan' = (dscan + 1) % SlotCount
  /\ UNCHANGED <<dpc, dslot, djob, inRead, dresult, rslot, controllerVars,
                 ringVars, historyVars>>

TakeReadyFrame ==
  /\ dpc = "wait_job"
  /\ TakeFrame(dscan)
  /\ dslot' = dscan
  /\ dpc' = "parse"
  /\ UNCHANGED <<dscan, djob, inRead, dresult, rslot, controllerVars,
                 resultVars, historyVars>>

\* _read_frame_slot: the header cannot be trusted, so nobody can be told.
DropUnreadableFrame ==
  /\ dpc = "parse"
  /\ frameJob[dslot].integrity = "badHeader"
  /\ ReleaseFrame(dslot)
  /\ dscan' = (dslot + 1) % SlotCount
  /\ dslot' = 0
  /\ dpc' = "wait_job"
  /\ UNCHANGED <<djob, inRead, dresult, rslot, controllerVars, resultVars,
                 historyVars>>

\* _read_frame_slot: the identity is known but the payload is not usable.
RefuseFrame ==
  /\ dpc = "parse"
  /\ frameJob[dslot].integrity = "badPayload"
  /\ djob' = frameJob[dslot]
  /\ \E code \in {"CrcMismatch", "InvalidPayload", "InternalError"} :
       dresult' = [seq |-> frameJob[dslot].seq, tag |-> frameJob[dslot].tag,
                   unit |-> frameJob[dslot].unit,
                   verdict |-> UnreadableFrame(code), intact |-> TRUE]
  /\ inRead' = TRUE
  /\ dpc' = "publish"
  /\ rslot' = 0
  /\ UNCHANGED <<dscan, dslot, controllerVars, ringVars, historyVars>>

ParseFrame ==
  /\ dpc = "parse"
  /\ frameJob[dslot].integrity = "ok"
  /\ djob' = frameJob[dslot]
  /\ dpc' = "process"
  /\ UNCHANGED <<dscan, dslot, inRead, dresult, rslot, controllerVars,
                 ringVars, historyVars>>

\* algorithm.process reads the images where they lie, in the slot, and
\* _write_result_trace may still turn the verdict into RECHECK.
JudgeFrame ==
  /\ dpc = "process"
  /\ \E v \in PipelineVerdicts :
       /\ dresult' = [seq |-> djob.seq, tag |-> djob.tag,
                      unit |-> frameJob[dslot].unit,
                      verdict |-> v, intact |-> TRUE]
       /\ judged' = [judged EXCEPT ![frameJob[dslot].unit] =
                       IF frameJob[dslot].integrity = "ok" THEN v ELSE NoVerdict]
  /\ dpc' = "publish"
  /\ rslot' = 0
  /\ UNCHANGED <<dscan, dslot, djob, inRead, controllerVars, ringVars, unit,
                 answer, crashes, restarts, spoiled>>

\* publish_result, one result slot: in use ...
ProbeNextResult ==
  /\ dpc = "publish" /\ rslot < SlotCount
  /\ resultState[rslot] # "EMPTY"
  /\ rslot' = rslot + 1
  /\ UNCHANGED <<dpc, dscan, dslot, djob, inRead, dresult, controllerVars,
                 ringVars, historyVars>>

ClaimResultSlot ==
  /\ dpc = "publish" /\ rslot < SlotCount
  /\ ClaimResult(rslot)
  /\ dpc' = "write_result"
  /\ UNCHANGED <<dscan, dslot, djob, inRead, dresult, rslot, controllerVars,
                 frameVars, historyVars>>

RetryResultSlots ==
  /\ dpc = "publish" /\ rslot = SlotCount
  /\ rslot' = 0
  /\ UNCHANGED <<dpc, dscan, dslot, djob, inRead, dresult, controllerVars,
                 ringVars, historyVars>>

\* The next wait_next_job scans from slot 0; a refused frame is left inside
\* the scan of the same call.
BackToWaiting ==
  /\ dpc' = "wait_job"
  /\ dscan' = IF inRead THEN (dslot + 1) % SlotCount ELSE 0
  /\ dslot' = 0
  /\ djob' = ZeroJob
  /\ inRead' = FALSE
  /\ dresult' = ZeroResult
  /\ rslot' = 0

\* One second without a free slot: release the frame and raise TimeoutError.
\* _publish_frame_slot_error swallows it; run_forever does not catch it.
ResultTimesOut ==
  /\ dpc = "publish" /\ rslot = SlotCount
  /\ ReleaseFrame(dslot)
  /\ IF inRead THEN BackToWaiting ELSE DetectorGone
  /\ UNCHANGED <<controllerVars, resultVars, historyVars>>

\* The result is packed and turns READY, possibly damaged afterwards.
WriteResult ==
  /\ dpc = "write_result"
  /\ \/ CommitResult(rslot, dresult)
     \/ /\ ResultFaults
        /\ \E v \in PipelineVerdicts :
             CommitResult(rslot, [dresult EXCEPT !.verdict = v, !.intact = FALSE])
  /\ dpc' = "release"
  /\ UNCHANGED <<dscan, dslot, djob, inRead, dresult, rslot, controllerVars,
                 frameVars, historyVars>>

\* Mutant: the exception path forgets the frame slot.
WriteResultFailsHolding ==
  /\ dpc = "write_result"
  /\ dresult.verdict.defects
  /\ MarkCorrupted(rslot)
  /\ UNCHANGED <<frameVars, spoiled>>
  /\ DetectorGone
  /\ UNCHANGED <<controllerVars, unit, answer, judged, crashes, restarts>>

\* Packing a defect raises (unknown camera or light, too many lights): the
\* slot is marked, the frame released and the exception ends run_forever.
WriteResultFails ==
  /\ dpc = "write_result"
  /\ dresult.verdict.defects
  /\ MarkCorrupted(rslot)
  /\ ReleaseFrame(dslot)
  /\ spoiled' = IF cpc = "wait_result" /\ job.unit = dresult.unit /\ probe <= rslot
                  THEN spoiled \cup {dresult.unit}
                  ELSE spoiled
  /\ DetectorGone
  /\ UNCHANGED <<controllerVars, unit, answer, judged, crashes, restarts>>

\* After READY, _release_frame_slot.
ReleaseFrameSlot ==
  /\ dpc = "release"
  /\ ReleaseFrame(dslot)
  /\ BackToWaiting
  /\ UNCHANGED <<controllerVars, resultVars, historyVars>>
-----------------------------------------------------------------------------
Init ==
  /\ FrameInit
  /\ ResultInit
  /\ cpc = "idle"
  /\ nextSeq = 1
  /\ job = ZeroJob
  /\ probe = 0
  /\ cslot = 0
  /\ received = ZeroResult
  /\ dpc = "down"
  /\ dscan = 0
  /\ dslot = 0
  /\ djob = ZeroJob
  /\ inRead = FALSE
  /\ dresult = ZeroResult
  /\ rslot = 0
  /\ spoiled = {}
  /\ unit = 0
  /\ answer = [u \in Units |-> Open]
  /\ judged = [u \in Units |-> NoVerdict]
  /\ crashes = 0
  /\ restarts = 0

PublishStep == \/ ProbeNextFrame \/ ClaimFrameSlot \/ RetryPublish
               \/ PublishTimesOut \/ PublishFrame

WaitStep == \/ TakeReadyResult \/ ReclaimStaleResult \/ ReclaimSpoiledResult
            \/ PassResultSlot \/ RetryWait \/ WaitTimesOut
            \/ ReadResult \/ RejectResult

ReplyStep == AnswerWithResult \/ AnswerInvalidResult

ControllerStep == \/ AcquisitionFails \/ AcquisitionSucceeds
                  \/ PublishStep \/ WaitStep \/ ReplyStep

ReadStep == \/ SkipFrame \/ TakeReadyFrame \/ DropUnreadableFrame
            \/ RefuseFrame \/ ParseFrame \/ JudgeFrame

SendStep == \/ ProbeNextResult \/ ClaimResultSlot \/ RetryResultSlots
            \/ ResultTimesOut \/ WriteResult \/ WriteResultFails
            \/ ReleaseFrameSlot

DetectorStep == ReadStep \/ SendStep

ProcessStep == \/ ControllerCrash \/ ControllerStart
               \/ DetectorStart \/ DetectorCrash \/ StopDetached

Next == \/ \E tag \in Tags : Trigger(tag)
        \/ ControllerStep
        \/ DetectorStep
        \/ ProcessStep

Spec == Init /\ [][Next]_vars

(***************************************************************************)
(* The controller thread keeps running, and its deadlines are reached: a   *)
(* pass over a ring that is repeated for ever is in the end cut short.     *)
(***************************************************************************)
Fairness ==
  /\ WF_vars(ControllerStep)
  /\ SF_vars(PublishTimesOut)
  /\ SF_vars(WaitTimesOut)

FairSpec == Spec /\ Fairness
-----------------------------------------------------------------------------
(***************************************************************************)
(* Properties.                                                             *)
(***************************************************************************)

\* A seat is passed or failed towards the outside only on a verdict the
\* detector formed on the intact images of that very seat, and only when
\* validate_detector_result accepts that verdict: no timeout, damage, late
\* result or restart turns into an OK.
ConservativeAnswer ==
  \A u \in Units :
    answer[u].delivered /\ answer[u].decision \in {"OK", "NG"} =>
      Acceptable(judged[u]) /\ judged[u].decision = answer[u].decision

HoldsFrame == dpc \in {"parse", "process", "publish", "write_result", "release"}

\* The images stay under the detector while it works: the slot it took is
\* READING and still holds the job it parsed, until it releases the slot
\* itself, although the controller keeps publishing into the ring.
FrameUnderInspection ==
  HoldsFrame =>
    /\ frameState[dslot] = "READING"
    /\ dpc # "parse" => frameJob[dslot] = djob

FramesBeingRead == {i \in Slots : frameState[i] = "READING"}
FramesBeingWritten == {i \in Slots : frameState[i] = "WRITING"}

\* No frame slot leaks while the processes live: a slot is READING because
\* the detector holds it or because a detector died on it, and WRITING because
\* the controller fills it or because a controller died between claiming and
\* publishing it, one slot per death.  Every other path out of the two loops
\* gives its slot back or hands it on, and a controller that resets the memory
\* finds none of those its predecessor left.
FrameSlotsAccounted ==
  LET abandoned == FramesBeingWritten \ (IF cpc = "write_frame" THEN {cslot} ELSE {})
  IN  /\ Cardinality(FramesBeingRead \ (IF HoldsFrame THEN {dslot} ELSE {})) <= crashes
      /\ Cardinality(abandoned) <= restarts
      /\ ResetOnStart /\ cpc # "down" => abandoned = {}

ResultsBeingWritten == {i \in Slots : resultState[i] = "WRITING"}

\* The same for the result ring and the detector's WRITING slot.
ResultSlotsAccounted ==
  Cardinality(ResultsBeingWritten
                \ (IF dpc = "write_result" THEN {rslot} ELSE {})) <= crashes

\* As long as no detector has crashed, the detector finds the result ring
\* full only while the controller is sweeping it: leftovers of timed-out
\* jobs can never fill the ring when nobody is there to reclaim them, so
\* that publish_result does not raise the TimeoutError that ends run_forever.
ResultRoom ==
  crashes = 0 /\ dpc = "publish" /\ (\A i \in Slots : resultState[i] # "EMPTY")
    => cpc \in {"wait_result", "read_result"}

\* A published frame is taken back by nobody: it leaves READY only to the
\* detector, and READING only for EMPTY, unless the memory is replaced
\* (docs/shm_protocol.md: READY and READING slots are never overwritten).
PublishedFramesKept ==
  [][cpc # "down" =>
       \A i \in Slots :
         /\ frameState[i] = "READY" => /\ frameState'[i] \in {"READY", "READING"}
                                       /\ frameJob'[i] = frameJob[i]
         /\ frameState[i] = "READING" => /\ frameState'[i] \in {"READING", "EMPTY"}
                                         /\ frameJob'[i] = frameJob[i]]_vars

\* The abstract specification, seen through the controller's state.
Seats == INSTANCE SeatInspection
           WITH open <- cpc \notin {"idle", "down"}

\* Whatever the two processes and the two rings do is one of the few things
\* SeatInspection allows.
ImplementsSeatInspection == Seats!Spec

\* Every accepted trigger is answered, whatever the detector does, unless
\* the controller itself dies: no wait in inspect_one_seat lasts for ever.
EveryTriggerAnswered == cpc = "acquire" ~> cpc \in {"idle", "down"}

\* A result slot the detector marks CORRUPTED for the seat being inspected,
\* in time for the sweep that is under way, is reported as a damaged result
\* and not as a detector timeout: reclaim_stale_or_bad_slot has a branch for
\* it and the test test_result_ring_returns_current_bad_slot_error expects it.
SpoiledResultReported ==
  \A u \in Units : u \in spoiled /\ answer[u].delivered
                    => answer[u].code # "DetectorTimeout"
=============================================================================
