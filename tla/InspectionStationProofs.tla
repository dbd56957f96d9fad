---------------------- MODULE InspectionStationProofs ----------------------
(***************************************************************************)
(* Proofs about InspectionStation: type correctness, the detector's hold   *)
(* on the frame it inspects, the frames nobody overwrites, the slots that  *)
(* crashes cost and, for a station that resets its shared memory when it   *)
(* starts, the conservative answer and the refinement of SeatInspection.   *)
(***************************************************************************)
EXTENDS InspectionStation, FiniteSetTheorems, TLAPS

-----------------------------------------------------------------------------
(***************************************************************************)
(* Operators.                                                              *)
(***************************************************************************)

\* An index reduced modulo the slot count is a slot: the wrap-around of
\* write_index and of the scans never leaves the ring.
LEMMA WrappedIndex ==
  ASSUME NEW n \in Nat PROVE n % SlotCount \in Slots
BY SlotCountAssumption DEF Slots

\* The slot publish() probes lies in the ring.
LEMMA ProbedSlotInRing ==
  ASSUME FrameTypeOK, NEW p \in Nat PROVE ProbedSlot(p) \in Slots
<1>1. writeIndex + p \in Nat
  BY SlotCountAssumption DEF FrameTypeOK, Slots
<1> QED BY <1>1, WrappedIndex DEF ProbedSlot

\* Zeroed memory, fresh history and the verdicts of the detector are typed.
LEMMA ConstantTypes ==
  /\ ZeroJob \in Job
  /\ NoVerdict \in Verdict
  /\ ZeroResult \in Result
  /\ Open \in Answer
  /\ 0 \in Slots
  /\ \A code \in ErrorCodes : UnreadableFrame(code) \in Verdict
<1>1. NoVerdict \in Verdict
  BY DEF NoVerdict, Verdict, Decisions, ErrorCodes
<1>2. 0 \in Slots
  BY SlotCountAssumption DEF Slots
<1>3. ZeroJob \in Job
  BY DEF ZeroJob, Job, Integrities
<1>4. ZeroResult \in Result
  BY <1>1 DEF ZeroResult, Result
<1>5. Open \in Answer
  BY DEF Open, Answer, Decisions, ErrorCodes
<1>6. ASSUME NEW code \in ErrorCodes PROVE UnreadableFrame(code) \in Verdict
  BY DEF UnreadableFrame, Verdict, Decisions
<1> QED BY <1>1, <1>2, <1>3, <1>4, <1>5, <1>6

-----------------------------------------------------------------------------
(***************************************************************************)
(* Type correctness.                                                       *)
(***************************************************************************)

\* The operators of the frame ring keep its types.
LEMMA FrameOperatorTypes ==
  ASSUME FrameTypeOK, NEW i \in Slots, NEW j \in Job,
         ClaimFrame(i) \/ CommitFrame(i, j) \/ TakeFrame(i) \/ ReleaseFrame(i)
  PROVE  FrameTypeOK'
<1>1. CASE ClaimFrame(i)
  BY <1>1, ConstantTypes DEF FrameTypeOK, ClaimFrame, SlotStates
<1>2. CASE CommitFrame(i, j)
  <2>1. (i + 1) % SlotCount \in Slots
    BY WrappedIndex, SlotCountAssumption DEF Slots
  <2> QED BY <1>2, <2>1 DEF FrameTypeOK, CommitFrame, SlotStates
<1>3. CASE TakeFrame(i)
  BY <1>3 DEF FrameTypeOK, TakeFrame, SlotStates
<1>4. CASE ReleaseFrame(i)
  BY <1>4 DEF FrameTypeOK, ReleaseFrame, SlotStates
<1> QED BY <1>1, <1>2, <1>3, <1>4

\* initialize() of the frame ring leaves it typed.
LEMMA FrameResetTypes ==
  ASSUME FrameReset PROVE FrameTypeOK'
BY ConstantTypes DEF FrameReset, FrameTypeOK, SlotStates

\* The operators of the result ring keep its types.
LEMMA ResultOperatorTypes ==
  ASSUME ResultTypeOK, NEW i \in Slots, NEW r \in Result, NEW n,
         \/ ClaimResult(i) \/ CommitResult(i, r) \/ MarkCorrupted(i)
         \/ TakeResult(i, n) \/ FreeResult(i)
  PROVE  ResultTypeOK'
<1>1. CASE CommitResult(i, r)
  BY <1>1 DEF ResultTypeOK, CommitResult, SlotStates
<1>2. CASE ClaimResult(i) \/ MarkCorrupted(i) \/ TakeResult(i, n) \/ FreeResult(i)
  BY <1>2 DEF ResultTypeOK, ClaimResult, MarkCorrupted, TakeResult, FreeResult,
              SetResultState, SlotStates
<1> QED BY <1>1, <1>2

\* initialize() of the result ring leaves it typed.
LEMMA ResultResetTypes ==
  ASSUME ResultReset PROVE ResultTypeOK'
BY ConstantTypes DEF ResultReset, ResultTypeOK, SlotStates

\* inspect_one_seat returning leaves the controller and the history typed.
LEMMA ReplyTypes ==
  ASSUME ControllerTypeOK, DetectorTypeOK, HistoryTypeOK,
         NEW d \in Decisions, NEW c \in ErrorCodes, Reply(d, c)
  PROVE  ControllerTypeOK' /\ DetectorTypeOK' /\ HistoryTypeOK'
<1>1. ControllerTypeOK'
  BY ConstantTypes, SlotCountAssumption
     DEF Reply, ControllerTypeOK, ControllerStates
<1>2. DetectorTypeOK'
  BY DEF Reply, DetectorTypeOK, detectorVars
<1>3. answer' \in [Units -> Answer]
  <2>1. PICK b \in BOOLEAN :
          answer' = [answer EXCEPT ![unit] =
            IF b THEN [decision |-> d, code |-> c, delivered |-> TRUE]
                 ELSE [decision |-> "RECHECK", code |-> "DeviceFault",
                       delivered |-> FALSE]]
    BY DEF Reply
  <2>2. [decision |-> d, code |-> c, delivered |-> TRUE] \in Answer
    BY DEF Answer
  <2>3. [decision |-> "RECHECK", code |-> "DeviceFault", delivered |-> FALSE]
           \in Answer
    BY DEF Answer, Decisions, ErrorCodes
  <2> QED BY <2>1, <2>2, <2>3 DEF HistoryTypeOK
<1>4. HistoryTypeOK'
  BY <1>3 DEF Reply, HistoryTypeOK, Units
<1> QED BY <1>1, <1>2, <1>4

\* Every step of the controller keeps the types.
LEMMA ControllerStepTypes ==
  ASSUME TypeOK, ControllerStep PROVE TypeOK'
<1> USE DEF TypeOK
<1>1. CASE AcquisitionFails
  <2>1. PICK code \in AcquisitionCodes : Reply("RECHECK", code)
    BY <1>1 DEF AcquisitionFails
  <2>2. code \in ErrorCodes
    BY AcquisitionCodesAssumption
  <2>3. UNCHANGED ringVars
    BY <1>1 DEF AcquisitionFails
  <2> QED BY <2>1, <2>2, <2>3, ReplyTypes
          DEF Decisions, ringVars, frameVars, resultVars, FrameTypeOK, ResultTypeOK
<1>2. CASE AcquisitionSucceeds
  BY <1>2 DEF AcquisitionSucceeds, ringVars, frameVars, resultVars, detectorVars,
     historyVars, FrameTypeOK, ResultTypeOK, ControllerTypeOK, DetectorTypeOK,
     HistoryTypeOK, ControllerStates
<1>3. CASE ProbeNextFrame \/ RetryPublish \/ PassResultSlot \/ RetryWait
  <2>1. probe' \in 0 .. SlotCount
    BY <1>3, SlotCountAssumption DEF ProbeNextFrame, RetryPublish,
       PassResultSlot, RetryWait, ControllerTypeOK
  <2> QED BY <1>3, <2>1
     DEF ProbeNextFrame, RetryPublish, PassResultSlot, RetryWait, ringVars,
     frameVars, resultVars, detectorVars, historyVars, FrameTypeOK, ResultTypeOK,
     ControllerTypeOK, DetectorTypeOK, HistoryTypeOK
<1>4. CASE ClaimFrameSlot
  <2>1. ProbedSlot(probe) \in Slots
    BY ProbedSlotInRing DEF ControllerTypeOK
  <2>2. FrameTypeOK'
    BY <1>4, <2>1, FrameOperatorTypes, ConstantTypes DEF ClaimFrameSlot
  <2> QED BY <1>4, <2>1, <2>2
     DEF ClaimFrameSlot, resultVars, detectorVars, historyVars, ResultTypeOK,
     ControllerTypeOK, DetectorTypeOK, HistoryTypeOK, ControllerStates
<1>5. CASE PublishTimesOut \/ WaitTimesOut \/ AnswerInvalidResult
  <2>1. \E code \in ErrorCodes : Reply("RECHECK", code)
    BY <1>5 DEF PublishTimesOut, WaitTimesOut, AnswerInvalidResult, ErrorCodes
  <2>2. UNCHANGED ringVars
    BY <1>5 DEF PublishTimesOut, WaitTimesOut, AnswerInvalidResult
  <2> QED BY <2>1, <2>2, ReplyTypes
          DEF Decisions, ringVars, frameVars, resultVars, FrameTypeOK, ResultTypeOK
<1>6. CASE PublishFrame
  <2>1. PICK q \in FrameFaults : CommitFrame(cslot, [job EXCEPT !.integrity = q])
    BY <1>6 DEF PublishFrame
  <2>2. [job EXCEPT !.integrity = q] \in Job
    BY FaultsAssumption DEF ControllerTypeOK, Job
  <2>3. FrameTypeOK'
    BY <2>1, <2>2, FrameOperatorTypes DEF ControllerTypeOK
  <2> QED BY <1>6, <2>3, SlotCountAssumption
     DEF PublishFrame, resultVars, detectorVars, historyVars, ResultTypeOK,
     ControllerTypeOK, DetectorTypeOK, HistoryTypeOK, ControllerStates
<1>7. CASE TakeReadyResult
  <2>1. probe \in Slots
    BY <1>7, SlotCountAssumption DEF TakeReadyResult, ControllerTypeOK, Slots
  <2>2. ResultTypeOK'
    BY <1>7, <2>1, ResultOperatorTypes, ConstantTypes DEF TakeReadyResult
  <2> QED BY <1>7, <2>1, <2>2
     DEF TakeReadyResult, frameVars, detectorVars, historyVars, FrameTypeOK,
     ControllerTypeOK, DetectorTypeOK, HistoryTypeOK, ControllerStates
<1>8. CASE ReclaimStaleResult
  <2>1. probe \in Slots /\ probe' \in 0 .. SlotCount
    BY <1>8, SlotCountAssumption DEF ReclaimStaleResult, ControllerTypeOK, Slots
  <2>2. ResultTypeOK'
    BY <1>8, <2>1, ResultOperatorTypes, ConstantTypes DEF ReclaimStaleResult
  <2> QED BY <1>8, <2>1, <2>2
     DEF ReclaimStaleResult, frameVars, detectorVars, historyVars, FrameTypeOK,
     ControllerTypeOK, DetectorTypeOK, HistoryTypeOK, ControllerStates
<1>9. CASE ReclaimSpoiledResult
  <2>1. probe \in Slots
    BY <1>9, SlotCountAssumption DEF ReclaimSpoiledResult, ControllerTypeOK, Slots
  <2>2. ResultTypeOK'
    BY <1>9, <2>1, ResultOperatorTypes, ConstantTypes DEF ReclaimSpoiledResult
  <2>3. "RECHECK" \in Decisions /\ "CrcMismatch" \in ErrorCodes
    BY DEF Decisions, ErrorCodes
  <2> QED BY <1>9, <2>2, <2>3, ReplyTypes
     DEF ReclaimSpoiledResult, frameVars, FrameTypeOK
<1>10. CASE ReadResult
  <2>1. ResultTypeOK'
    BY <1>10, ResultOperatorTypes, ConstantTypes DEF ReadResult, ControllerTypeOK
  <2> QED BY <1>10, <2>1
     DEF ReadResult, frameVars, detectorVars, historyVars, FrameTypeOK, ResultTypeOK,
     ControllerTypeOK, DetectorTypeOK, HistoryTypeOK, ControllerStates
<1>11. CASE RejectResult
  <2>1. ResultTypeOK'
    BY <1>11, ResultOperatorTypes, ConstantTypes DEF RejectResult, ControllerTypeOK
  <2>2. \E code \in ErrorCodes : Reply("RECHECK", code)
    BY <1>11 DEF RejectResult, ErrorCodes
  <2> QED BY <1>11, <2>1, <2>2, ReplyTypes
     DEF RejectResult, Decisions, frameVars, FrameTypeOK
<1>12. CASE AnswerWithResult
  <2>1. received.verdict \in Verdict
    BY DEF ControllerTypeOK, Result
  <2>2. PublishedDecision(received.verdict) \in Decisions
        /\ received.verdict.code \in ErrorCodes
    BY <2>1 DEF PublishedDecision, Verdict, Decisions
  <2> QED BY <1>12, <2>2, ReplyTypes
     DEF AnswerWithResult, ringVars, frameVars, resultVars, FrameTypeOK, ResultTypeOK
<1> QED BY <1>1, <1>2, <1>3, <1>4, <1>5, <1>6, <1>7, <1>8, <1>9, <1>10, <1>11,
           <1>12 DEF ControllerStep, PublishStep, WaitStep, ReplyStep

\* A detector that is gone has the types of one that never ran.
LEMMA DetectorGoneTypes ==
  ASSUME DetectorGone PROVE DetectorTypeOK'
<1>1. 0 \in 0 .. SlotCount
  BY SlotCountAssumption
<1> QED BY <1>1, ConstantTypes DEF DetectorGone, DetectorTypeOK, DetectorStates

\* Every step of the detector keeps the types.
LEMMA DetectorStepTypes ==
  ASSUME TypeOK, DetectorStep PROVE TypeOK'
<1> USE DEF TypeOK
<1>1. CASE SkipFrame \/ ProbeNextResult \/ RetryResultSlots
  <2>1. dscan' \in Slots
    BY <1>1, WrappedIndex, SlotCountAssumption
       DEF SkipFrame, ProbeNextResult, RetryResultSlots, DetectorTypeOK, Slots
  <2>2. rslot' \in 0 .. SlotCount
    BY <1>1, SlotCountAssumption
       DEF SkipFrame, ProbeNextResult, RetryResultSlots, DetectorTypeOK
  <2> QED BY <1>1, <2>1, <2>2
     DEF SkipFrame, ProbeNextResult, RetryResultSlots, ringVars, frameVars,
     resultVars, controllerVars, historyVars, FrameTypeOK, ResultTypeOK,
     ControllerTypeOK, DetectorTypeOK, HistoryTypeOK
<1>2. CASE TakeReadyFrame
  <2>1. FrameTypeOK'
    BY <1>2, FrameOperatorTypes, ConstantTypes DEF TakeReadyFrame, DetectorTypeOK
  <2> QED BY <1>2, <2>1
     DEF TakeReadyFrame, resultVars, controllerVars, historyVars, ResultTypeOK,
     ControllerTypeOK, DetectorTypeOK, HistoryTypeOK, DetectorStates
<1>3. CASE DropUnreadableFrame
  <2>1. FrameTypeOK'
    BY <1>3, FrameOperatorTypes, ConstantTypes DEF DropUnreadableFrame, DetectorTypeOK
  <2>2. (dslot + 1) % SlotCount \in Slots
    BY WrappedIndex, SlotCountAssumption DEF DetectorTypeOK, Slots
  <2> QED BY <1>3, <2>1, <2>2, ConstantTypes
     DEF DropUnreadableFrame, resultVars, controllerVars, historyVars, ResultTypeOK,
     ControllerTypeOK, DetectorTypeOK, HistoryTypeOK, DetectorStates
<1>4. CASE RefuseFrame
  <2>1. frameJob[dslot] \in Job
    BY DEF FrameTypeOK, DetectorTypeOK
  <2>2. PICK code \in {"CrcMismatch", "InvalidPayload", "InternalError"} :
          dresult' = [seq |-> frameJob[dslot].seq, tag |-> frameJob[dslot].tag,
                      unit |-> frameJob[dslot].unit,
                      verdict |-> UnreadableFrame(code), intact |-> TRUE]
    BY <1>4 DEF RefuseFrame
  <2>3. UnreadableFrame(code) \in Verdict
    BY ConstantTypes DEF ErrorCodes
  <2>4. dresult' \in Result
    BY <2>1, <2>2, <2>3 DEF Result, Job
  <2> QED BY <1>4, <2>1, <2>4, SlotCountAssumption
     DEF RefuseFrame, ringVars, frameVars, resultVars, controllerVars, historyVars,
     FrameTypeOK, ResultTypeOK, ControllerTypeOK, DetectorTypeOK, HistoryTypeOK,
     DetectorStates
<1>5. CASE ParseFrame
  <2>1. frameJob[dslot] \in Job
    BY DEF FrameTypeOK, DetectorTypeOK
  <2> QED BY <1>5, <2>1
     DEF ParseFrame, ringVars, frameVars, resultVars, controllerVars, historyVars,
     FrameTypeOK, ResultTypeOK, ControllerTypeOK, DetectorTypeOK, HistoryTypeOK,
     DetectorStates
<1>6. CASE JudgeFrame
  <2>1. frameJob[dslot] \in Job
    BY DEF FrameTypeOK, DetectorTypeOK
  <2>2. PICK v \in PipelineVerdicts :
          /\ dresult' = [seq |-> djob.seq, tag |-> djob.tag,
                         unit |-> frameJob[dslot].unit,
                         verdict |-> v, intact |-> TRUE]
          /\ judged' = [judged EXCEPT ![frameJob[dslot].unit] =
                          IF frameJob[dslot].integrity = "ok" THEN v ELSE NoVerdict]
    BY <1>6 DEF JudgeFrame
  <2>3. v \in Verdict
    BY PipelineVerdictsAssumption
  <2>4. dresult' \in Result
    BY <2>1, <2>2, <2>3 DEF Result, Job, DetectorTypeOK
  <2>5. judged' \in [Units -> Verdict]
    BY <2>2, <2>3, ConstantTypes DEF HistoryTypeOK
  <2> QED BY <1>6, <2>4, <2>5, SlotCountAssumption
     DEF JudgeFrame, ringVars, frameVars, resultVars, controllerVars,
     FrameTypeOK, ResultTypeOK, ControllerTypeOK, DetectorTypeOK, HistoryTypeOK,
     DetectorStates
<1>7. CASE ClaimResultSlot
  <2>1. rslot \in Slots
    BY <1>7, SlotCountAssumption DEF ClaimResultSlot, DetectorTypeOK, Slots
  <2>2. ResultTypeOK'
    BY <1>7, <2>1, ResultOperatorTypes, ConstantTypes DEF ClaimResultSlot
  <2> QED BY <1>7, <2>2
     DEF ClaimResultSlot, frameVars, controllerVars, historyVars, FrameTypeOK,
     ControllerTypeOK, DetectorTypeOK, HistoryTypeOK, DetectorStates
<1>8. CASE ResultTimesOut \/ ReleaseFrameSlot
  <2>1. FrameTypeOK'
    BY <1>8, FrameOperatorTypes, ConstantTypes
       DEF ResultTimesOut, ReleaseFrameSlot, DetectorTypeOK
  <2>2. (dslot + 1) % SlotCount \in Slots
    BY WrappedIndex, SlotCountAssumption DEF DetectorTypeOK, Slots
  <2>3. BackToWaiting => DetectorTypeOK'
    <3>1. 0 \in 0 .. SlotCount
      BY SlotCountAssumption
    <3> QED BY <2>2, <3>1, ConstantTypes
            DEF BackToWaiting, DetectorTypeOK, DetectorStates
  <2>4. DetectorTypeOK'
    BY <1>8, <2>3, DetectorGoneTypes DEF ResultTimesOut, ReleaseFrameSlot
  <2> QED BY <1>8, <2>1, <2>4
     DEF ResultTimesOut, ReleaseFrameSlot, resultVars, controllerVars, historyVars,
     ResultTypeOK, ControllerTypeOK, HistoryTypeOK
<1>9. CASE WriteResult
  <2>1. PICK r \in Result : CommitResult(rslot, r)
    <3>1. ASSUME NEW v \in PipelineVerdicts
          PROVE  [dresult EXCEPT !.verdict = v, !.intact = FALSE] \in Result
      BY PipelineVerdictsAssumption DEF DetectorTypeOK, Result
    <3> QED BY <1>9, <3>1 DEF WriteResult, DetectorTypeOK
  <2>2. ResultTypeOK'
    BY <2>1 DEF CommitResult, ResultTypeOK, SlotStates
  <2> QED BY <1>9, <2>2
     DEF WriteResult, frameVars, controllerVars, historyVars, FrameTypeOK,
     ControllerTypeOK, DetectorTypeOK, HistoryTypeOK, DetectorStates
<1>10. CASE WriteResultFails
  <2>1. FrameTypeOK'
    BY <1>10, FrameOperatorTypes, ConstantTypes DEF WriteResultFails, DetectorTypeOK
  <2>2. ResultTypeOK'
    BY <1>10
       DEF WriteResultFails, MarkCorrupted, SetResultState, ResultTypeOK, SlotStates
  <2>3. DetectorTypeOK'
    BY <1>10, DetectorGoneTypes DEF WriteResultFails
  <2>4. spoiled' \in SUBSET Nat
    BY <1>10 DEF WriteResultFails, HistoryTypeOK, DetectorTypeOK, Result
  <2> QED BY <1>10, <2>1, <2>2, <2>3, <2>4
     DEF WriteResultFails, controllerVars, ControllerTypeOK, HistoryTypeOK
<1> QED BY <1>1, <1>2, <1>3, <1>4, <1>5, <1>6, <1>7, <1>8, <1>9, <1>10
        DEF DetectorStep, ReadStep, SendStep

\* Crashes and restarts, and a new trigger, keep the types.
LEMMA ProcessStepTypes ==
  ASSUME TypeOK, ProcessStep \/ \E tag \in Tags : Trigger(tag) PROVE TypeOK'
<1> USE DEF TypeOK
<1>1. CASE \E tag \in Tags : Trigger(tag)
  <2>1. PICK tag \in Tags : Trigger(tag)
    BY <1>1
  <2>2. job' \in Job /\ unit' \in 0 .. MaxUnits /\ nextSeq' \in Nat \ {0}
    BY <2>1, BoundsAssumption
       DEF Trigger, Job, Integrities, HistoryTypeOK, ControllerTypeOK
  <2> QED BY <2>1, <2>2
     DEF Trigger, ringVars, frameVars, resultVars, detectorVars, FrameTypeOK,
     ResultTypeOK, ControllerTypeOK, DetectorTypeOK, HistoryTypeOK, ControllerStates
<1>2. CASE ControllerCrash
  <2>1. restarts' \in 0 .. MaxRestarts
    BY <1>2, BoundsAssumption DEF ControllerCrash, HistoryTypeOK
  <2>2. 0 \in 0 .. SlotCount
    BY SlotCountAssumption
  <2> QED BY <1>2, <2>1, <2>2, ConstantTypes
     DEF ControllerCrash, ringVars, frameVars, resultVars, detectorVars, FrameTypeOK,
     ResultTypeOK, ControllerTypeOK, DetectorTypeOK, HistoryTypeOK, ControllerStates
<1>3. CASE ControllerStart
  <2>1. ControllerTypeOK'
    BY <1>3 DEF ControllerStart, ControllerTypeOK, ControllerStates
  <2>2. CASE MemoryIsNew
    <3>1. FrameTypeOK' /\ ResultTypeOK'
      BY <1>3, <2>2, FrameResetTypes, ResultResetTypes DEF ControllerStart
    <3>2. 0 \in 0 .. SlotCount /\ 0 \in 0 .. MaxCrashes
      BY SlotCountAssumption, BoundsAssumption
    <3>3. DetectorTypeOK'
      BY <1>3, <2>2, <3>2, ConstantTypes
         DEF ControllerStart, DetectorTypeOK, DetectorStates
    <3>4. HistoryTypeOK'
      BY <1>3, <2>2, <3>2 DEF ControllerStart, HistoryTypeOK
    <3> QED BY <2>1, <3>1, <3>3, <3>4
  <2>3. CASE ~MemoryIsNew
    BY <1>3, <2>1, <2>3
       DEF ControllerStart, ringVars, frameVars, resultVars, detectorVars,
       FrameTypeOK, ResultTypeOK, DetectorTypeOK, HistoryTypeOK
  <2> QED BY <2>2, <2>3
<1>4. CASE DetectorStart
  BY <1>4 DEF DetectorStart, ringVars, frameVars, resultVars, controllerVars,
     historyVars, FrameTypeOK, ResultTypeOK, ControllerTypeOK, DetectorTypeOK,
     HistoryTypeOK, DetectorStates
<1>5. CASE DetectorCrash \/ StopDetached
  <2>1. DetectorTypeOK'
    BY <1>5, DetectorGoneTypes DEF DetectorCrash, StopDetached
  <2>2. crashes' \in 0 .. MaxCrashes
    BY <1>5, BoundsAssumption
       DEF DetectorCrash, StopDetached, HistoryTypeOK, historyVars
  <2> QED BY <1>5, <2>1, <2>2
     DEF DetectorCrash, StopDetached, ringVars, frameVars, resultVars,
     controllerVars, historyVars, FrameTypeOK, ResultTypeOK, ControllerTypeOK,
     HistoryTypeOK
<1> QED BY <1>1, <1>2, <1>3, <1>4, <1>5 DEF ProcessStep

\* Every step keeps the types.
LEMMA StepTypes ==
  ASSUME TypeOK, [Next]_vars PROVE TypeOK'
<1>1. CASE UNCHANGED vars
  BY <1>1 DEF vars, ringVars, frameVars, resultVars, controllerVars, detectorVars,
     historyVars, TypeOK, FrameTypeOK, ResultTypeOK, ControllerTypeOK,
     DetectorTypeOK, HistoryTypeOK
<1> QED BY <1>1, ControllerStepTypes, DetectorStepTypes, ProcessStepTypes DEF Next

\* The station of Init is typed.
LEMMA InitTypes ==
  ASSUME Init PROVE TypeOK
<1>1. /\ 0 \in 0 .. SlotCount /\ 1 \in Nat \ {0} /\ 0 \in 0 .. MaxUnits
      /\ 0 \in 0 .. MaxCrashes /\ 0 \in 0 .. MaxRestarts
  BY SlotCountAssumption, BoundsAssumption
<1>2. FrameTypeOK /\ ResultTypeOK
  BY ConstantTypes
     DEF Init, FrameInit, ResultInit, FrameTypeOK, ResultTypeOK, SlotStates
<1>3. ControllerTypeOK /\ DetectorTypeOK
  BY <1>1, ConstantTypes
     DEF Init, ControllerTypeOK, DetectorTypeOK, ControllerStates, DetectorStates
<1>4. HistoryTypeOK
  BY <1>1, ConstantTypes DEF Init, HistoryTypeOK
<1> QED BY <1>2, <1>3, <1>4 DEF TypeOK

\* Type correctness of the station, for any ring size and any bounds: among
\* other things every slot index the two programs compute lies in the ring.
THEOREM TypeCorrect == Spec => []TypeOK
<1>1. Init => TypeOK
  BY InitTypes
<1>2. TypeOK /\ [Next]_vars => TypeOK'
  BY StepTypes
<1> QED BY <1>1, <1>2, PTL DEF Spec

-----------------------------------------------------------------------------
(***************************************************************************)
(* The frame under inspection.                                             *)
(*                                                                         *)
(* FrameUnderInspection is not inductive alone: that the controller's      *)
(* CommitFrame cannot hit the detector's slot rests on the controller's    *)
(* claim, the WRITING state of the slot it is about to commit.             *)
(***************************************************************************)
WriterHoldsClaim == cpc = "write_frame" => frameState[cslot] = "WRITING"

FrameInv == TypeOK /\ FrameUnderInspection /\ WriterHoldsClaim

\* The only accesses to the frame ring, and where the processes are then.
LEMMA FrameAccess ==
  ASSUME [Next]_vars
  PROVE  \/ UNCHANGED frameVars
         \/ cpc = "down" /\ FrameReset
         \/ \E i \in {ProbedSlot(probe)} : ClaimFrame(i)
         \/ cpc = "write_frame" /\ \E j : CommitFrame(cslot, j)
         \/ dpc = "wait_job" /\ TakeFrame(dscan)
         \/ HoldsFrame /\ ReleaseFrame(dslot)
<1>1. CASE UNCHANGED vars
  BY <1>1 DEF vars, ringVars
<1>2. CASE \E tag \in Tags : Trigger(tag)
  BY <1>2 DEF Trigger, ringVars
<1>3. CASE ControllerStep
  BY <1>3 DEF ControllerStep, AcquisitionFails, AcquisitionSucceeds, PublishStep,
     ProbeNextFrame, ClaimFrameSlot, RetryPublish, PublishTimesOut, PublishFrame,
     WaitStep, TakeReadyResult, ReclaimStaleResult, ReclaimSpoiledResult,
     PassResultSlot, RetryWait, WaitTimesOut, ReadResult, RejectResult, ReplyStep,
     AnswerWithResult, AnswerInvalidResult, ringVars
<1>4. CASE DetectorStep
  BY <1>4 DEF DetectorStep, ReadStep, SkipFrame, TakeReadyFrame,
     DropUnreadableFrame, RefuseFrame, ParseFrame, JudgeFrame, SendStep,
     ProbeNextResult, ClaimResultSlot, RetryResultSlots, ResultTimesOut,
     WriteResult, WriteResultFails, ReleaseFrameSlot, HoldsFrame, ringVars
<1>5. CASE ProcessStep
  BY <1>5 DEF ProcessStep, ControllerCrash, ControllerStart, DetectorStart,
     DetectorCrash, StopDetached, ringVars
<1> QED BY <1>1, <1>2, <1>3, <1>4, <1>5 DEF Next

\* The controller never disturbs the slot the detector holds.
LEMMA ControllerStepFrame ==
  ASSUME FrameInv, ControllerStep PROVE FrameInv'
<1> USE DEF FrameInv
<1>1. TypeOK'
  BY ControllerStepTypes
<1>2. CASE ClaimFrameSlot
  BY <1>1, <1>2 DEF ClaimFrameSlot, ClaimFrame, detectorVars, FrameUnderInspection,
     HoldsFrame, WriterHoldsClaim, TypeOK, FrameTypeOK, ControllerTypeOK,
     DetectorTypeOK
<1>3. CASE PublishFrame
  BY <1>1, <1>3 DEF PublishFrame, CommitFrame, detectorVars, FrameUnderInspection,
     HoldsFrame, WriterHoldsClaim, TypeOK, FrameTypeOK, ControllerTypeOK,
     DetectorTypeOK
<1>4. CASE ControllerStep /\ ~ClaimFrameSlot /\ ~PublishFrame
  <2>1. UNCHANGED <<frameVars, dpc, dslot, djob>> /\ cpc' # "write_frame"
    BY <1>4 DEF ControllerStep, AcquisitionFails, AcquisitionSucceeds, PublishStep,
       ProbeNextFrame, RetryPublish, PublishTimesOut, WaitStep, TakeReadyResult,
       ReclaimStaleResult, ReclaimSpoiledResult, PassResultSlot, RetryWait,
       WaitTimesOut, ReadResult, RejectResult, ReplyStep, AnswerWithResult,
       AnswerInvalidResult, Reply, ringVars, detectorVars
  <2> QED BY <1>1, <2>1
          DEF frameVars, FrameUnderInspection, HoldsFrame, WriterHoldsClaim
<1> QED BY <1>2, <1>3, <1>4

\* The detector holds what it took until it releases it.
LEMMA DetectorStepFrame ==
  ASSUME FrameInv, DetectorStep PROVE FrameInv'
<1> USE DEF FrameInv
<1>1. TypeOK'
  BY DetectorStepTypes
<1>2. CASE TakeReadyFrame
  BY <1>1, <1>2 DEF TakeReadyFrame, TakeFrame, controllerVars, FrameUnderInspection,
     HoldsFrame, WriterHoldsClaim, TypeOK, FrameTypeOK, ControllerTypeOK,
     DetectorTypeOK
<1>3. CASE DropUnreadableFrame \/ ResultTimesOut \/ WriteResultFails
             \/ ReleaseFrameSlot
  <2>1. HoldsFrame /\ ReleaseFrame(dslot) /\ dpc' \in {"wait_job", "down"}
        /\ UNCHANGED <<cpc, cslot>>
    BY <1>3 DEF DropUnreadableFrame, ResultTimesOut, WriteResultFails,
       ReleaseFrameSlot, BackToWaiting, DetectorGone, HoldsFrame, controllerVars
  <2> QED BY <1>1, <2>1 DEF ReleaseFrame, FrameUnderInspection, HoldsFrame,
     WriterHoldsClaim, TypeOK, FrameTypeOK, ControllerTypeOK, DetectorTypeOK
<1>4. CASE RefuseFrame \/ ParseFrame
  BY <1>1, <1>4 DEF RefuseFrame, ParseFrame, ringVars, frameVars, controllerVars,
     FrameUnderInspection, HoldsFrame, WriterHoldsClaim
<1>5. CASE SkipFrame \/ JudgeFrame \/ ProbeNextResult \/ ClaimResultSlot
             \/ RetryResultSlots \/ WriteResult
  <2>1. UNCHANGED <<frameVars, dslot, djob, cpc, cslot>>
        /\ (dpc' \in {"publish", "write_result", "release"} =>
              HoldsFrame /\ dpc # "parse")
        /\ dpc' \in {"wait_job", "publish", "write_result", "release"}
    BY <1>5 DEF SkipFrame, JudgeFrame, ProbeNextResult, ClaimResultSlot,
       RetryResultSlots, WriteResult, HoldsFrame, ringVars, controllerVars
  <2> QED BY <1>1, <2>1
          DEF frameVars, FrameUnderInspection, HoldsFrame, WriterHoldsClaim
<1> QED BY <1>2, <1>3, <1>4, <1>5 DEF DetectorStep, ReadStep, SendStep

\* Triggers, crashes and restarts.
LEMMA ProcessStepFrame ==
  ASSUME FrameInv, ProcessStep \/ \E tag \in Tags : Trigger(tag) PROVE FrameInv'
<1> USE DEF FrameInv
<1>1. TypeOK'
  BY ProcessStepTypes
<1>2. CASE ControllerStart
  <2>1. cpc' = "idle" /\ (~HoldsFrame' \/ UNCHANGED <<ringVars, detectorVars>>)
    BY <1>2 DEF ControllerStart, HoldsFrame
  <2> QED BY <1>1, <2>1 DEF ringVars, frameVars, detectorVars,
     FrameUnderInspection, HoldsFrame, WriterHoldsClaim
<1>3. CASE ~ControllerStart
  <2>1. /\ UNCHANGED frameVars
        /\ ~HoldsFrame' \/ UNCHANGED detectorVars
        /\ cpc' # "write_frame" \/ UNCHANGED <<cpc, cslot>>
    BY <1>3 DEF ProcessStep, ControllerCrash, DetectorStart, DetectorCrash,
       StopDetached, DetectorGone, Trigger, HoldsFrame, ringVars, controllerVars
  <2> QED BY <1>1, <2>1 DEF frameVars, detectorVars, FrameUnderInspection,
     HoldsFrame, WriterHoldsClaim
<1> QED BY <1>2, <1>3

\* Every step keeps the detector's hold on the slot it reads.
LEMMA StepFrame ==
  ASSUME FrameInv, [Next]_vars PROVE FrameInv'
<1>1. CASE UNCHANGED vars
  BY <1>1, StepTypes DEF FrameInv, FrameUnderInspection, WriterHoldsClaim,
     HoldsFrame, vars, ringVars, frameVars, detectorVars, controllerVars
<1> QED BY <1>1, ControllerStepFrame, DetectorStepFrame, ProcessStepFrame DEF Next

\* Types and the hold on the frame, in every reachable state.
LEMMA FrameInvariant == Spec => []FrameInv
<1>1. Init => FrameInv
  BY InitTypes DEF Init, FrameInv, FrameUnderInspection, HoldsFrame, WriterHoldsClaim
<1>2. FrameInv /\ [Next]_vars => FrameInv'
  BY StepFrame
<1> QED BY <1>1, <1>2, PTL DEF Spec

\* The zero-copy images cannot change under the detector: as long as it has
\* not released its slot, the slot is READING and holds the job it parsed.
THEOREM FrameStaysUnderInspection == Spec => []FrameUnderInspection
<1>1. FrameInv => FrameUnderInspection
  BY DEF FrameInv
<1> QED BY <1>1, FrameInvariant, PTL

\* One step takes no published frame back.
LEMMA StepKeepsFrames ==
  ASSUME FrameInv, [Next]_vars, cpc # "down", NEW i \in Slots
  PROVE  /\ frameState[i] = "READY" => /\ frameState'[i] \in {"READY", "READING"}
                                       /\ frameJob'[i] = frameJob[i]
         /\ frameState[i] = "READING" => /\ frameState'[i] \in {"READING", "EMPTY"}
                                         /\ frameJob'[i] = frameJob[i]
<1> USE DEF FrameInv, TypeOK, FrameTypeOK, ControllerTypeOK, DetectorTypeOK
<1>1. CASE UNCHANGED frameVars
  BY <1>1 DEF frameVars
<1>2. CASE \E s \in {ProbedSlot(probe)} : ClaimFrame(s)
  BY <1>2 DEF ClaimFrame
<1>3. CASE cpc = "write_frame" /\ \E j : CommitFrame(cslot, j)
  BY <1>3 DEF CommitFrame, WriterHoldsClaim
<1>4. CASE dpc = "wait_job" /\ TakeFrame(dscan)
  BY <1>4 DEF TakeFrame
<1>5. CASE HoldsFrame /\ ReleaseFrame(dslot)
  BY <1>5 DEF ReleaseFrame, FrameUnderInspection
<1> QED BY <1>1, <1>2, <1>3, <1>4, <1>5, FrameAccess

\* The rule of docs/shm_protocol.md that nobody overwrites a READY or READING
\* slot, for every ring size and with crashes of both programs.
THEOREM FramesAreKept == Spec => PublishedFramesKept
<1> DEFINE Kept == cpc # "down" =>
             \A i \in Slots :
               /\ frameState[i] = "READY" =>
                    /\ frameState'[i] \in {"READY", "READING"}
                    /\ frameJob'[i] = frameJob[i]
               /\ frameState[i] = "READING" =>
                    /\ frameState'[i] \in {"READING", "EMPTY"}
                    /\ frameJob'[i] = frameJob[i]
<1>1. FrameInv /\ [Next]_vars => [Kept]_vars
  BY StepKeepsFrames
<1> QED BY <1>1, FrameInvariant, PTL DEF Spec, PublishedFramesKept

-----------------------------------------------------------------------------
(***************************************************************************)
(* The result slots in use: the detector's claim and the controller's      *)
(* claim each keep their slot until the claimant is done with it.          *)
(***************************************************************************)
ResultClaims ==
  /\ dpc = "write_result" => rslot \in Slots /\ resultState[rslot] = "WRITING"
  /\ cpc = "read_result" => resultState[cslot] = "READING"

ResultInv == TypeOK /\ ResultClaims

\* wait_for_result() touches no slot the detector has claimed: it takes or
\* reclaims READY and CORRUPTED slots only.
LEMMA ControllerStepResult ==
  ASSUME ResultInv, ControllerStep PROVE ResultInv'
<1> USE DEF ResultInv
<1>1. TypeOK'
  BY ControllerStepTypes
<1>2. CASE TakeReadyResult
  <2>1. probe \in Slots
    BY <1>2, SlotCountAssumption
       DEF TakeReadyResult, TypeOK, ControllerTypeOK, Slots
  <2> QED BY <1>1, <1>2, <2>1 DEF TakeReadyResult, TakeResult, SetResultState,
     detectorVars, ResultClaims, TypeOK, ResultTypeOK
<1>3. CASE ReclaimStaleResult \/ ReclaimSpoiledResult
  <2>1. FreeResult(probe) /\ resultState[probe] \in {"READY", "CORRUPTED"}
        /\ UNCHANGED <<dpc, rslot>> /\ cpc' # "read_result"
    BY <1>3 DEF ReclaimStaleResult, ReclaimSpoiledResult, Stale, Spoiled, Reply,
       detectorVars
  <2> QED BY <1>1, <2>1
     DEF FreeResult, SetResultState, ResultClaims, TypeOK, ResultTypeOK
<1>4. CASE ReadResult \/ RejectResult
  <2>1. FreeResult(cslot) /\ cpc = "read_result"
        /\ UNCHANGED <<dpc, rslot>> /\ cpc' # "read_result"
    BY <1>4 DEF ReadResult, RejectResult, Reply, detectorVars
  <2> QED BY <1>1, <2>1
     DEF FreeResult, SetResultState, ResultClaims, TypeOK, ResultTypeOK
<1>5. CASE /\ ControllerStep /\ ~TakeReadyResult /\ ~ReclaimStaleResult
           /\ ~ReclaimSpoiledResult /\ ~ReadResult /\ ~RejectResult
  <2>1. UNCHANGED <<resultVars, dpc, rslot>> /\ cpc' # "read_result"
    BY <1>5 DEF ControllerStep, AcquisitionFails, AcquisitionSucceeds, PublishStep,
       ProbeNextFrame, ClaimFrameSlot, RetryPublish, PublishTimesOut, PublishFrame,
       WaitStep, PassResultSlot, RetryWait, WaitTimesOut, ReplyStep,
       AnswerWithResult, AnswerInvalidResult, Reply, ringVars, detectorVars
  <2> QED BY <1>1, <2>1 DEF resultVars, ResultClaims
<1> QED BY <1>2, <1>3, <1>4, <1>5

\* The detector writes only the slot it claimed, and gives it up by writing it.
LEMMA DetectorStepResult ==
  ASSUME ResultInv, DetectorStep PROVE ResultInv'
<1> USE DEF ResultInv
<1>1. TypeOK'
  BY DetectorStepTypes
<1>2. CASE ClaimResultSlot
  <2>1. rslot \in Slots
    BY <1>2, SlotCountAssumption DEF ClaimResultSlot, TypeOK, DetectorTypeOK, Slots
  <2> QED BY <1>1, <1>2, <2>1 DEF ClaimResultSlot, ClaimResult, SetResultState,
     controllerVars, ResultClaims, TypeOK, ResultTypeOK
<1>3. CASE WriteResult \/ WriteResultFails
  <2>1. /\ dpc = "write_result" /\ dpc' # "write_result"
        /\ UNCHANGED <<cpc, cslot>>
        /\ \E s \in {"READY", "CORRUPTED"} :
             resultState' = [resultState EXCEPT ![rslot] = s]
    BY <1>3 DEF WriteResult, WriteResultFails, DetectorGone, CommitResult,
       MarkCorrupted, SetResultState, controllerVars
  <2> QED BY <1>1, <2>1 DEF ResultClaims, TypeOK, ResultTypeOK
<1>4. CASE DetectorStep /\ ~ClaimResultSlot /\ ~WriteResult /\ ~WriteResultFails
  <2>1. UNCHANGED <<resultVars, cpc, cslot>> /\ dpc' # "write_result"
    BY <1>4 DEF DetectorStep, ReadStep, SkipFrame, TakeReadyFrame,
       DropUnreadableFrame, RefuseFrame, ParseFrame, JudgeFrame, SendStep,
       ProbeNextResult, RetryResultSlots, ResultTimesOut, ReleaseFrameSlot,
       BackToWaiting, DetectorGone, ringVars, controllerVars
  <2> QED BY <1>1, <2>1 DEF resultVars, ResultClaims
<1> QED BY <1>2, <1>3, <1>4

\* Every step keeps the claim of the detector on its result slot.
LEMMA StepResult ==
  ASSUME ResultInv, [Next]_vars PROVE ResultInv'
<1> USE DEF ResultInv
<1>1. TypeOK'
  BY StepTypes
<1>2. CASE UNCHANGED vars
  BY <1>1, <1>2 DEF ResultClaims, vars, ringVars, resultVars, detectorVars,
     controllerVars
<1>3. CASE ProcessStep \/ \E tag \in Tags : Trigger(tag)
  <2>1. \/ cpc' # "read_result" /\ dpc' # "write_result"
        \/ cpc' # "read_result" /\ UNCHANGED <<resultVars, dpc, rslot>>
        \/ dpc' # "write_result" /\ UNCHANGED <<resultVars, cpc, cslot>>
    BY <1>3 DEF ProcessStep, ControllerCrash, ControllerStart, DetectorStart,
       DetectorCrash, StopDetached, DetectorGone, Trigger, ringVars,
       controllerVars, detectorVars
  <2> QED BY <1>1, <2>1 DEF resultVars, ResultClaims
<1> QED BY <1>2, <1>3, ControllerStepResult, DetectorStepResult DEF Next

\* Types and the claim on the result slot, in every reachable state.
LEMMA ResultInvariant == Spec => []ResultInv
<1>1. Init => ResultInv
  BY InitTypes DEF Init, ResultInv, ResultClaims
<1>2. ResultInv /\ [Next]_vars => ResultInv'
  BY StepResult
<1> QED BY <1>1, <1>2, PTL DEF Spec

-----------------------------------------------------------------------------
(***************************************************************************)
(* Whose images an answer is based on.                                     *)
(*                                                                         *)
(* ConservativeAnswer is not inductive: it says nothing of the results on  *)
(* their way.  The invariant follows a seat's number through the rings.    *)
(* OneVerdict: a frame that is still to be judged belongs to a triggered   *)
(* seat without a verdict, and no two such frames belong to the same seat. *)
(* CurrentSeat: the job in the controller's hands is the last seat's.      *)
(* GenuineResults: an intact OK or NG is the detector's verdict on the     *)
(* seat it is labelled with, wherever it is.  InLineage: since the memory  *)
(* was reset, seats and sequence numbers advance together, so that equal   *)
(* sequence numbers mean the same seat.                                    *)
(***************************************************************************)
Unjudged(i) == frameState[i] = "READY" \/ (dpc \in {"parse", "process"} /\ i = dslot)

OneVerdict ==
  /\ \A i \in Slots : Unjudged(i) =>
       frameJob[i].unit \in 1 .. unit /\ judged[frameJob[i].unit] = NoVerdict
  /\ \A i, k \in Slots :
       Unjudged(i) /\ Unjudged(k) /\ frameJob[i].unit = frameJob[k].unit => i = k
  /\ \A u \in Units : u > unit => judged[u] = NoVerdict
  /\ dpc = "process" => djob.integrity = "ok"

Unpublished == cpc \in {"acquire", "publish", "write_frame"}

CurrentSeat ==
  /\ cpc \notin {"idle", "down"} => unit \in Units /\ job.unit = unit
  /\ Unpublished => /\ judged[unit] = NoVerdict
                    /\ \A i \in Slots : Unjudged(i) => frameJob[i].unit # unit

Genuine(r) ==
  r.intact /\ r.verdict.decision \in {"OK", "NG"} =>
    r.unit \in Units /\ judged[r.unit] = r.verdict

GenuineResults ==
  /\ \A i \in Slots : Genuine(resultBody[i])
  /\ Genuine(dresult)
  /\ Genuine(received)
  /\ cpc = "validate" => received.intact

InLineage(x) == x.unit + nextSeq = x.seq + unit + 1

Lineage ==
  cpc # "down" =>
    /\ \A i \in Slots : frameState[i] \in {"READY", "READING"} => InLineage(frameJob[i])
    /\ dpc \in {"publish", "write_result", "release"} => InLineage(dresult)
    /\ \A i \in Slots : resultState[i] \in {"READY", "READING"} => InLineage(resultBody[i])
    /\ cpc = "validate" => InLineage(received)
    /\ cpc # "idle" => job.seq + 1 = nextSeq

SeatInv == FrameInv /\ OneVerdict /\ CurrentSeat /\ GenuineResults

\* A controller step that neither writes a frame nor takes a result over.
LEMMA ReplySeat ==
  ASSUME SeatInv, FrameInv', UNCHANGED <<frameVars, resultBody, detectorVars, unit, judged>>,
         UNCHANGED <<job, received, cpc>> \/ (cpc' = "idle" /\ received' = ZeroResult)
           \/ (cpc = "acquire" /\ cpc' = "publish" /\ UNCHANGED <<job, received>>)
           \/ (cpc = "wait_result" /\ cpc' = "read_result" /\ UNCHANGED <<job, received>>)
  PROVE  SeatInv'
<1>1. OneVerdict'
  BY DEF SeatInv, OneVerdict, Unjudged, frameVars, detectorVars
<1>2. CurrentSeat'
  BY DEF SeatInv, CurrentSeat, Unpublished, Unjudged, frameVars, detectorVars
<1>3. GenuineResults'
  BY DEF SeatInv, GenuineResults, Genuine, detectorVars, ZeroResult, NoVerdict
<1> QED BY <1>1, <1>2, <1>3 DEF SeatInv

\* The controller changes the frame ring by committing the job of the seat it
\* inspects, and the answer it gives leaves SeatInv.
LEMMA ControllerStepSeat ==
  ASSUME SeatInv, ControllerStep PROVE SeatInv'
<1>1. FrameInv'
  BY ControllerStepFrame DEF SeatInv
<1>2. CASE ClaimFrameSlot
  <2>1. /\ frameState[cslot'] = "EMPTY"
        /\ frameState' = [frameState EXCEPT ![cslot'] = "WRITING"]
        /\ frameJob' = [frameJob EXCEPT ![cslot'] = ZeroJob]
        /\ cpc = "publish" /\ cpc' = "write_frame"
        /\ UNCHANGED <<job, received, resultBody, detectorVars, unit, judged>>
    BY <1>2 DEF ClaimFrameSlot, ClaimFrame, resultVars, historyVars
  <2>2. \A i \in Slots : Unjudged(i)' => Unjudged(i) /\ frameJob'[i] = frameJob[i]
    BY <2>1 DEF Unjudged, detectorVars, SeatInv, FrameInv, TypeOK, FrameTypeOK,
       FrameUnderInspection, HoldsFrame
  <2>3. OneVerdict'
    BY <2>1, <2>2 DEF SeatInv, OneVerdict, detectorVars
  <2>4. CurrentSeat'
    BY <2>1, <2>2 DEF SeatInv, CurrentSeat, Unpublished
  <2>5. GenuineResults'
    BY <2>1 DEF SeatInv, GenuineResults, Genuine, detectorVars
  <2> QED BY <1>1, <2>3, <2>4, <2>5 DEF SeatInv
<1>3. CASE PublishFrame
  <2>1. PICK q \in FrameFaults :
          /\ frameState' = [frameState EXCEPT ![cslot] = "READY"]
          /\ frameJob' = [frameJob EXCEPT ![cslot] = [job EXCEPT !.integrity = q]]
    BY <1>3 DEF PublishFrame, CommitFrame
  <2>2. /\ cpc = "write_frame" /\ cpc' = "wait_result"
        /\ UNCHANGED <<job, received, resultBody, detectorVars, unit, judged>>
    BY <1>3 DEF PublishFrame, resultVars, historyVars
  <2>3. frameJob'[cslot].unit = unit /\ unit \in 1 .. unit
    BY <2>1, <2>2 DEF SeatInv, CurrentSeat, FrameInv, TypeOK, FrameTypeOK,
       ControllerTypeOK, Job, Units
  <2>4. \A i \in Slots : i # cslot =>
          frameState'[i] = frameState[i] /\ frameJob'[i] = frameJob[i]
    BY <2>1 DEF SeatInv, FrameInv, TypeOK, FrameTypeOK
  <2>5. \A i \in Slots : Unjudged(i)' =>
          i = cslot \/ (Unjudged(i) /\ frameJob'[i] = frameJob[i])
    BY <2>2, <2>4 DEF Unjudged, detectorVars
  <2>6. OneVerdict'
    BY <2>2, <2>3, <2>5 DEF SeatInv, OneVerdict, CurrentSeat, Unpublished, detectorVars
  <2>7. CurrentSeat'
    BY <2>2 DEF SeatInv, CurrentSeat, Unpublished
  <2>8. GenuineResults'
    BY <2>2 DEF SeatInv, GenuineResults, Genuine, detectorVars
  <2> QED BY <1>1, <2>6, <2>7, <2>8 DEF SeatInv
<1>4. CASE ReadResult
  <2>1. /\ cpc = "read_result" /\ cpc' = "validate"
        /\ resultBody[cslot].intact /\ received' = resultBody[cslot]
        /\ UNCHANGED <<frameVars, job, resultBody, detectorVars, unit, judged>>
    BY <1>4 DEF ReadResult, FreeResult, SetResultState, historyVars
  <2>2. OneVerdict'
    BY <2>1 DEF SeatInv, OneVerdict, Unjudged, frameVars, detectorVars
  <2>3. CurrentSeat'
    BY <2>1 DEF SeatInv, CurrentSeat, Unpublished
  <2>4. GenuineResults'
    BY <2>1 DEF SeatInv, GenuineResults, Genuine, detectorVars, FrameInv, TypeOK,
       ControllerTypeOK
  <2> QED BY <1>1, <2>2, <2>3, <2>4 DEF SeatInv
<1>5. CASE ControllerStep /\ ~ClaimFrameSlot /\ ~PublishFrame /\ ~ReadResult
  <2>1. UNCHANGED <<frameVars, resultBody, detectorVars, unit, judged>>
    BY <1>5 DEF ControllerStep, AcquisitionFails, AcquisitionSucceeds, PublishStep,
       ProbeNextFrame, RetryPublish, PublishTimesOut, WaitStep, TakeReadyResult,
       ReclaimStaleResult, ReclaimSpoiledResult, PassResultSlot, RetryWait,
       WaitTimesOut, RejectResult, ReplyStep, AnswerWithResult,
       AnswerInvalidResult, Reply, TakeResult, FreeResult, SetResultState,
       ringVars, resultVars, historyVars
  <2>2. \/ UNCHANGED <<job, received, cpc>>
        \/ cpc' = "idle" /\ received' = ZeroResult
        \/ cpc = "acquire" /\ cpc' = "publish" /\ UNCHANGED <<job, received>>
        \/ cpc = "wait_result" /\ cpc' = "read_result" /\ UNCHANGED <<job, received>>
    BY <1>5 DEF ControllerStep, AcquisitionFails, AcquisitionSucceeds, PublishStep,
       ProbeNextFrame, RetryPublish, PublishTimesOut, WaitStep, TakeReadyResult,
       ReclaimStaleResult, ReclaimSpoiledResult, PassResultSlot, RetryWait,
       WaitTimesOut, RejectResult, ReplyStep, AnswerWithResult,
       AnswerInvalidResult, Reply
  <2> QED BY <1>1, <2>1, <2>2, ReplySeat
<1> QED BY <1>2, <1>3, <1>4, <1>5

\* The detector commits the verdict of the job it read, and no other verdict.
LEMMA DetectorStepSeat ==
  ASSUME SeatInv, DetectorStep PROVE SeatInv'
<1>1. FrameInv'
  BY DetectorStepFrame DEF SeatInv
<1>2. UNCHANGED <<cpc, job, received, unit>>
  BY DEF DetectorStep, ReadStep, SkipFrame, TakeReadyFrame, DropUnreadableFrame,
     RefuseFrame, ParseFrame, JudgeFrame, SendStep, ProbeNextResult,
     ClaimResultSlot, RetryResultSlots, ResultTimesOut, WriteResult,
     WriteResultFails, ReleaseFrameSlot, controllerVars, historyVars
<1>3. CASE JudgeFrame
  <2>1. PICK v \in PipelineVerdicts :
          /\ dresult' = [seq |-> djob.seq, tag |-> djob.tag,
                         unit |-> frameJob[dslot].unit,
                         verdict |-> v, intact |-> TRUE]
          /\ judged' = [judged EXCEPT ![frameJob[dslot].unit] =
                          IF frameJob[dslot].integrity = "ok" THEN v ELSE NoVerdict]
    BY <1>3 DEF JudgeFrame
  <2> DEFINE w == frameJob[dslot].unit
  <2>2. /\ dpc = "process" /\ dpc' = "publish"
        /\ UNCHANGED <<frameVars, resultBody, dslot, djob>>
    BY <1>3 DEF JudgeFrame, ringVars, resultVars
  <2>3. dslot \in Slots /\ Unjudged(dslot) /\ frameJob[dslot].integrity = "ok"
    BY <2>2 DEF Unjudged, SeatInv, OneVerdict, FrameInv, FrameUnderInspection,
       HoldsFrame, TypeOK, DetectorTypeOK
  <2>4. w \in 1 .. unit /\ w \in Units /\ judged[w] = NoVerdict
    BY <2>3, BoundsAssumption
       DEF SeatInv, OneVerdict, FrameInv, TypeOK, HistoryTypeOK, Units
  <2>5. judged'[w] = v /\ \A u \in Units : u # w => judged'[u] = judged[u]
    BY <2>1, <2>3, <2>4 DEF SeatInv, FrameInv, TypeOK, HistoryTypeOK
  <2>6. \A i \in Slots : Unjudged(i)' => Unjudged(i) /\ frameJob[i].unit # w
    <3>1. \A i \in Slots : Unjudged(i)' => frameState[i] = "READY"
      BY <2>2 DEF Unjudged, frameVars
    <3>2. frameState[dslot] = "READING"
      BY <2>2 DEF SeatInv, FrameInv, FrameUnderInspection, HoldsFrame
    <3> QED BY <2>3, <3>1, <3>2 DEF SeatInv, OneVerdict, Unjudged
  <2>7. OneVerdict'
    <3>1. \A i \in Slots : frameJob[i].unit \in 1 .. unit => frameJob[i].unit \in Units
      BY BoundsAssumption DEF SeatInv, FrameInv, TypeOK, HistoryTypeOK, Units
    <3>2. \A i \in Slots : Unjudged(i)' =>
             frameJob'[i].unit \in 1 .. unit' /\ judged'[frameJob'[i].unit] = NoVerdict
      BY <1>2, <2>2, <2>5, <2>6, <3>1 DEF SeatInv, OneVerdict, frameVars
    <3>3. \A u \in Units : u > unit' => judged'[u] = NoVerdict
      BY <1>2, <2>4, <2>5 DEF SeatInv, OneVerdict, FrameInv, TypeOK, HistoryTypeOK
    <3> QED BY <2>2, <2>6, <3>2, <3>3 DEF SeatInv, OneVerdict, frameVars
  <2>8. CurrentSeat'
    <3>1. Unpublished => unit # w
      BY <2>3 DEF SeatInv, CurrentSeat
    <3> QED BY <1>2, <2>2, <2>5, <2>6, <3>1
            DEF SeatInv, CurrentSeat, Unpublished, frameVars
  <2>9. GenuineResults'
    <3>1. \A r : Genuine(r) => Genuine(r)'
      BY <2>4, <2>5 DEF Genuine, NoVerdict
    <3>2. Genuine(dresult)'
      BY <2>1, <2>4, <2>5 DEF Genuine
    <3> QED BY <1>2, <2>2, <3>1, <3>2 DEF SeatInv, GenuineResults, Genuine
  <2> QED BY <1>1, <2>7, <2>8, <2>9 DEF SeatInv
<1>4. CASE ~JudgeFrame
  <2>1. UNCHANGED judged
    BY <1>4 DEF DetectorStep, ReadStep, SkipFrame, TakeReadyFrame,
       DropUnreadableFrame, RefuseFrame, ParseFrame, SendStep, ProbeNextResult,
       ClaimResultSlot, RetryResultSlots, ResultTimesOut, WriteResult,
       WriteResultFails, ReleaseFrameSlot, historyVars
  <2>2. \A i \in Slots : Unjudged(i)' => Unjudged(i) /\ frameJob'[i] = frameJob[i]
    <3>1. CASE TakeReadyFrame
      BY <3>1 DEF TakeReadyFrame, TakeFrame, Unjudged, SeatInv, FrameInv, TypeOK,
         FrameTypeOK, DetectorTypeOK
    <3>2. CASE DropUnreadableFrame \/ ResultTimesOut \/ WriteResultFails
                 \/ ReleaseFrameSlot
      <4>1. ReleaseFrame(dslot) /\ dpc' \in {"wait_job", "down"}
        BY <3>2 DEF DropUnreadableFrame, ResultTimesOut, WriteResultFails,
           ReleaseFrameSlot, BackToWaiting, DetectorGone
      <4> QED BY <4>1 DEF ReleaseFrame, Unjudged, SeatInv, FrameInv, TypeOK,
              FrameTypeOK, DetectorTypeOK
    <3>3. CASE ParseFrame
      BY <3>3 DEF ParseFrame, Unjudged, ringVars, frameVars
    <3>4. CASE SkipFrame \/ RefuseFrame \/ ProbeNextResult \/ ClaimResultSlot
                 \/ RetryResultSlots \/ WriteResult
      <4>1. UNCHANGED frameVars /\ dpc' \notin {"parse", "process"}
        BY <3>4 DEF SkipFrame, RefuseFrame, ProbeNextResult, ClaimResultSlot,
           RetryResultSlots, WriteResult, ringVars
      <4> QED BY <4>1 DEF Unjudged, frameVars
    <3> QED BY <1>4, <3>1, <3>2, <3>3, <3>4 DEF DetectorStep, ReadStep, SendStep
  <2>3. dpc' = "process" => djob'.integrity = "ok"
    BY <1>4 DEF SeatInv, OneVerdict, DetectorStep, ReadStep, SkipFrame,
       TakeReadyFrame, DropUnreadableFrame, RefuseFrame, ParseFrame, SendStep,
       ProbeNextResult, ClaimResultSlot, RetryResultSlots, ResultTimesOut,
       WriteResult, WriteResultFails, ReleaseFrameSlot, BackToWaiting, DetectorGone
  <2>4. OneVerdict'
    BY <1>2, <2>1, <2>2, <2>3 DEF SeatInv, OneVerdict
  <2>5. CurrentSeat'
    BY <1>2, <2>1, <2>2 DEF SeatInv, CurrentSeat, Unpublished
  <2>6. Genuine(dresult')
    <3>1. CASE RefuseFrame
      BY <3>1 DEF RefuseFrame, Genuine, UnreadableFrame
    <3>2. CASE ~RefuseFrame
      <4>1. dresult' \in {dresult, ZeroResult}
        BY <1>4, <3>2 DEF DetectorStep, ReadStep, SkipFrame, TakeReadyFrame,
           DropUnreadableFrame, ParseFrame, SendStep, ProbeNextResult,
           ClaimResultSlot, RetryResultSlots, ResultTimesOut, WriteResult,
           WriteResultFails, ReleaseFrameSlot, BackToWaiting, DetectorGone
      <4> QED BY <4>1
              DEF SeatInv, GenuineResults, Genuine, ZeroResult, NoVerdict
    <3> QED BY <3>1, <3>2
  <2>7. \A i \in Slots : Genuine(resultBody'[i])
    <3>1. CASE WriteResult
      <4>1. PICK r : resultBody' = [resultBody EXCEPT ![rslot] = r]
                     /\ (r = dresult \/ ~r.intact)
        <5>1. ASSUME NEW v \in PipelineVerdicts
              PROVE  ~[dresult EXCEPT !.verdict = v, !.intact = FALSE].intact
          BY DEF SeatInv, FrameInv, TypeOK, DetectorTypeOK, Result
        <5> QED BY <3>1, <5>1 DEF WriteResult, CommitResult
      <4> QED BY <4>1 DEF SeatInv, GenuineResults, Genuine, FrameInv, TypeOK,
              ResultTypeOK
    <3>2. CASE ~WriteResult
      <4>1. UNCHANGED resultBody
        BY <1>4, <3>2 DEF DetectorStep, ReadStep, SkipFrame, TakeReadyFrame,
           DropUnreadableFrame, RefuseFrame, ParseFrame, SendStep, ProbeNextResult,
           ClaimResultSlot, RetryResultSlots, ResultTimesOut, WriteResultFails,
           ReleaseFrameSlot, ClaimResult, MarkCorrupted, SetResultState, ringVars,
           resultVars
      <4> QED BY <4>1 DEF SeatInv, GenuineResults
    <3> QED BY <3>1, <3>2
  <2>8. GenuineResults'
    BY <1>2, <2>1, <2>6, <2>7 DEF SeatInv, GenuineResults, Genuine
  <2> QED BY <1>1, <2>4, <2>5, <2>8 DEF SeatInv
<1> QED BY <1>3, <1>4

\* Crashes and restarts leave no result of an earlier life behind, because the
\* starting controller resets both rings.
LEMMA ProcessStepSeat ==
  ASSUME SeatInv, ProcessStep \/ \E tag \in Tags : Trigger(tag) PROVE SeatInv'
<1>1. FrameInv'
  BY ProcessStepFrame DEF SeatInv
<1>2. UNCHANGED judged
  BY DEF ProcessStep, ControllerCrash, ControllerStart, DetectorStart,
     DetectorCrash, StopDetached, Trigger, historyVars
<1>3. \A i \in Slots : Unjudged(i)' => Unjudged(i) /\ frameJob'[i] = frameJob[i]
  <2>1. CASE FrameReset /\ dpc' \in {"down", "detached"}
    BY <2>1 DEF FrameReset, Unjudged
  <2>2. CASE UNCHANGED <<frameVars, detectorVars>>
    BY <2>2 DEF frameVars, detectorVars, Unjudged
  <2>3. CASE UNCHANGED frameVars /\ dpc' \notin {"parse", "process"}
    BY <2>3 DEF frameVars, Unjudged
  <2> QED BY <2>1, <2>2, <2>3 DEF ProcessStep, ControllerCrash, ControllerStart,
     DetectorStart, DetectorCrash, StopDetached, DetectorGone, Trigger, ringVars
<1>4. OneVerdict'
  <2>1. dpc' = "process" => dpc = "process" /\ djob' = djob
    BY DEF ProcessStep, ControllerCrash, ControllerStart, DetectorStart,
       DetectorCrash, StopDetached, DetectorGone, Trigger, detectorVars
  <2>2. unit' = unit \/ unit' = unit + 1
    BY DEF ProcessStep, ControllerCrash, ControllerStart, DetectorStart,
       DetectorCrash, StopDetached, Trigger, historyVars
  <2>3. \A i \in Slots : frameJob[i].unit \in 1 .. unit
                         => frameJob[i].unit \in 1 .. unit'
    BY <2>2 DEF SeatInv, FrameInv, TypeOK, HistoryTypeOK
  <2>4. \A u \in Units : u > unit' => u > unit
    BY <2>2 DEF SeatInv, FrameInv, TypeOK, HistoryTypeOK, Units
  <2> QED BY <1>2, <1>3, <2>1, <2>3, <2>4 DEF SeatInv, OneVerdict
<1>5. CurrentSeat'
  <2>1. CASE \E tag \in Tags : Trigger(tag)
    <3>1. cpc' = "acquire" /\ unit' = unit + 1 /\ job'.unit = unit' /\ unit < MaxUnits
      BY <2>1 DEF Trigger
    <3>2. unit' \in Units /\ unit' > unit /\ unit' \notin 1 .. unit
      BY <3>1, BoundsAssumption DEF SeatInv, FrameInv, TypeOK, HistoryTypeOK, Units
    <3> QED BY <1>2, <1>3, <3>1, <3>2 DEF SeatInv, OneVerdict, CurrentSeat, Unpublished
  <2>2. CASE ProcessStep
    <3>1. UNCHANGED unit /\ (cpc' \in {"idle", "down"} \/ UNCHANGED <<cpc, job>>)
      BY <2>2 DEF ProcessStep, ControllerCrash, ControllerStart, DetectorStart,
         DetectorCrash, StopDetached, controllerVars, historyVars
    <3> QED BY <1>2, <1>3, <3>1 DEF SeatInv, CurrentSeat, Unpublished
  <2> QED BY <2>1, <2>2
<1>6. GenuineResults'
  <2>1. /\ dresult' \in {dresult, ZeroResult}
        /\ received' \in {received, ZeroResult}
        /\ cpc' = "validate" => cpc = "validate" /\ received' = received
    BY DEF ProcessStep, ControllerCrash, ControllerStart, DetectorStart,
       DetectorCrash, StopDetached, DetectorGone, Trigger, detectorVars,
       controllerVars
  <2>2. \A i \in Slots : resultBody'[i] \in {resultBody[i], ZeroResult}
    BY DEF ProcessStep, ControllerCrash, ControllerStart, DetectorStart,
       DetectorCrash, StopDetached, Trigger, ResultReset, ringVars, resultVars
  <2> QED BY <1>2, <2>1, <2>2
          DEF SeatInv, GenuineResults, Genuine, ZeroResult, NoVerdict
<1> QED BY <1>1, <1>4, <1>5, <1>6 DEF SeatInv

\* Every step keeps SeatInv.
LEMMA StepSeat ==
  ASSUME SeatInv, [Next]_vars PROVE SeatInv'
<1>1. CASE UNCHANGED vars
  <2>1. FrameInv'
    BY StepFrame DEF SeatInv
  <2> QED BY <1>1, <2>1 DEF SeatInv, OneVerdict, CurrentSeat, Unpublished, Unjudged,
     GenuineResults, Genuine, vars, ringVars, frameVars, resultVars, detectorVars,
     controllerVars, historyVars
<1> QED BY <1>1, ControllerStepSeat, DetectorStepSeat, ProcessStepSeat DEF Next

\* SeatInv holds in every reachable state of a station that resets its memory.
LEMMA SeatInvariant == Spec => []SeatInv
<1>1. Init => SeatInv
  <2>1. Init => FrameInv
    BY InitTypes DEF Init, FrameInv, FrameUnderInspection, HoldsFrame, WriterHoldsClaim
  <2> QED BY <2>1 DEF Init, FrameInit, ResultInit, SeatInv, OneVerdict, CurrentSeat,
     Unpublished, Unjudged, GenuineResults, Genuine, ZeroResult, NoVerdict
<1>2. SeatInv /\ [Next]_vars => SeatInv'
  BY StepSeat
<1> QED BY <1>1, <1>2, PTL DEF Spec

-----------------------------------------------------------------------------
(***************************************************************************)
(* Equal sequence numbers mean the same seat, if a starting controller     *)
(* resets the memory.                                                      *)
(***************************************************************************)
LineageInv == SeatInv /\ ResultInv /\ Lineage

\* The controller hands out job ids that no frame, verdict or result carries.
LEMMA ControllerStepLineage ==
  ASSUME LineageInv, ControllerStep PROVE Lineage'
<1>1. cpc # "down" /\ UNCHANGED <<nextSeq, unit, dpc, dresult>>
  BY DEF ControllerStep, AcquisitionFails, AcquisitionSucceeds, PublishStep,
     ProbeNextFrame, ClaimFrameSlot, RetryPublish, PublishTimesOut, PublishFrame,
     WaitStep, TakeReadyResult, ReclaimStaleResult, ReclaimSpoiledResult,
     PassResultSlot, RetryWait, WaitTimesOut, ReadResult, RejectResult, ReplyStep,
     AnswerWithResult, AnswerInvalidResult, Reply, detectorVars, historyVars
<1>2. cpc' # "idle" => cpc # "idle" /\ UNCHANGED job
  BY DEF ControllerStep, AcquisitionFails, AcquisitionSucceeds, PublishStep,
     ProbeNextFrame, ClaimFrameSlot, RetryPublish, PublishTimesOut, PublishFrame,
     WaitStep, TakeReadyResult, ReclaimStaleResult, ReclaimSpoiledResult,
     PassResultSlot, RetryWait, WaitTimesOut, ReadResult, RejectResult, ReplyStep,
     AnswerWithResult, AnswerInvalidResult, Reply
<1>3. ASSUME NEW i \in Slots, frameState'[i] \in {"READY", "READING"}
      PROVE  InLineage(frameJob[i])'
  <2> USE DEF LineageInv, SeatInv, FrameInv, TypeOK, FrameTypeOK, ControllerTypeOK
  <2>1. CASE PublishFrame
    <3>1. PICK q \in FrameFaults : CommitFrame(cslot, [job EXCEPT !.integrity = q])
      BY <2>1 DEF PublishFrame
    <3>2. CASE i = cslot
      <4>1. frameJob'[i].unit = job.unit /\ frameJob'[i].seq = job.seq
        BY <3>1, <3>2 DEF CommitFrame, Job
      <4>2. job.unit = unit /\ job.seq + 1 = nextSeq
        BY <2>1 DEF PublishFrame, CurrentSeat, Lineage
      <4> QED BY <1>1, <4>1, <4>2
              DEF InLineage, Job, HistoryTypeOK
    <3>3. CASE i # cslot
      BY <1>1, <1>3, <3>1, <3>3 DEF CommitFrame, Lineage, InLineage
    <3> QED BY <3>2, <3>3
  <2>2. CASE ClaimFrameSlot
    BY <1>1, <1>3, <2>2 DEF ClaimFrameSlot, ClaimFrame, Lineage, InLineage
  <2>3. CASE ~PublishFrame /\ ~ClaimFrameSlot
    <3>1. UNCHANGED frameVars
      BY <2>3 DEF ControllerStep, AcquisitionFails, AcquisitionSucceeds, PublishStep,
         ProbeNextFrame, RetryPublish, PublishTimesOut, WaitStep, TakeReadyResult,
         ReclaimStaleResult, ReclaimSpoiledResult, PassResultSlot, RetryWait,
         WaitTimesOut, ReadResult, RejectResult, ReplyStep, AnswerWithResult,
         AnswerInvalidResult, ringVars
    <3> QED BY <1>1, <1>3, <3>1 DEF Lineage, InLineage, frameVars
  <2> QED BY <2>1, <2>2, <2>3
<1>4. ASSUME NEW i \in Slots, resultState'[i] \in {"READY", "READING"}
      PROVE  InLineage(resultBody[i])'
  <2>1. UNCHANGED resultBody
    BY DEF ControllerStep, AcquisitionFails, AcquisitionSucceeds, PublishStep,
       ProbeNextFrame, ClaimFrameSlot, RetryPublish, PublishTimesOut, PublishFrame,
       WaitStep, TakeReadyResult, ReclaimStaleResult, ReclaimSpoiledResult,
       PassResultSlot, RetryWait, WaitTimesOut, ReadResult, RejectResult, ReplyStep,
       AnswerWithResult, AnswerInvalidResult, TakeResult, FreeResult,
       SetResultState, ringVars, resultVars
  <2>2. \/ UNCHANGED resultState
        \/ \E k \in {probe} : resultState[k] = "READY"
                   /\ resultState' = [resultState EXCEPT ![k] = "READING"]
        \/ \E k \in {probe, cslot} : resultState' = [resultState EXCEPT ![k] = "EMPTY"]
    BY DEF ControllerStep, AcquisitionFails, AcquisitionSucceeds, PublishStep,
       ProbeNextFrame, ClaimFrameSlot, RetryPublish, PublishTimesOut, PublishFrame,
       WaitStep, TakeReadyResult, ReclaimStaleResult, ReclaimSpoiledResult,
       PassResultSlot, RetryWait, WaitTimesOut, ReadResult, RejectResult, ReplyStep,
       AnswerWithResult, AnswerInvalidResult, TakeResult, FreeResult,
       SetResultState, ringVars, resultVars
  <2>3. resultState[i] \in {"READY", "READING"}
    BY <1>4, <2>2 DEF LineageInv, ResultInv, TypeOK, ResultTypeOK
  <2> QED BY <1>1, <2>1, <2>3 DEF LineageInv, Lineage, InLineage
<1>5. ASSUME cpc' = "validate" PROVE InLineage(received)'
  <2>1. ReadResult
    BY <1>5 DEF ControllerStep, AcquisitionFails, AcquisitionSucceeds, PublishStep,
       ProbeNextFrame, ClaimFrameSlot, RetryPublish, PublishTimesOut, PublishFrame,
       WaitStep, TakeReadyResult, ReclaimStaleResult, ReclaimSpoiledResult,
       PassResultSlot, RetryWait, WaitTimesOut, RejectResult, ReplyStep,
       AnswerWithResult, AnswerInvalidResult, Reply
  <2>2. resultState[cslot] = "READING" /\ cslot \in Slots
    BY <2>1 DEF ReadResult, LineageInv, ResultInv, ResultClaims, TypeOK,
       ControllerTypeOK
  <2> QED BY <1>1, <2>1, <2>2 DEF ReadResult, LineageInv, Lineage, InLineage
<1> QED BY <1>1, <1>2, <1>3, <1>4, <1>5 DEF LineageInv, Lineage, InLineage

\* What the detector reads, judges and writes comes from a published frame.
LEMMA DetectorStepLineage ==
  ASSUME LineageInv, DetectorStep PROVE Lineage'
<1>1. UNCHANGED <<cpc, nextSeq, job, received, unit>>
  BY DEF DetectorStep, ReadStep, SkipFrame, TakeReadyFrame, DropUnreadableFrame,
     RefuseFrame, ParseFrame, JudgeFrame, SendStep, ProbeNextResult,
     ClaimResultSlot, RetryResultSlots, ResultTimesOut, WriteResult,
     WriteResultFails, ReleaseFrameSlot, controllerVars, historyVars
<1>2. ASSUME NEW i \in Slots
      PROVE  /\ frameJob'[i] = frameJob[i]
             /\ frameState'[i] \in {"READY", "READING"}
                  => frameState[i] \in {"READY", "READING"}
  BY DEF DetectorStep, ReadStep, SkipFrame, TakeReadyFrame, DropUnreadableFrame,
     RefuseFrame, ParseFrame, JudgeFrame, SendStep, ProbeNextResult,
     ClaimResultSlot, RetryResultSlots, ResultTimesOut, WriteResult,
     WriteResultFails, ReleaseFrameSlot, TakeFrame, ReleaseFrame, ringVars,
     frameVars, LineageInv, ResultInv, TypeOK, FrameTypeOK
<1>3. ASSUME cpc # "down", dpc' \in {"publish", "write_result", "release"}
      PROVE  InLineage(dresult)'
  <2>1. CASE RefuseFrame \/ JudgeFrame
    <3>1. /\ dpc \in {"parse", "process"}
          /\ dresult'.unit = frameJob[dslot].unit
          /\ dresult'.seq = frameJob[dslot].seq
      BY <2>1 DEF RefuseFrame, JudgeFrame, LineageInv, SeatInv, FrameInv,
         FrameUnderInspection, HoldsFrame
    <3>2. dslot \in Slots /\ frameState[dslot] = "READING"
      BY <3>1 DEF LineageInv, SeatInv, FrameInv, FrameUnderInspection, HoldsFrame,
         TypeOK, DetectorTypeOK
    <3> QED BY <1>1, <1>3, <3>1, <3>2 DEF LineageInv, Lineage, InLineage
  <2>2. CASE ~RefuseFrame /\ ~JudgeFrame
    <3>1. dpc \in {"publish", "write_result", "release"} /\ UNCHANGED dresult
      BY <1>3, <2>2 DEF DetectorStep, ReadStep, SkipFrame, TakeReadyFrame,
         DropUnreadableFrame, ParseFrame, SendStep, ProbeNextResult,
         ClaimResultSlot, RetryResultSlots, ResultTimesOut, WriteResult,
         WriteResultFails, ReleaseFrameSlot, BackToWaiting, DetectorGone
    <3> QED BY <1>1, <1>3, <3>1 DEF LineageInv, Lineage, InLineage
  <2> QED BY <2>1, <2>2
<1>4. ASSUME cpc # "down", NEW i \in Slots, resultState'[i] \in {"READY", "READING"}
      PROVE  InLineage(resultBody[i])'
  <2>1. CASE WriteResult
    <3>1. PICK r : CommitResult(rslot, r) /\ r.seq = dresult.seq /\ r.unit = dresult.unit
      <4>1. ASSUME NEW v \in PipelineVerdicts
            PROVE  LET r == [dresult EXCEPT !.verdict = v, !.intact = FALSE]
                   IN  r.seq = dresult.seq /\ r.unit = dresult.unit
        BY DEF LineageInv, ResultInv, TypeOK, DetectorTypeOK, Result
      <4> QED BY <2>1, <4>1 DEF WriteResult
    <3>2. dpc = "write_result" /\ rslot \in Slots
      BY <2>1 DEF WriteResult, LineageInv, ResultInv, ResultClaims
    <3>3. CASE i = rslot
      BY <1>1, <1>4, <3>1, <3>2, <3>3 DEF CommitResult, LineageInv, ResultInv,
         TypeOK, ResultTypeOK, Lineage, InLineage
    <3>4. CASE i # rslot
      BY <1>1, <1>4, <3>1, <3>2, <3>4 DEF CommitResult, LineageInv, ResultInv,
         TypeOK, ResultTypeOK, Lineage, InLineage
    <3> QED BY <3>3, <3>4
  <2>2. CASE ~WriteResult
    <3>1. /\ UNCHANGED resultBody
          /\ \/ UNCHANGED resultState
             \/ \E s \in {"WRITING", "CORRUPTED"} :
                  resultState' = [resultState EXCEPT ![rslot] = s]
      BY <2>2 DEF DetectorStep, ReadStep, SkipFrame, TakeReadyFrame,
         DropUnreadableFrame, RefuseFrame, ParseFrame, JudgeFrame, SendStep,
         ProbeNextResult, ClaimResultSlot, RetryResultSlots, ResultTimesOut,
         WriteResultFails, ReleaseFrameSlot, ClaimResult, MarkCorrupted,
         SetResultState, ringVars, resultVars
    <3>2. resultState[i] \in {"READY", "READING"}
      BY <1>4, <3>1 DEF LineageInv, ResultInv, TypeOK, ResultTypeOK
    <3> QED BY <1>1, <1>4, <3>1, <3>2 DEF LineageInv, Lineage, InLineage
  <2> QED BY <2>1, <2>2
<1> QED BY <1>1, <1>2, <1>3, <1>4 DEF LineageInv, Lineage, InLineage

\* Crashes and restarts invent no frame and no verdict.
LEMMA ProcessStepLineage ==
  ASSUME ResetOnStart, LineageInv, ProcessStep \/ \E tag \in Tags : Trigger(tag)
  PROVE  Lineage'
<1>1. CASE \E tag \in Tags : Trigger(tag)
  <2>1. /\ cpc = "idle" /\ cpc' = "acquire"
        /\ nextSeq' = nextSeq + 1 /\ unit' = unit + 1
        /\ job'.seq = nextSeq
        /\ UNCHANGED <<ringVars, detectorVars>>
    BY <1>1 DEF Trigger
  <2>2. \A x \in Job \cup Result : InLineage(x) => InLineage(x)'
    BY <2>1 DEF InLineage, Job, Result, LineageInv, ResultInv, TypeOK,
       ControllerTypeOK, HistoryTypeOK
  <2>3. /\ \A i \in Slots : frameJob[i] \in Job /\ resultBody[i] \in Result
        /\ dresult \in Result
    BY DEF LineageInv, ResultInv, TypeOK, FrameTypeOK, ResultTypeOK, DetectorTypeOK
  <2>4. \A i \in Slots : frameState[i] \in {"READY", "READING"}
                           => InLineage(frameJob[i])'
    BY <2>1, <2>2, <2>3
       DEF LineageInv, Lineage, InLineage, ringVars, frameVars
  <2>5. \A i \in Slots : resultState[i] \in {"READY", "READING"}
                           => InLineage(resultBody[i])'
    BY <2>1, <2>2, <2>3
       DEF LineageInv, Lineage, InLineage, ringVars, resultVars
  <2>6. dpc \in {"publish", "write_result", "release"} => InLineage(dresult)'
    BY <2>1, <2>2, <2>3 DEF LineageInv, Lineage, InLineage, detectorVars
  <2> QED BY <2>1, <2>4, <2>5, <2>6
          DEF Lineage, ringVars, frameVars, resultVars, detectorVars
<1>2. CASE ControllerCrash
  BY <1>2 DEF ControllerCrash, Lineage
<1>3. CASE ControllerStart
  BY <1>3 DEF ControllerStart, MemoryIsNew, FrameReset, ResultReset, Lineage
<1>4. CASE DetectorStart \/ DetectorCrash \/ StopDetached
  <2>1. UNCHANGED <<controllerVars, ringVars, unit>>
        /\ dpc' \in {"wait_job", "down"}
    BY <1>4 DEF DetectorStart, DetectorCrash, StopDetached, DetectorGone, historyVars
  <2> QED BY <2>1 DEF LineageInv, Lineage, InLineage, controllerVars, ringVars,
     frameVars, resultVars
<1> QED BY <1>1, <1>2, <1>3, <1>4 DEF ProcessStep

\* Every step keeps the lineage of frames, verdicts and results.
LEMMA StepLineage ==
  ASSUME ResetOnStart, LineageInv, [Next]_vars PROVE LineageInv'
<1>1. SeatInv' /\ ResultInv'
  BY StepSeat, StepResult DEF LineageInv
<1>2. UNCHANGED vars => Lineage'
  BY DEF LineageInv, Lineage, InLineage, vars, controllerVars, detectorVars,
     ringVars, frameVars, resultVars, historyVars
<1>3. Lineage'
  BY <1>2, ControllerStepLineage, DetectorStepLineage, ProcessStepLineage DEF Next
<1> QED BY <1>1, <1>3 DEF LineageInv

\* The lineage holds in every reachable state.
LEMMA LineageInvariant ==
  ASSUME ResetOnStart PROVE Spec => []LineageInv
<1>1. Init => LineageInv
  <2>1. Init => FrameInv
    BY InitTypes DEF Init, FrameInv, FrameUnderInspection, HoldsFrame, WriterHoldsClaim
  <2>2. Init => ResultInv
    BY InitTypes DEF Init, ResultInv, ResultClaims
  <2>3. Init => SeatInv
    BY <2>1 DEF Init, FrameInit, ResultInit, SeatInv, OneVerdict, CurrentSeat,
       Unpublished, Unjudged, GenuineResults, Genuine, ZeroResult, NoVerdict
  <2>4. Init => Lineage
    BY DEF Init, FrameInit, ResultInit, Lineage
  <2> QED BY <2>2, <2>3, <2>4 DEF LineageInv
<1>2. LineageInv /\ [Next]_vars => LineageInv'
  BY StepLineage
<1> QED BY <1>1, <1>2, PTL DEF Spec

\* Answers that were given stay warranted, and a new one is warranted.
LEMMA StepAnswers ==
  ASSUME LineageInv, ConservativeAnswer, [Next]_vars PROVE ConservativeAnswer'
<1> DEFINE Warranted(u) == answer[u].delivered /\ answer[u].decision \in {"OK", "NG"}
                 => Acceptable(judged[u]) /\ judged[u].decision = answer[u].decision
<1>1. CASE AnswerWithResult
  <2>1. PICK b \in BOOLEAN :
          answer' = [answer EXCEPT ![unit] =
            IF b THEN [decision |-> PublishedDecision(received.verdict),
                       code |-> received.verdict.code, delivered |-> TRUE]
                 ELSE [decision |-> "RECHECK", code |-> "DeviceFault",
                       delivered |-> FALSE]]
    BY <1>1 DEF AnswerWithResult, Reply
  <2>2. /\ cpc = "validate" /\ received.seq = job.seq
        /\ Acceptable(received.verdict) /\ UNCHANGED judged
    BY <1>1 DEF AnswerWithResult, Reply, BelongsTo
  <2>3. unit \in Units /\ received.unit = unit
    <3>1. unit \in Units /\ job.seq + 1 = nextSeq /\ InLineage(received)
      BY <2>2 DEF LineageInv, SeatInv, CurrentSeat, Lineage
    <3>2. received.unit + (received.seq + 1) = received.seq + unit + 1
      BY <2>2, <3>1 DEF InLineage
    <3>3. received.unit \in Nat /\ received.seq \in Nat /\ unit \in Nat
      BY <3>1 DEF LineageInv, ResultInv, TypeOK, ControllerTypeOK, Result, Units
    <3> QED BY <3>1, <3>2, <3>3
  <2>4. received.verdict.decision \in {"OK", "NG"}
          => judged[unit] = received.verdict
    BY <2>2, <2>3 DEF LineageInv, SeatInv, GenuineResults, Genuine
  <2>5. PublishedDecision(received.verdict) \in {"OK", "NG"}
          => PublishedDecision(received.verdict) = received.verdict.decision
    BY DEF PublishedDecision
  <2>6. answer \in [Units -> Answer]
    BY DEF LineageInv, ResultInv, TypeOK, HistoryTypeOK
  <2> QED BY <2>1, <2>2, <2>3, <2>4, <2>5, <2>6 DEF ConservativeAnswer
<1>2. CASE JudgeFrame
  <2>1. /\ UNCHANGED answer /\ dpc = "process"
        /\ \E v : judged' = [judged EXCEPT ![frameJob[dslot].unit] = v]
    BY <1>2 DEF JudgeFrame
  <2>2. judged[frameJob[dslot].unit] = NoVerdict
    BY <2>1 DEF LineageInv, SeatInv, OneVerdict, Unjudged, ResultInv, TypeOK,
       DetectorTypeOK
  <2>3. ~Acceptable(NoVerdict)
    BY DEF Acceptable, NoVerdict
  <2>4. ASSUME NEW u \in Units PROVE Warranted(u)'
    <3>1. CASE u = frameJob[dslot].unit
      BY <2>1, <2>2, <2>3, <3>1 DEF ConservativeAnswer
    <3>2. CASE u # frameJob[dslot].unit
      BY <2>1, <3>2 DEF ConservativeAnswer, LineageInv, ResultInv, TypeOK,
         HistoryTypeOK
    <3> QED BY <3>1, <3>2
  <2> QED BY <2>4 DEF ConservativeAnswer
<1>3. CASE \E code : Reply("RECHECK", code)
  BY <1>3 DEF Reply, ConservativeAnswer, LineageInv, ResultInv, TypeOK, HistoryTypeOK
<1>4. CASE UNCHANGED <<answer, judged>>
  BY <1>4 DEF ConservativeAnswer
<1>5. \/ AnswerWithResult \/ JudgeFrame \/ \E code : Reply("RECHECK", code)
      \/ UNCHANGED <<answer, judged>>
  <2>1. CASE ControllerStep
    BY <2>1 DEF ControllerStep, AcquisitionFails, AcquisitionSucceeds, PublishStep,
       ProbeNextFrame, ClaimFrameSlot, RetryPublish, PublishTimesOut, PublishFrame,
       WaitStep, TakeReadyResult, ReclaimStaleResult, ReclaimSpoiledResult,
       PassResultSlot, RetryWait, WaitTimesOut, ReadResult, RejectResult, ReplyStep,
       AnswerInvalidResult, historyVars
  <2>2. CASE DetectorStep
    BY <2>2 DEF DetectorStep, ReadStep, SkipFrame, TakeReadyFrame,
       DropUnreadableFrame, RefuseFrame, ParseFrame, SendStep, ProbeNextResult,
       ClaimResultSlot, RetryResultSlots, ResultTimesOut, WriteResult,
       WriteResultFails, ReleaseFrameSlot, historyVars
  <2>3. CASE ProcessStep \/ \E tag \in Tags : Trigger(tag)
    BY <2>3 DEF ProcessStep, ControllerCrash, ControllerStart, DetectorStart,
       DetectorCrash, StopDetached, Trigger, historyVars
  <2>4. CASE UNCHANGED vars
    BY <2>4 DEF vars, historyVars
  <2> QED BY <2>1, <2>2, <2>3, <2>4 DEF Next
<1> QED BY <1>1, <1>2, <1>3, <1>4, <1>5

\* A station that resets its memory when it starts never passes or fails a
\* seat without the detector's acceptable verdict on that seat's intact
\* images: for any number of slots, seats, crashes and restarts, on both
\* platforms, whatever is damaged and whatever the pipeline says.
THEOREM AnswersAreConservative ==
  ASSUME ResetOnStart PROVE Spec => []ConservativeAnswer
<1>1. Init => ConservativeAnswer
  BY DEF Init, ConservativeAnswer, Open
<1>2. LineageInv /\ ConservativeAnswer /\ [Next]_vars => ConservativeAnswer'
  BY StepAnswers
<1> QED BY <1>1, <1>2, LineageInvariant, PTL DEF Spec

-----------------------------------------------------------------------------
(***************************************************************************)
(* The station implements SeatInspection.                                  *)
(***************************************************************************)

\* The two modules speak the same language.
LEMMA SameVocabulary ==
  /\ Seats!ErrorCodes = ErrorCodes
  /\ Seats!NoVerdict = NoVerdict
  /\ \A v : Seats!Acceptable(v) <=> Acceptable(v)
BY DEF Seats!ErrorCodes, ErrorCodes, Seats!NoVerdict, NoVerdict, Seats!Acceptable,
   Acceptable

\* inspect_one_seat returning with RECHECK is an answer SeatInspection allows.
LEMMA RecheckRefines ==
  ASSUME NEW c \in ErrorCodes, Reply("RECHECK", c), cpc \notin {"idle", "down"}
  PROVE  Seats!Reply
<1>1. PICK b \in BOOLEAN :
        answer' = [answer EXCEPT ![unit] =
          IF b THEN [decision |-> "RECHECK", code |-> c, delivered |-> TRUE]
               ELSE [decision |-> "RECHECK", code |-> "DeviceFault",
                     delivered |-> FALSE]]
  BY DEF Reply
<1>2. cpc' = "idle" /\ UNCHANGED <<unit, judged>>
  BY DEF Reply
<1>3. "DeviceFault" \in ErrorCodes
  BY DEF ErrorCodes
<1>4. \E d \in {"OK", "NG", "RECHECK"}, e \in ErrorCodes, f \in BOOLEAN :
        /\ d # "RECHECK" => f /\ Seats!Warranted(d, judged[unit])
        /\ answer' = [answer EXCEPT ![unit] =
                        [decision |-> d, code |-> e, delivered |-> f]]
  BY <1>1, <1>3
<1> QED BY <1>2, <1>4, SameVocabulary DEF Seats!Reply

\* So is the answer that passes the detector's verdict on.
LEMMA VerdictRefines ==
  ASSUME LineageInv, AnswerWithResult PROVE Seats!Reply
<1> DEFINE v == received.verdict
<1>1. PICK b \in BOOLEAN :
        answer' = [answer EXCEPT ![unit] =
          IF b THEN [decision |-> PublishedDecision(v), code |-> v.code,
                     delivered |-> TRUE]
               ELSE [decision |-> "RECHECK", code |-> "DeviceFault",
                     delivered |-> FALSE]]
  BY DEF AnswerWithResult, Reply
<1>2. /\ cpc = "validate" /\ cpc' = "idle" /\ UNCHANGED <<unit, judged>>
      /\ received.seq = job.seq /\ Acceptable(v)
  BY DEF AnswerWithResult, Reply, BelongsTo
<1>3. unit \in Units /\ received.unit = unit
  <2>1. unit \in Units /\ job.seq + 1 = nextSeq /\ InLineage(received)
    BY <1>2 DEF LineageInv, SeatInv, CurrentSeat, Lineage
  <2>2. received.unit + (received.seq + 1) = received.seq + unit + 1
    BY <1>2, <2>1 DEF InLineage
  <2>3. received.unit \in Nat /\ received.seq \in Nat /\ unit \in Nat
    BY <2>1 DEF LineageInv, ResultInv, TypeOK, ControllerTypeOK, Result, Units
  <2> QED BY <2>1, <2>2, <2>3
<1>4. v \in Verdict
  BY DEF LineageInv, ResultInv, TypeOK, ControllerTypeOK, Result
<1>5. /\ PublishedDecision(v) \in {"OK", "NG", "RECHECK"}
      /\ v.code \in ErrorCodes /\ "DeviceFault" \in ErrorCodes
  BY <1>4 DEF PublishedDecision, Verdict, Decisions, ErrorCodes
<1>6. PublishedDecision(v) # "RECHECK"
        => Seats!Warranted(PublishedDecision(v), judged[unit])
  BY <1>2, <1>3, <1>5, SameVocabulary DEF PublishedDecision, Seats!Warranted, LineageInv, SeatInv,
     GenuineResults, Genuine
<1>7. \E d \in {"OK", "NG", "RECHECK"}, e \in ErrorCodes, f \in BOOLEAN :
        /\ d # "RECHECK" => f /\ Seats!Warranted(d, judged[unit])
        /\ answer' = [answer EXCEPT ![unit] =
                        [decision |-> d, code |-> e, delivered |-> f]]
  <2>1. CASE b
    BY <1>1, <1>5, <1>6, <2>1
  <2>2. CASE ~b
    BY <1>1, <1>5, <2>2
  <2> QED BY <2>1, <2>2
<1> QED BY <1>2, <1>7, SameVocabulary DEF Seats!Reply

\* Every step of the station is a step of SeatInspection or a stutter.
LEMMA StepRefines ==
  ASSUME LineageInv, [Next]_vars PROVE [Seats!Next]_(Seats!seatVars)
<1> USE DEF Seats!seatVars
<1>1. CASE ControllerStep
  <2>1. CASE AnswerWithResult
    BY <2>1, VerdictRefines DEF Seats!Next
  <2>2. CASE \/ AcquisitionFails \/ PublishTimesOut \/ ReclaimSpoiledResult
             \/ WaitTimesOut \/ RejectResult \/ AnswerInvalidResult
    <3>1. cpc \notin {"idle", "down"} /\ \E c \in ErrorCodes : Reply("RECHECK", c)
      BY <2>2, AcquisitionCodesAssumption DEF AcquisitionFails, PublishTimesOut,
         ReclaimSpoiledResult, WaitTimesOut, RejectResult, AnswerInvalidResult,
         ErrorCodes
    <3> QED BY <3>1, RecheckRefines DEF Seats!Next
  <2>3. CASE ~AnswerWithResult /\ ~AcquisitionFails /\ ~PublishTimesOut
             /\ ~ReclaimSpoiledResult /\ ~WaitTimesOut /\ ~RejectResult
             /\ ~AnswerInvalidResult
    <3>1. /\ cpc \notin {"idle", "down"} /\ cpc' \notin {"idle", "down"}
          /\ UNCHANGED <<unit, answer, judged>>
      BY <1>1, <2>3 DEF ControllerStep, AcquisitionSucceeds, PublishStep,
         ProbeNextFrame, ClaimFrameSlot, RetryPublish, PublishFrame, WaitStep,
         TakeReadyResult, ReclaimStaleResult, PassResultSlot, RetryWait,
         ReadResult, ReplyStep, historyVars
    <3> QED BY <3>1
  <2> QED BY <2>1, <2>2, <2>3
<1>2. CASE DetectorStep
  <2>1. CASE JudgeFrame
    <3>1. PICK v \in PipelineVerdicts :
            judged' = [judged EXCEPT ![frameJob[dslot].unit] =
                         IF frameJob[dslot].integrity = "ok" THEN v ELSE NoVerdict]
      BY <2>1 DEF JudgeFrame
    <3>2. dpc = "process" /\ UNCHANGED <<unit, answer, cpc>>
      BY <2>1 DEF JudgeFrame, controllerVars
    <3>3. dslot \in Slots /\ Unjudged(dslot) /\ frameJob[dslot].integrity = "ok"
      BY <3>2 DEF Unjudged, LineageInv, SeatInv, OneVerdict, FrameInv,
         FrameUnderInspection, HoldsFrame, TypeOK, DetectorTypeOK
    <3>4. frameJob[dslot].unit \in 1 .. unit /\ judged[frameJob[dslot].unit] = NoVerdict
      BY <3>3 DEF LineageInv, SeatInv, OneVerdict
    <3>5. Seats!Judge(frameJob[dslot].unit)
      BY <3>1, <3>2, <3>3, <3>4, SameVocabulary DEF Seats!Judge
    <3> QED BY <3>4, <3>5 DEF Seats!Next
  <2>2. CASE ~JudgeFrame
    <3>1. UNCHANGED <<cpc, unit, answer, judged>>
      BY <1>2, <2>2 DEF DetectorStep, ReadStep, SkipFrame, TakeReadyFrame,
         DropUnreadableFrame, RefuseFrame, ParseFrame, SendStep, ProbeNextResult,
         ClaimResultSlot, RetryResultSlots, ResultTimesOut, WriteResult,
         WriteResultFails, ReleaseFrameSlot, controllerVars, historyVars
    <3> QED BY <3>1
  <2> QED BY <2>1, <2>2
<1>3. CASE \E tag \in Tags : Trigger(tag)
  BY <1>3 DEF Trigger, Seats!Next, Seats!Trigger
<1>4. CASE ControllerCrash
  BY <1>4 DEF ControllerCrash, Seats!Next, Seats!Abandon
<1>5. CASE ControllerStart \/ DetectorStart \/ DetectorCrash \/ StopDetached
  BY <1>5 DEF ControllerStart, DetectorStart, DetectorCrash, StopDetached,
     controllerVars, historyVars
<1>6. CASE UNCHANGED vars
  BY <1>6 DEF vars, controllerVars, historyVars
<1> QED BY <1>1, <1>2, <1>3, <1>4, <1>5, <1>6 DEF Next, ProcessStep

\* The station implements the abstract specification, step by step, for every
\* value of the constants with which a starting controller resets its memory.
THEOREM StationImplementsSeatInspection ==
  ASSUME ResetOnStart PROVE Spec => ImplementsSeatInspection
<1>1. Init => Seats!Init
  BY SameVocabulary DEF Init, Seats!Init, Units, Open, Seats!Pending
<1>2. LineageInv /\ [Next]_vars => [Seats!Next]_(Seats!seatVars)
  BY StepRefines
<1> QED BY <1>1, <1>2, LineageInvariant, PTL DEF Spec, Seats!Spec, ImplementsSeatInspection

-----------------------------------------------------------------------------
(***************************************************************************)
(* No slot is lost while the programs live: each orphan was left by a      *)
(* crash of the detector since the memory was last reset, and each         *)
(* abandoned slot by a crash of the controller.                            *)
(***************************************************************************)
HeldFrames == IF HoldsFrame THEN {dslot} ELSE {}
OrphanFrames == FramesBeingRead \ HeldFrames
ClaimedFrames == IF cpc = "write_frame" THEN {cslot} ELSE {}
AbandonedFrames == FramesBeingWritten \ ClaimedFrames
HeldResults == IF dpc = "write_result" THEN {rslot} ELSE {}
OrphanResults == ResultsBeingWritten \ HeldResults

\* A set of slots that loses elements stays within its counter.
LEMMA CountedSubset ==
  ASSUME NEW S \in SUBSET Slots, NEW T \in SUBSET S, NEW n \in Nat,
         Cardinality(S) <= n
  PROVE  Cardinality(T) <= n
<1>1. IsFiniteSet(Slots)
  BY SlotCountAssumption, FS_Interval DEF Slots
<1>2. IsFiniteSet(S)
  BY <1>1, FS_Subset
<1>3. Cardinality(T) <= Cardinality(S) /\ IsFiniteSet(T)
  BY <1>2, FS_Subset
<1>4. Cardinality(T) \in Nat /\ Cardinality(S) \in Nat
  BY <1>2, <1>3, FS_CardinalityType
<1> QED BY <1>3, <1>4

\* A set of slots that gains one slot while a counter goes up by one.
LEMMA CountedInsertion ==
  ASSUME NEW S \in SUBSET Slots, NEW x \in Slots, NEW T \in SUBSET (S \cup {x}),
         NEW n \in Nat, Cardinality(S) <= n
  PROVE  Cardinality(T) <= n + 1
<1>1. IsFiniteSet(Slots)
  BY SlotCountAssumption, FS_Interval DEF Slots
<1>2. IsFiniteSet(S)
  BY <1>1, FS_Subset
<1>3. Cardinality(S) \in Nat
  BY <1>2, FS_CardinalityType
<1>4. \/ Cardinality(S \cup {x}) = Cardinality(S)
      \/ Cardinality(S \cup {x}) = Cardinality(S) + 1
  BY <1>2, FS_AddElement
<1>5. Cardinality(S \cup {x}) <= n + 1
  BY <1>3, <1>4
<1> QED BY <1>5, CountedSubset

\* What a step does to the orphans and to the count of crashes.
LEMMA StepOrphanFrames ==
  ASSUME FrameInv, [Next]_vars
  PROVE  \/ OrphanFrames' \subseteq OrphanFrames /\ crashes' = crashes
         \/ OrphanFrames' \subseteq OrphanFrames \cup {dslot} /\ crashes' = crashes + 1
         \/ OrphanFrames' = {}
<1> USE DEF OrphanFrames, HeldFrames, FramesBeingRead
<1>1. FrameInv'
  BY StepFrame
<1>2. CASE UNCHANGED vars
  BY <1>2 DEF vars, ringVars, frameVars, detectorVars, historyVars, HoldsFrame
<1>3. CASE ControllerStep \/ \E tag \in Tags : Trigger(tag)
  <2>1. UNCHANGED <<dpc, dslot, crashes>>
    BY <1>3 DEF ControllerStep, AcquisitionFails, AcquisitionSucceeds, PublishStep,
       ProbeNextFrame, ClaimFrameSlot, RetryPublish, PublishTimesOut, PublishFrame,
       WaitStep, TakeReadyResult, ReclaimStaleResult, ReclaimSpoiledResult,
       PassResultSlot, RetryWait, WaitTimesOut, ReadResult, RejectResult, ReplyStep,
       AnswerWithResult, AnswerInvalidResult, Reply, Trigger, detectorVars,
       historyVars
  <2>2. \/ UNCHANGED frameState
        \/ \E i \in Slots, s \in {"WRITING", "READY"} :
             frameState' = [frameState EXCEPT ![i] = s]
    <3>1. CASE ClaimFrameSlot
      <4>1. ProbedSlot(probe) \in Slots
        BY ProbedSlotInRing DEF FrameInv, TypeOK, ControllerTypeOK
      <4> QED BY <3>1, <4>1 DEF ClaimFrameSlot, ClaimFrame
    <3>2. CASE PublishFrame
      BY <3>2 DEF PublishFrame, CommitFrame, FrameInv, TypeOK, ControllerTypeOK
    <3>3. CASE ~ClaimFrameSlot /\ ~PublishFrame
      BY <1>3, <3>3 DEF ControllerStep, AcquisitionFails, AcquisitionSucceeds,
         PublishStep, ProbeNextFrame, RetryPublish, PublishTimesOut, WaitStep,
         TakeReadyResult, ReclaimStaleResult, ReclaimSpoiledResult,
         PassResultSlot, RetryWait, WaitTimesOut, ReadResult, RejectResult,
         ReplyStep, AnswerWithResult, AnswerInvalidResult, Trigger, ringVars,
         frameVars
    <3> QED BY <3>1, <3>2, <3>3
  <2> QED BY <2>1, <2>2 DEF HoldsFrame, FrameInv, TypeOK, FrameTypeOK
<1>4. CASE DetectorStep
  <2>1. UNCHANGED crashes
    BY <1>4 DEF DetectorStep, ReadStep, SkipFrame, TakeReadyFrame,
       DropUnreadableFrame, RefuseFrame, ParseFrame, JudgeFrame, SendStep,
       ProbeNextResult, ClaimResultSlot, RetryResultSlots, ResultTimesOut,
       WriteResult, WriteResultFails, ReleaseFrameSlot, historyVars
  <2>2. CASE TakeReadyFrame
    BY <2>1, <2>2 DEF TakeReadyFrame, TakeFrame, HoldsFrame, FrameInv, TypeOK,
       FrameTypeOK, DetectorTypeOK
  <2>3. CASE DropUnreadableFrame \/ ResultTimesOut \/ WriteResultFails
               \/ ReleaseFrameSlot
    <3>1. ReleaseFrame(dslot)
      BY <2>3 DEF DropUnreadableFrame, ResultTimesOut, WriteResultFails,
         ReleaseFrameSlot
    <3> QED BY <2>1, <3>1 DEF ReleaseFrame, FrameInv, TypeOK, FrameTypeOK,
       DetectorTypeOK
  <2>4. CASE SkipFrame \/ RefuseFrame \/ ParseFrame \/ JudgeFrame \/ ProbeNextResult
               \/ ClaimResultSlot \/ RetryResultSlots \/ WriteResult
    <3>1. UNCHANGED <<frameState, dslot>> /\ (HoldsFrame => HoldsFrame')
      BY <2>4 DEF SkipFrame, RefuseFrame, ParseFrame, JudgeFrame, ProbeNextResult,
         ClaimResultSlot, RetryResultSlots, WriteResult, HoldsFrame, ringVars,
         frameVars
    <3> QED BY <2>1, <3>1
  <2> QED BY <1>4, <2>2, <2>3, <2>4 DEF DetectorStep, ReadStep, SendStep
<1>5. CASE DetectorCrash
  BY <1>5 DEF DetectorCrash, DetectorGone, HoldsFrame, ringVars, frameVars
<1>6. CASE ControllerStart
  <2>1. FrameReset \/ UNCHANGED <<frameState, dpc, dslot, crashes>>
    BY <1>6 DEF ControllerStart, ringVars, frameVars, detectorVars
  <2> QED BY <2>1 DEF FrameReset, HoldsFrame
<1>7. CASE ControllerCrash \/ DetectorStart \/ StopDetached
  <2>1. UNCHANGED <<frameState, crashes>>
        /\ (HoldsFrame => HoldsFrame' /\ dslot' = dslot)
    BY <1>7 DEF ControllerCrash, DetectorStart, StopDetached, HoldsFrame, ringVars,
       frameVars, detectorVars, historyVars
  <2> QED BY <2>1
<1> QED BY <1>2, <1>3, <1>4, <1>5, <1>6, <1>7 DEF Next, ProcessStep

\* What a step does to the frame slots nobody is filling any more and to the
\* count of restarts.
LEMMA StepAbandonedFrames ==
  ASSUME FrameInv, [Next]_vars
  PROVE  \/ /\ AbandonedFrames' \subseteq AbandonedFrames /\ restarts' = restarts
            /\ cpc = "down" => cpc' = "down" \/ ~ResetOnStart
         \/ /\ AbandonedFrames' \subseteq AbandonedFrames \cup {cslot}
            /\ restarts' = restarts + 1 /\ cpc' = "down"
         \/ AbandonedFrames' = {} /\ restarts' = restarts
<1> USE DEF AbandonedFrames, ClaimedFrames, FramesBeingWritten
<1>1. CASE UNCHANGED vars
  BY <1>1 DEF vars, ringVars, frameVars, controllerVars, historyVars
<1>2. CASE ControllerStep \/ \E tag \in Tags : Trigger(tag)
  <2>1. restarts' = restarts /\ cpc # "down"
    BY <1>2 DEF ControllerStep, AcquisitionFails, AcquisitionSucceeds, PublishStep,
       ProbeNextFrame, ClaimFrameSlot, RetryPublish, PublishTimesOut, PublishFrame,
       WaitStep, TakeReadyResult, ReclaimStaleResult, ReclaimSpoiledResult,
       PassResultSlot, RetryWait, WaitTimesOut, ReadResult, RejectResult, ReplyStep,
       AnswerWithResult, AnswerInvalidResult, Reply, Trigger, historyVars
  <2>2. CASE ClaimFrameSlot
    <3>1. /\ cpc = "publish" /\ cpc' = "write_frame" /\ cslot' \in Slots
          /\ frameState' = [frameState EXCEPT ![cslot'] = "WRITING"]
      BY <2>2, ProbedSlotInRing DEF ClaimFrameSlot, ClaimFrame, FrameInv, TypeOK,
         ControllerTypeOK
    <3> QED BY <2>1, <3>1 DEF FrameInv, TypeOK, FrameTypeOK
  <2>3. CASE PublishFrame
    <3>1. /\ cpc = "write_frame" /\ cpc' = "wait_result"
          /\ frameState' = [frameState EXCEPT ![cslot] = "READY"]
      BY <2>3 DEF PublishFrame, CommitFrame
    <3> QED BY <2>1, <3>1 DEF FrameInv, TypeOK, FrameTypeOK, ControllerTypeOK
  <2>4. CASE ~ClaimFrameSlot /\ ~PublishFrame
    <3>1. UNCHANGED frameState /\ cpc # "write_frame" /\ cpc' # "write_frame"
      BY <1>2, <2>4 DEF ControllerStep, AcquisitionFails, AcquisitionSucceeds,
         PublishStep, ProbeNextFrame, RetryPublish, PublishTimesOut, WaitStep,
         TakeReadyResult, ReclaimStaleResult, ReclaimSpoiledResult,
         PassResultSlot, RetryWait, WaitTimesOut, ReadResult, RejectResult,
         ReplyStep, AnswerWithResult, AnswerInvalidResult, Reply, Trigger, ringVars,
         frameVars
    <3> QED BY <2>1, <3>1
  <2> QED BY <2>2, <2>3, <2>4
<1>3. CASE DetectorStep
  <2>1. UNCHANGED <<cpc, cslot, restarts>>
    BY <1>3 DEF DetectorStep, ReadStep, SkipFrame, TakeReadyFrame,
       DropUnreadableFrame, RefuseFrame, ParseFrame, JudgeFrame, SendStep,
       ProbeNextResult, ClaimResultSlot, RetryResultSlots, ResultTimesOut,
       WriteResult, WriteResultFails, ReleaseFrameSlot, controllerVars, historyVars
  <2>2. \/ UNCHANGED frameState
        \/ \E i, s : s \in {"READING", "EMPTY"}
                     /\ frameState' = [frameState EXCEPT ![i] = s]
    BY <1>3 DEF DetectorStep, ReadStep, SkipFrame, TakeReadyFrame, TakeFrame,
       DropUnreadableFrame, RefuseFrame, ParseFrame, JudgeFrame, SendStep,
       ProbeNextResult, ClaimResultSlot, RetryResultSlots, ResultTimesOut,
       WriteResult, WriteResultFails, ReleaseFrameSlot, ReleaseFrame, ringVars,
       frameVars
  <2> QED BY <2>1, <2>2 DEF FrameInv, TypeOK, FrameTypeOK
<1>4. CASE ControllerCrash
  BY <1>4 DEF ControllerCrash, ringVars, frameVars
<1>5. CASE ControllerStart
  <2>1. /\ cpc' = "idle" /\ cpc = "down" /\ restarts' = restarts
        /\ FrameReset \/ (UNCHANGED frameState /\ ~ResetOnStart)
    BY <1>5 DEF ControllerStart, MemoryIsNew, ringVars, frameVars
  <2> QED BY <2>1 DEF FrameReset
<1>6. CASE DetectorStart \/ DetectorCrash \/ StopDetached
  BY <1>6 DEF DetectorStart, DetectorCrash, StopDetached, ringVars, frameVars,
     controllerVars, historyVars
<1> QED BY <1>1, <1>2, <1>3, <1>4, <1>5, <1>6 DEF Next, ProcessStep

\* At most one frame slot per death of a process is out of circulation, and none
\* of a dead controller's once the memory has been reset.
THEOREM FrameSlotsAreAccountedFor == Spec => []FrameSlotsAccounted
<1> DEFINE Counted == /\ Cardinality(OrphanFrames) <= crashes
                      /\ Cardinality(AbandonedFrames) <= restarts
                      /\ ResetOnStart /\ cpc # "down" => AbandonedFrames = {}
<1>1. FrameSlotsAccounted <=> Counted
  BY DEF FrameSlotsAccounted, OrphanFrames, HeldFrames, AbandonedFrames, ClaimedFrames
<1>2. Init => Counted
  <2>1. Init => /\ OrphanFrames = {} /\ crashes = 0
                /\ AbandonedFrames = {} /\ restarts = 0
    BY DEF Init, FrameInit, OrphanFrames, FramesBeingRead, AbandonedFrames,
       FramesBeingWritten
  <2> QED BY <2>1, FS_EmptySet
<1>3. ASSUME FrameInv, Cardinality(OrphanFrames) <= crashes, [Next]_vars
      PROVE  Cardinality(OrphanFrames)' <= crashes'
  <2>1. OrphanFrames \in SUBSET Slots /\ dslot \in Slots /\ crashes \in Nat
        /\ crashes' \in Nat
    BY <1>3, StepFrame DEF OrphanFrames, FramesBeingRead, FrameInv, TypeOK,
       DetectorTypeOK, HistoryTypeOK
  <2>2. CASE OrphanFrames' \subseteq OrphanFrames /\ crashes' = crashes
    BY <1>3, <2>1, <2>2, CountedSubset
  <2>3. CASE OrphanFrames' \subseteq OrphanFrames \cup {dslot} /\ crashes' = crashes + 1
    BY <1>3, <2>1, <2>3, CountedInsertion
  <2>4. CASE OrphanFrames' = {}
    BY <2>1, <2>4, FS_EmptySet
  <2> QED BY <1>3, <2>2, <2>3, <2>4, StepOrphanFrames
<1>4. ASSUME FrameInv, Cardinality(AbandonedFrames) <= restarts, [Next]_vars
      PROVE  Cardinality(AbandonedFrames)' <= restarts'
  <2>1. AbandonedFrames \in SUBSET Slots /\ cslot \in Slots /\ restarts \in Nat
        /\ restarts' \in Nat
    BY <1>4, StepFrame DEF AbandonedFrames, FramesBeingWritten, FrameInv, TypeOK,
       ControllerTypeOK, HistoryTypeOK
  <2>2. CASE AbandonedFrames' \subseteq AbandonedFrames /\ restarts' = restarts
    BY <1>4, <2>1, <2>2, CountedSubset
  <2>3. CASE AbandonedFrames' \subseteq AbandonedFrames \cup {cslot}
             /\ restarts' = restarts + 1
    BY <1>4, <2>1, <2>3, CountedInsertion
  <2>4. CASE AbandonedFrames' = {} /\ restarts' = restarts
    BY <2>1, <2>4, FS_EmptySet
  <2> QED BY <1>4, <2>2, <2>3, <2>4, StepAbandonedFrames
<1>5. ASSUME FrameInv, ResetOnStart /\ cpc # "down" => AbandonedFrames = {}, [Next]_vars
      PROVE  (ResetOnStart /\ cpc # "down" => AbandonedFrames = {})'
  BY <1>5, StepAbandonedFrames
<1>6. FrameInv /\ Counted /\ [Next]_vars => Counted'
  BY <1>3, <1>4, <1>5
<1>7. Spec => []Counted
  BY <1>2, <1>6, FrameInvariant, PTL DEF Spec
<1> QED BY <1>1, <1>7, PTL

\* What a step does to the orphaned result slots and to the count of crashes.
LEMMA StepOrphanResults ==
  ASSUME ResultInv, [Next]_vars
  PROVE  \/ OrphanResults' \subseteq OrphanResults /\ crashes' = crashes
         \/ /\ crashes' = crashes + 1
            /\ OrphanResults' \subseteq OrphanResults \cup HeldResults
         \/ OrphanResults' = {}
<1> USE DEF OrphanResults, HeldResults, ResultsBeingWritten
<1>1. CASE UNCHANGED vars
  BY <1>1 DEF vars, ringVars, resultVars, detectorVars, historyVars
<1>2. CASE ControllerStep \/ \E tag \in Tags : Trigger(tag)
  <2>1. UNCHANGED <<dpc, rslot, crashes>>
    BY <1>2 DEF ControllerStep, AcquisitionFails, AcquisitionSucceeds, PublishStep,
       ProbeNextFrame, ClaimFrameSlot, RetryPublish, PublishTimesOut, PublishFrame,
       WaitStep, TakeReadyResult, ReclaimStaleResult, ReclaimSpoiledResult,
       PassResultSlot, RetryWait, WaitTimesOut, ReadResult, RejectResult, ReplyStep,
       AnswerWithResult, AnswerInvalidResult, Reply, Trigger, detectorVars,
       historyVars
  <2>2. \/ UNCHANGED resultState
        \/ \E k, s : s \in {"READING", "EMPTY"}
                     /\ resultState' = [resultState EXCEPT ![k] = s]
    BY <1>2 DEF ControllerStep, AcquisitionFails, AcquisitionSucceeds, PublishStep,
       ProbeNextFrame, ClaimFrameSlot, RetryPublish, PublishTimesOut, PublishFrame,
       WaitStep, TakeReadyResult, ReclaimStaleResult, ReclaimSpoiledResult,
       PassResultSlot, RetryWait, WaitTimesOut, ReadResult, RejectResult, ReplyStep,
       AnswerWithResult, AnswerInvalidResult, Trigger, TakeResult, FreeResult,
       SetResultState, ringVars, resultVars
  <2> QED BY <2>1, <2>2 DEF ResultInv, TypeOK, ResultTypeOK
<1>3. CASE DetectorStep
  <2>1. UNCHANGED crashes
    BY <1>3 DEF DetectorStep, ReadStep, SkipFrame, TakeReadyFrame,
       DropUnreadableFrame, RefuseFrame, ParseFrame, JudgeFrame, SendStep,
       ProbeNextResult, ClaimResultSlot, RetryResultSlots, ResultTimesOut,
       WriteResult, WriteResultFails, ReleaseFrameSlot, historyVars
  <2>2. CASE ClaimResultSlot
    BY <2>1, <2>2 DEF ClaimResultSlot, ClaimResult, SetResultState, ResultInv,
       TypeOK, ResultTypeOK
  <2>3. CASE WriteResult \/ WriteResultFails
    <3>1. /\ dpc = "write_result" /\ dpc' # "write_result"
          /\ \E s \in {"READY", "CORRUPTED"} :
               resultState' = [resultState EXCEPT ![rslot] = s]
      BY <2>3 DEF WriteResult, WriteResultFails, DetectorGone, CommitResult,
         MarkCorrupted, SetResultState
    <3> QED BY <2>1, <3>1 DEF ResultInv, ResultClaims, TypeOK, ResultTypeOK
  <2>4. CASE ~ClaimResultSlot /\ ~WriteResult /\ ~WriteResultFails
    <3>1. UNCHANGED resultState /\ dpc # "write_result"
      BY <1>3, <2>4 DEF DetectorStep, ReadStep, SkipFrame, TakeReadyFrame,
         DropUnreadableFrame, RefuseFrame, ParseFrame, JudgeFrame, SendStep,
         ProbeNextResult, RetryResultSlots, ResultTimesOut, ReleaseFrameSlot,
         ringVars, resultVars
    <3> QED BY <2>1, <3>1
  <2> QED BY <2>2, <2>3, <2>4
<1>4. CASE DetectorCrash
  BY <1>4 DEF DetectorCrash, DetectorGone, ringVars, resultVars
<1>5. CASE ControllerStart
  <2>1. ResultReset \/ UNCHANGED <<resultState, dpc, rslot, crashes>>
    BY <1>5 DEF ControllerStart, ringVars, resultVars, detectorVars
  <2> QED BY <2>1 DEF ResultReset
<1>6. CASE ControllerCrash \/ DetectorStart \/ StopDetached
  <2>1. /\ UNCHANGED <<resultState, crashes>>
        /\ dpc = "write_result" => dpc' = dpc /\ rslot' = rslot
    BY <1>6 DEF ControllerCrash, DetectorStart, StopDetached, ringVars, resultVars,
       detectorVars, historyVars
  <2> QED BY <2>1
<1> QED BY <1>1, <1>2, <1>3, <1>4, <1>5, <1>6 DEF Next, ProcessStep

\* At most one result slot per detector crash is out of circulation.
THEOREM ResultSlotsAreAccountedFor == Spec => []ResultSlotsAccounted
<1> DEFINE Counted == Cardinality(OrphanResults) <= crashes
<1>1. ResultSlotsAccounted <=> Counted
  BY DEF ResultSlotsAccounted, OrphanResults, HeldResults
<1>2. Init => Counted
  <2>1. Init => OrphanResults = {} /\ crashes = 0
    BY DEF Init, ResultInit, OrphanResults, ResultsBeingWritten
  <2> QED BY <2>1, FS_EmptySet
<1>3. ASSUME ResultInv, Counted, [Next]_vars PROVE Counted'
  <2>1. OrphanResults \in SUBSET Slots /\ crashes \in Nat /\ crashes' \in Nat
        /\ (dpc = "write_result" => rslot \in Slots)
    BY <1>3, StepResult DEF OrphanResults, ResultsBeingWritten, ResultInv,
       ResultClaims, TypeOK, HistoryTypeOK
  <2>2. CASE OrphanResults' \subseteq OrphanResults /\ crashes' = crashes
    BY <1>3, <2>1, <2>2, CountedSubset
  <2>3. CASE /\ crashes' = crashes + 1
             /\ OrphanResults' \subseteq OrphanResults \cup HeldResults
    <3>1. PICK k \in Slots : HeldResults \subseteq {k}
      BY <2>1, ConstantTypes DEF HeldResults
    <3> QED BY <1>3, <2>1, <2>3, <3>1, CountedInsertion
  <2>4. CASE OrphanResults' = {}
    BY <2>1, <2>4, FS_EmptySet
  <2> QED BY <1>3, <2>2, <2>3, <2>4, StepOrphanResults
<1>4. ResultInv /\ Counted /\ [Next]_vars => Counted'
  BY <1>3
<1>5. Spec => []Counted
  BY <1>2, <1>4, ResultInvariant, PTL DEF Spec
<1> QED BY <1>1, <1>5, PTL

-----------------------------------------------------------------------------
(***************************************************************************)
(* Every accepted trigger is answered.  The controller goes through its    *)
(* states in one direction; the two in which it waits go round a ring, and *)
(* every pass over a ring ends.                                            *)
(***************************************************************************)
JobOver == cpc \in {"idle", "down"}

\* How many slots of the current pass are still to be visited.
ProbesLeft == SlotCount - probe

\* Where the states of an inspection lead.
StepsOn(states) == cpc' \in states \/ JobOver'

\* A pass ends, is begun anew only when all slots were visited, and every other
\* step of the controller visits one of them.
PassGoesOn ==
  /\ ProbesLeft' <= ProbesLeft \/ ProbesLeft = 0
  /\ ControllerStep => ProbesLeft' < ProbesLeft \/ ProbesLeft = 0

LEMMA ControllerGoesOn ==
  ASSUME TypeOK, ControllerStep
  PROVE  /\ cpc = "acquire" => StepsOn({"publish"})
         /\ cpc = "publish" => StepsOn({"write_frame"}) \/ (cpc' = "publish" /\ PassGoesOn)
         /\ cpc = "write_frame" => StepsOn({"wait_result"})
         /\ cpc = "wait_result" => StepsOn({"read_result"}) \/ (cpc' = "wait_result" /\ PassGoesOn)
         /\ cpc = "read_result" => StepsOn({"validate"})
         /\ cpc = "validate" => StepsOn({})
<1>1. probe \in Nat /\ SlotCount \in Nat /\ probe <= SlotCount
  BY SlotCountAssumption DEF TypeOK, ControllerTypeOK
<1>2. CASE AcquisitionFails \/ PublishTimesOut \/ WaitTimesOut \/ ReclaimSpoiledResult
           \/ RejectResult \/ AnswerWithResult \/ AnswerInvalidResult
  <2>1. cpc' = "idle"
    BY <1>2 DEF AcquisitionFails, PublishTimesOut, WaitTimesOut, ReclaimSpoiledResult,
       RejectResult, AnswerWithResult, AnswerInvalidResult, Reply
  <2> QED BY <2>1 DEF StepsOn, JobOver
<1>3. CASE AcquisitionSucceeds \/ ClaimFrameSlot \/ PublishFrame \/ TakeReadyResult \/ ReadResult
  BY <1>3 DEF AcquisitionSucceeds, ClaimFrameSlot, PublishFrame, TakeReadyResult, ReadResult,
     StepsOn
<1>4. CASE ProbeNextFrame \/ ReclaimStaleResult \/ PassResultSlot
  <2>1. /\ cpc' = cpc /\ cpc \in {"publish", "wait_result"}
        /\ probe < SlotCount /\ probe' = probe + 1
    BY <1>4 DEF ProbeNextFrame, ReclaimStaleResult, PassResultSlot
  <2>2. PassGoesOn
    BY <1>1, <2>1 DEF PassGoesOn, ProbesLeft
  <2> QED BY <2>1, <2>2
<1>5. CASE RetryPublish \/ RetryWait
  <2>1. /\ cpc' = cpc /\ cpc \in {"publish", "wait_result"} /\ probe = SlotCount
    BY <1>5 DEF RetryPublish, RetryWait
  <2>2. PassGoesOn
    BY <1>1, <2>1 DEF PassGoesOn, ProbesLeft
  <2> QED BY <2>1, <2>2
<1> QED
  BY <1>2, <1>3, <1>4, <1>5 DEF ControllerStep, PublishStep, WaitStep, ReplyStep

\* Nothing else moves the controller on.
LEMMA OthersLeaveController ==
  ASSUME TypeOK, [Next]_vars, ~ControllerStep
  PROVE  JobOver \/ JobOver' \/ (cpc' = cpc /\ probe' = probe)
<1>1. CASE DetectorStep
  BY <1>1
     DEF DetectorStep, ReadStep, SendStep, SkipFrame, TakeReadyFrame, DropUnreadableFrame,
         RefuseFrame, ParseFrame, JudgeFrame, ProbeNextResult, ClaimResultSlot,
         RetryResultSlots, ResultTimesOut, WriteResult, WriteResultFails, ReleaseFrameSlot,
         controllerVars
<1>2. CASE ProcessStep
  BY <1>2
     DEF ProcessStep, ControllerCrash, ControllerStart, DetectorStart, DetectorCrash,
         StopDetached, controllerVars, JobOver
<1>3. CASE \E tag \in Tags : Trigger(tag)
  BY <1>3 DEF Trigger, JobOver
<1>4. CASE UNCHANGED vars
  BY <1>4 DEF vars, controllerVars
<1> QED BY <1>1, <1>2, <1>3, <1>4 DEF Next

LEMMA InspectionGoesOn ==
  ASSUME TypeOK, [Next]_vars
  PROVE  /\ cpc = "acquire" => StepsOn({"acquire", "publish"})
         /\ cpc = "publish" => StepsOn({"write_frame"}) \/ (cpc' = "publish" /\ PassGoesOn)
         /\ cpc = "write_frame" => StepsOn({"write_frame", "wait_result"})
         /\ cpc = "wait_result" => StepsOn({"read_result"}) \/ (cpc' = "wait_result" /\ PassGoesOn)
         /\ cpc = "read_result" => StepsOn({"read_result", "validate"})
         /\ cpc = "validate" => StepsOn({"validate"})
<1>1. CASE ControllerStep
  BY <1>1, ControllerGoesOn DEF StepsOn
<1>2. CASE ~ControllerStep
  <2>1. probe \in Nat /\ SlotCount \in Nat
    BY SlotCountAssumption DEF TypeOK, ControllerTypeOK
  <2>2. probe' = probe => PassGoesOn
    BY <1>2, <2>1 DEF PassGoesOn, ProbesLeft
  <2> QED BY <1>2, <2>2, OthersLeaveController DEF StepsOn, JobOver
<1> QED BY <1>1, <1>2

(***************************************************************************)
(* Fairness with the guards of the actions spelled out, since ENABLED is   *)
(* beyond the prover, and a fact of the natural numbers that it cannot     *)
(* state as one, having no induction over behaviours: ProbesLeft does not  *)
(* fall for ever.                                                          *)
(***************************************************************************)
ControllerRuns ==
  /\ []<>JobOver \/ []<><<ControllerStep>>_vars
  /\ <>[]~(cpc = "publish" /\ probe = SlotCount) \/ []<><<PublishTimesOut>>_vars
  /\ <>[]~(cpc = "wait_result" /\ probe = SlotCount) \/ []<><<WaitTimesOut>>_vars

NoEndlessPass ==
  <>[][ProbesLeft' <= ProbesLeft]_vars => ~[]<><<ProbesLeft' < ProbesLeft>>_vars

\* Every accepted trigger is answered, whatever the detector does or leaves in
\* the rings, unless the controller itself dies (docs/shm_protocol.md, on
\* publish_timeout_ms and detector_timeout_ms).
THEOREM TriggersAreAnswered ==
  Spec /\ ControllerRuns /\ NoEndlessPass => EveryTriggerAnswered
<1> DEFINE Acq == cpc = "acquire"
           Pub == cpc = "publish"
           Wri == cpc = "write_frame"
           Wai == cpc = "wait_result"
           Rea == cpc = "read_result"
           Val == cpc = "validate"
           End == JobOver
           Full == probe = SlotCount
           Falls == ProbesLeft' < ProbesLeft
           Stays == ProbesLeft' <= ProbesLeft
<1>0. Spec => []TypeOK
  BY TypeCorrect
<1>1. /\ ~(Acq /\ End) /\ ~(Pub /\ End) /\ ~(Wri /\ End) /\ ~(Wai /\ End)
      /\ ~(Rea /\ End) /\ ~(Val /\ End)
      /\ ~(Pub /\ Wri) /\ ~(Wai /\ Rea) /\ ~(Acq /\ Pub) /\ ~(Wri /\ Wai) /\ ~(Rea /\ Val)
  BY DEF JobOver
<1>2. TypeOK /\ [Next]_vars =>
        /\ Acq => Acq' \/ Pub' \/ End'
        /\ Wri => Wri' \/ Wai' \/ End'
        /\ Rea => Rea' \/ Val' \/ End'
        /\ Val => Val' \/ End'
  BY InspectionGoesOn DEF StepsOn
<1>3. TypeOK /\ <<ControllerStep>>_vars =>
        /\ Acq => Pub' \/ End'
        /\ Wri => Wai' \/ End'
        /\ Rea => Val' \/ End'
        /\ Val => End'
  BY ControllerGoesOn DEF StepsOn
<1>4. TypeOK /\ ~Full => ProbesLeft # 0
  <2>1. TypeOK => probe \in Nat /\ SlotCount \in Nat
    BY SlotCountAssumption DEF TypeOK, ControllerTypeOK
  <2> QED BY <2>1 DEF ProbesLeft
<1>5. TypeOK /\ [Next]_vars =>
        /\ Pub => Wri' \/ End' \/ Pub'
        /\ Wai => Rea' \/ End' \/ Wai'
        /\ (Pub /\ Pub') \/ (Wai /\ Wai') => Stays \/ Full
        /\ ((Pub /\ Pub') \/ (Wai /\ Wai')) /\ ControllerStep => Falls \/ Full
  BY <1>1, <1>4, InspectionGoesOn DEF StepsOn, PassGoesOn, JobOver
<1>6. /\ <<PublishTimesOut>>_vars => End'
      /\ <<WaitTimesOut>>_vars => End'
  BY DEF PublishTimesOut, WaitTimesOut, Reply, JobOver
<1>7. ControllerRuns =>
        /\ []<>End \/ []<><<ControllerStep>>_vars
        /\ <>[]~(Pub /\ Full) \/ []<><<PublishTimesOut>>_vars
        /\ <>[]~(Wai /\ Full) \/ []<><<WaitTimesOut>>_vars
  BY PTL DEF ControllerRuns
<1>8. NoEndlessPass => (<>[][Stays]_vars => ~[]<><<Falls>>_vars)
  BY PTL DEF NoEndlessPass
<1> DEFINE Runs == Spec /\ ControllerRuns /\ NoEndlessPass
<1>9. Acq => cpc = "acquire"
  OBVIOUS
<1>10. Runs => (Acq ~> End)
  <2> HIDE DEF Acq, Pub, Wri, Wai, Rea, Val, End, Full, Falls, Stays
  <2>1. Runs => (Val ~> End)
    BY <1>0, <1>1, <1>2, <1>3, <1>7, PTL DEF Spec
  <2>2. Runs => (Rea ~> Val \/ End)
    BY <1>0, <1>1, <1>2, <1>3, <1>7, PTL DEF Spec
  <2>3. Runs => (Wai ~> Rea \/ End)
    BY <1>0, <1>1, <1>5, <1>6, <1>7, <1>8, PTL DEF Spec
  <2>4. Runs => (Wri ~> Wai \/ End)
    BY <1>0, <1>1, <1>2, <1>3, <1>7, PTL DEF Spec
  <2>5. Runs => (Pub ~> Wri \/ End)
    BY <1>0, <1>1, <1>5, <1>6, <1>7, <1>8, PTL DEF Spec
  <2>6. Runs => (Acq ~> Pub \/ End)
    BY <1>0, <1>1, <1>2, <1>3, <1>7, PTL DEF Spec
  <2> HIDE DEF Runs
  <2> QED BY <2>1, <2>2, <2>3, <2>4, <2>5, <2>6, PTL
<1> QED BY <1>10, PTL DEF EveryTriggerAnswered, JobOver
=============================================================================
