-------------------------- MODULE ResultRoomProofs --------------------------
(***************************************************************************)
(* Why leftovers of timed-out jobs never fill the result ring, for every   *)
(* size of the rings, as long as neither program has crashed.              *)
(*                                                                         *)
(* Every job that the detector still owes an answer occupies a frame slot, *)
(* every answer nobody has fetched a result slot.  Their number, the load, *)
(* only grows when the controller publishes a frame.  Then it waits, and   *)
(* leaves the wait with one result less, or after a sweep that found none  *)
(* because there was none.                                                 *)
(***************************************************************************)
EXTENDS InspectionStationProofs

\* The frames the detector owes an answer for.
Owed ==
  {i \in Slots : frameState[i] \in {"READY", "READING"}}
    \ (IF dpc = "release" THEN {dslot} ELSE {})

\* The result slots that hold an answer.
Answered == {i \in Slots : resultState[i] \in {"READY", "READING", "CORRUPTED"}}

Load == Cardinality(Owed) + Cardinality(Answered)

\* The sweep has an answer before it.
Ahead == \E i \in Answered : i >= probe

LoadInv ==
  /\ Load <= SlotCount + 1
  /\ Load = SlotCount + 1 => cpc = "read_result" \/ (cpc = "wait_result" /\ Ahead)

\* Nobody numbers a job but this controller, and the awaited job is its last.
Sequenced ==
  /\ \A i \in Slots : frameJob[i].seq < nextSeq /\ resultBody[i].seq < nextSeq
  /\ djob.seq < nextSeq /\ dresult.seq < nextSeq
  /\ cpc # "idle" => job.seq + 1 = nextSeq

Claimed(i, state) ==
  CASE state = "WRITING" -> dpc = "write_result" /\ i = rslot
    [] state = "READING" -> cpc = "read_result" /\ i = cslot
    [] OTHER -> TRUE

\* No slot is in use by a program that is no longer there.
NoClaimLeft == \A i \in Slots : Claimed(i, resultState[i])

Alive == cpc # "down" /\ dpc # "detached" /\ restarts = 0

RoomInv ==
  FrameInv /\ ResultInv /\ Alive /\ Sequenced /\ (crashes = 0 => NoClaimLeft /\ LoadInv)

-----------------------------------------------------------------------------
(***************************************************************************)
(* Counting.                                                               *)
(***************************************************************************)

LEMMA SlotsCounted ==
  ASSUME NEW S \in SUBSET Slots
  PROVE  /\ IsFiniteSet(S) /\ Cardinality(S) \in Nat /\ Cardinality(S) <= SlotCount
         /\ S = Slots => Cardinality(S) = SlotCount
         /\ Cardinality(S) = 0 <=> S = {}
         /\ \A x \in S : Cardinality(S \ {x}) = Cardinality(S) - 1
         /\ \A x \in Slots \ S : Cardinality(S \cup {x}) = Cardinality(S) + 1
<1>1. IsFiniteSet(Slots) /\ Cardinality(Slots) = SlotCount
  BY SlotCountAssumption, FS_Interval DEF Slots
<1>2. IsFiniteSet(S) /\ Cardinality(S) <= Cardinality(Slots)
  BY <1>1, FS_Subset
<1>3. Cardinality(S) \in Nat
  BY <1>2, FS_CardinalityType
<1>4. ASSUME NEW x \in S PROVE Cardinality(S \ {x}) = Cardinality(S) - 1
  BY <1>2, FS_RemoveElement
<1>5. ASSUME NEW x \in Slots \ S PROVE Cardinality(S \cup {x}) = Cardinality(S) + 1
  BY <1>2, FS_AddElement
<1>6. Cardinality(S) = 0 <=> S = {}
  BY <1>2, FS_EmptySet
<1> QED BY <1>1, <1>2, <1>3, <1>4, <1>5, <1>6

\* Answers that are not claimed by their writer fill the ring together with a
\* frame that is owed: more load than there are slots.
LEMMA FullRing ==
  ASSUME RoomInv, crashes = 0, dpc = "publish", \A i \in Slots : resultState[i] # "EMPTY"
  PROVE  cpc \in {"wait_result", "read_result"}
<1>1. Answered = Slots
  BY DEF RoomInv, NoClaimLeft, Claimed, Answered, ResultInv, TypeOK, ResultTypeOK, SlotStates
<1>2. dslot \in Owed
  BY DEF RoomInv, FrameInv, FrameUnderInspection, HoldsFrame, Owed, TypeOK, DetectorTypeOK
<1>3. Owed \in SUBSET Slots /\ Answered \in SUBSET Slots
  BY DEF Owed, Answered
<1>4. Cardinality(Answered) = SlotCount
  BY <1>1, <1>3, SlotsCounted
<1>5. Cardinality(Owed) \in Nat /\ Cardinality(Owed) # 0
  BY <1>2, <1>3, SlotsCounted
<1>6. Load = SlotCount + 1
  BY <1>4, <1>5, SlotCountAssumption DEF Load, RoomInv, LoadInv
<1> QED BY <1>6 DEF RoomInv, LoadInv

-----------------------------------------------------------------------------
(***************************************************************************)
(* What a step does to the load.                                           *)
(***************************************************************************)

\* The sets stay, and where the controller is allows for the load.
LEMMA LoadStays ==
  ASSUME LoadInv, Owed' = Owed, Answered' = Answered,
         \/ cpc \notin {"wait_result", "read_result"}
         \/ cpc' = "read_result"
         \/ cpc = "wait_result" /\ (Ahead => cpc' = "wait_result" /\ Ahead')
  PROVE  LoadInv'
<1>1. Load' = Load
  BY DEF Load
<1> QED BY <1>1 DEF LoadInv

\* An answer is fetched or thrown away.
LEMMA LoadFalls ==
  ASSUME LoadInv, Owed' = Owed, NEW x \in Answered, Answered' = Answered \ {x}
  PROVE  LoadInv'
<1>1. Owed \in SUBSET Slots /\ Answered \in SUBSET Slots
  BY DEF Owed, Answered
<1>2. Cardinality(Answered') = Cardinality(Answered) - 1
  BY <1>1, SlotsCounted
<1>3. Cardinality(Owed) \in Nat /\ Cardinality(Answered) \in Nat
  BY <1>1, SlotsCounted
<1>4. Load' = Load - 1 /\ Load \in Nat
  BY <1>2, <1>3 DEF Load
<1> QED BY <1>4, SlotCountAssumption DEF LoadInv

\* A frame is given up without an answer.
LEMMA OwedFalls ==
  ASSUME LoadInv, NEW x \in Owed, Owed' = Owed \ {x}, Answered' = Answered
  PROVE  LoadInv'
<1>1. Owed \in SUBSET Slots /\ Answered \in SUBSET Slots
  BY DEF Owed, Answered
<1>2. Cardinality(Owed') = Cardinality(Owed) - 1
  BY <1>1, SlotsCounted
<1>3. Cardinality(Owed) \in Nat /\ Cardinality(Answered) \in Nat
  BY <1>1, SlotsCounted
<1>4. Load' = Load - 1 /\ Load \in Nat
  BY <1>2, <1>3 DEF Load
<1> QED BY <1>4, SlotCountAssumption DEF LoadInv

\* An answer takes the place of its frame.
LEMMA AnswerTakesPlace ==
  ASSUME LoadInv, NEW x \in Owed, Owed' = Owed \ {x},
         NEW y \in Slots \ Answered, Answered' = Answered \cup {y},
         UNCHANGED <<cpc, probe>>
  PROVE  LoadInv'
<1>1. Owed \in SUBSET Slots /\ Answered \in SUBSET Slots
  BY DEF Owed, Answered
<1>2. /\ Cardinality(Owed') = Cardinality(Owed) - 1
      /\ Cardinality(Answered') = Cardinality(Answered) + 1
  BY <1>1, SlotsCounted
<1>3. Cardinality(Owed) \in Nat /\ Cardinality(Answered) \in Nat
  BY <1>1, SlotsCounted
<1>4. Load' = Load
  BY <1>2, <1>3 DEF Load
<1>5. Ahead => Ahead'
  BY DEF Ahead
<1> QED BY <1>4, <1>5 DEF LoadInv

\* A frame is published; if the load exceeds the ring now, an answer is ahead of
\* the sweep that begins.
LEMMA LoadGrows ==
  ASSUME LoadInv, cpc = "write_frame", NEW x \in Slots \ Owed, Owed' = Owed \cup {x},
         Answered' = Answered, cpc' = "wait_result", probe' = 0
  PROVE  LoadInv'
<1>1. /\ Owed \in SUBSET Slots /\ Answered \in SUBSET Slots /\ Owed' \in SUBSET Slots
      /\ Slots \subseteq Nat
  BY DEF Owed, Answered, Slots
<1>2. /\ Cardinality(Owed') = Cardinality(Owed) + 1 /\ Cardinality(Owed') <= SlotCount
      /\ Cardinality(Owed) \in Nat /\ Cardinality(Answered) \in Nat
      /\ Cardinality(Answered) = 0 <=> Answered = {}
  BY <1>1, SlotsCounted
<1>3. Load' = Load + 1 /\ Load \in Nat /\ Load <= SlotCount
  BY <1>2, SlotCountAssumption DEF Load, LoadInv
<1>4. ASSUME Load' = SlotCount + 1 PROVE Ahead'
  <2>1. Cardinality(Answered) # 0
    BY <1>2, <1>4, SlotCountAssumption DEF Load
  <2>2. PICK i \in Answered : TRUE
    BY <1>2, <2>1
  <2>3. i >= 0
    BY <1>1, <2>2
  <2> QED BY <2>2, <2>3 DEF Ahead
<1> QED BY <1>3, <1>4, SlotCountAssumption DEF LoadInv

-----------------------------------------------------------------------------
(***************************************************************************)
(* The steps of the controller.                                            *)
(***************************************************************************)

LEMMA ControllerStepSequenced ==
  ASSUME RoomInv, ControllerStep \/ \E tag \in Tags : Trigger(tag)
  PROVE  Sequenced'
<1>1. /\ \A i \in Slots : frameJob[i].seq \in Nat /\ resultBody[i].seq \in Nat
      /\ djob.seq \in Nat /\ dresult.seq \in Nat /\ job.seq \in Nat /\ nextSeq \in Nat \ {0}
      /\ cslot \in Slots /\ probe \in Nat
  BY SlotCountAssumption
     DEF RoomInv, FrameInv, TypeOK, FrameTypeOK, ResultTypeOK, DetectorTypeOK,
         ControllerTypeOK, Job, Result
<1>2. UNCHANGED <<djob, dresult>>
  BY DEF ControllerStep, AcquisitionFails, AcquisitionSucceeds, PublishStep,
     ProbeNextFrame, ClaimFrameSlot, RetryPublish, PublishTimesOut, PublishFrame,
     WaitStep, TakeReadyResult, ReclaimStaleResult, ReclaimSpoiledResult,
     PassResultSlot, RetryWait, WaitTimesOut, ReadResult, RejectResult, ReplyStep,
     AnswerWithResult, AnswerInvalidResult, Reply, Trigger, detectorVars
<1>3. \/ nextSeq' = nextSeq /\ (cpc' = "idle" \/ (cpc # "idle" /\ job' = job))
      \/ nextSeq' = nextSeq + 1 /\ job'.seq = nextSeq
  BY DEF ControllerStep, AcquisitionFails, AcquisitionSucceeds, PublishStep,
     ProbeNextFrame, ClaimFrameSlot, RetryPublish, PublishTimesOut, PublishFrame,
     WaitStep, TakeReadyResult, ReclaimStaleResult, ReclaimSpoiledResult,
     PassResultSlot, RetryWait, WaitTimesOut, ReadResult, RejectResult, ReplyStep,
     AnswerWithResult, AnswerInvalidResult, Reply, Trigger
<1>4. resultBody' = resultBody
  BY DEF ControllerStep, AcquisitionFails, AcquisitionSucceeds, PublishStep,
     ProbeNextFrame, ClaimFrameSlot, RetryPublish, PublishTimesOut, PublishFrame,
     WaitStep, TakeReadyResult, ReclaimStaleResult, ReclaimSpoiledResult,
     PassResultSlot, RetryWait, WaitTimesOut, ReadResult, RejectResult, ReplyStep,
     AnswerWithResult, AnswerInvalidResult, Trigger, TakeResult, FreeResult,
     SetResultState, ringVars, resultVars
<1>5. \A i \in Slots : frameJob'[i].seq < nextSeq
  <2>1. CASE ClaimFrameSlot
    <3>1. frameJob' = [frameJob EXCEPT ![ProbedSlot(probe)] = ZeroJob]
      BY <2>1 DEF ClaimFrameSlot, ClaimFrame
    <3>2. ZeroJob.seq = 0
      BY DEF ZeroJob
    <3> QED BY <1>1, <3>1, <3>2
            DEF RoomInv, Sequenced, FrameInv, TypeOK, FrameTypeOK
  <2>2. CASE PublishFrame
    <3>1. PICK q \in FrameFaults :
             frameJob' = [frameJob EXCEPT ![cslot] = [job EXCEPT !.integrity = q]]
      BY <2>2 DEF PublishFrame, CommitFrame
    <3>2. [job EXCEPT !.integrity = q].seq = job.seq /\ job.seq < nextSeq
      BY <1>1, <2>2
         DEF PublishFrame, RoomInv, Sequenced, FrameInv, TypeOK, ControllerTypeOK, Job
    <3> QED BY <1>1, <3>1, <3>2
            DEF RoomInv, Sequenced, FrameInv, TypeOK, FrameTypeOK
  <2>3. CASE ~ClaimFrameSlot /\ ~PublishFrame
    <3>1. frameJob' = frameJob
      BY <2>3 DEF ControllerStep, AcquisitionFails, AcquisitionSucceeds,
         PublishStep, ProbeNextFrame, RetryPublish, PublishTimesOut, WaitStep,
         TakeReadyResult, ReclaimStaleResult, ReclaimSpoiledResult,
         PassResultSlot, RetryWait, WaitTimesOut, ReadResult, RejectResult,
         ReplyStep, AnswerWithResult, AnswerInvalidResult, Trigger, ringVars,
         frameVars
    <3> QED BY <3>1 DEF RoomInv, Sequenced
  <2> QED BY <2>1, <2>2, <2>3
<1>6. \A i \in Slots : frameJob'[i].seq \in Nat
  BY StepTypes DEF RoomInv, FrameInv, TypeOK, FrameTypeOK, Job, Next
<1> QED BY <1>1, <1>2, <1>3, <1>4, <1>5, <1>6 DEF RoomInv, Sequenced

\* The sweep passes no slot that holds an answer.
LEMMA NothingPassed ==
  ASSUME RoomInv, crashes = 0, PassResultSlot
  PROVE  probe \in Slots /\ probe \notin Answered
<1>1. probe \in Slots
  BY SlotCountAssumption
     DEF PassResultSlot, RoomInv, FrameInv, TypeOK, ControllerTypeOK, Slots
<1>2. resultBody[probe].seq \in Nat /\ job.seq \in Nat /\ nextSeq \in Nat
  BY <1>1 DEF RoomInv, FrameInv, TypeOK, ResultTypeOK, ControllerTypeOK, Job, Result
<1>3. resultBody[probe].seq < nextSeq /\ job.seq + 1 = nextSeq /\ cpc = "wait_result"
  BY <1>1 DEF PassResultSlot, RoomInv, Sequenced
<1>4. resultBody[probe].seq < job.seq \/ resultBody[probe].seq = job.seq
  BY <1>2, <1>3
<1>5. resultState[probe] \notin {"READY", "CORRUPTED"}
  BY <1>4 DEF PassResultSlot, Untouched, Stale, Spoiled
<1>6. resultState[probe] # "READING"
  BY <1>1, <1>3 DEF RoomInv, NoClaimLeft, Claimed
<1> QED BY <1>1, <1>5, <1>6 DEF Answered

LEMMA ControllerStepLoad ==
  ASSUME RoomInv, crashes = 0, ControllerStep \/ \E tag \in Tags : Trigger(tag)
  PROVE  NoClaimLeft' /\ LoadInv'
<1>1. /\ NoClaimLeft /\ LoadInv /\ cslot \in Slots /\ probe \in 0 .. SlotCount
      /\ frameState \in [Slots -> SlotStates] /\ resultState \in [Slots -> SlotStates]
      /\ cpc = "read_result" => resultState[cslot] = "READING"
      /\ cpc = "write_frame" => frameState[cslot] = "WRITING"
  BY DEF RoomInv, FrameInv, WriterHoldsClaim, ResultInv, ResultClaims, TypeOK, FrameTypeOK,
         ResultTypeOK, ControllerTypeOK
<1>2. UNCHANGED <<dpc, dslot, rslot>>
  BY DEF ControllerStep, AcquisitionFails, AcquisitionSucceeds, PublishStep,
     ProbeNextFrame, ClaimFrameSlot, RetryPublish, PublishTimesOut, PublishFrame,
     WaitStep, TakeReadyResult, ReclaimStaleResult, ReclaimSpoiledResult,
     PassResultSlot, RetryWait, WaitTimesOut, ReadResult, RejectResult, ReplyStep,
     AnswerWithResult, AnswerInvalidResult, Reply, Trigger, detectorVars
<1>3. CASE TakeReadyResult
  <2>1. /\ probe \in Slots /\ resultState[probe] = "READY" /\ cpc = "wait_result"
        /\ resultState' = [resultState EXCEPT ![probe] = "READING"]
        /\ cslot' = probe /\ cpc' = "read_result" /\ UNCHANGED frameState
    BY <1>1, <1>3, SlotCountAssumption
       DEF TakeReadyResult, TakeResult, SetResultState, frameVars, Slots
  <2>2. Owed' = Owed /\ Answered' = Answered
    BY <1>1, <1>2, <2>1 DEF Owed, Answered
  <2>3. NoClaimLeft'
    BY <1>1, <1>2, <2>1 DEF NoClaimLeft, Claimed
  <2> QED BY <1>1, <2>1, <2>2, <2>3, LoadStays
<1>4. CASE ReclaimStaleResult \/ ReclaimSpoiledResult \/ ReadResult \/ RejectResult
  <2>1. PICK x \in Slots :
          /\ resultState[x] \in {"READY", "CORRUPTED", "READING"}
          /\ resultState' = [resultState EXCEPT ![x] = "EMPTY"]
          /\ UNCHANGED frameState
          /\ cpc = "read_result" => x = cslot
    <3>1. CASE ReclaimStaleResult \/ ReclaimSpoiledResult
      <4>1. probe \in Slots
        BY <1>1, <3>1, SlotCountAssumption
           DEF ReclaimStaleResult, ReclaimSpoiledResult, Slots
      <4> QED BY <3>1, <4>1 DEF ReclaimStaleResult, ReclaimSpoiledResult, Stale, Spoiled,
              FreeResult, SetResultState, frameVars
    <3>2. CASE ReadResult \/ RejectResult
      BY <1>1, <3>2 DEF ReadResult, RejectResult, FreeResult, SetResultState, frameVars
    <3> QED BY <1>4, <3>1, <3>2
  <2>2. Owed' = Owed /\ x \in Answered /\ Answered' = Answered \ {x}
    BY <1>1, <1>2, <2>1 DEF Owed, Answered
  <2>3. NoClaimLeft'
    <3>1. cpc' # "read_result"
      BY <1>4 DEF ReclaimStaleResult, ReclaimSpoiledResult, ReadResult, RejectResult, Reply
    <3> QED BY <1>1, <1>2, <2>1, <3>1 DEF NoClaimLeft, Claimed
  <2> QED BY <1>1, <2>2, <2>3, LoadFalls
<1>5. CASE PublishFrame
  <2>1. /\ frameState' = [frameState EXCEPT ![cslot] = "READY"] /\ cpc = "write_frame"
        /\ cpc' = "wait_result" /\ probe' = 0 /\ UNCHANGED resultState
    BY <1>5 DEF PublishFrame, CommitFrame, resultVars
  <2>2. dpc = "release" => frameState[dslot] = "READING"
    BY DEF RoomInv, FrameInv, FrameUnderInspection, HoldsFrame
  <2>3. cslot \notin Owed /\ Owed' = Owed \cup {cslot} /\ Answered' = Answered
    BY <1>1, <1>2, <2>1, <2>2 DEF Owed, Answered
  <2>4. NoClaimLeft'
    BY <1>1, <1>2, <2>1 DEF NoClaimLeft, Claimed
  <2> QED BY <1>1, <2>1, <2>3, <2>4, LoadGrows
<1>6. CASE ClaimFrameSlot
  <2>1. /\ frameState[ProbedSlot(probe)] = "EMPTY" /\ cpc = "publish" /\ cpc' = "write_frame"
        /\ frameState' = [frameState EXCEPT ![ProbedSlot(probe)] = "WRITING"]
        /\ UNCHANGED resultState
    BY <1>6 DEF ClaimFrameSlot, ClaimFrame, resultVars
  <2>2. Owed' = Owed /\ Answered' = Answered
    BY <1>1, <1>2, <2>1 DEF Owed, Answered
  <2>3. NoClaimLeft'
    BY <1>1, <1>2, <2>1 DEF NoClaimLeft, Claimed
  <2> QED BY <1>1, <2>1, <2>2, <2>3, LoadStays
<1>7. CASE PassResultSlot
  <2>1. /\ cpc = "wait_result" /\ cpc' = cpc /\ probe' = probe + 1
        /\ UNCHANGED <<frameState, resultState>>
    BY <1>7 DEF PassResultSlot, ringVars, frameVars, resultVars
  <2>2. Owed' = Owed /\ Answered' = Answered
    BY <1>2, <2>1 DEF Owed, Answered
  <2>3. NoClaimLeft'
    BY <1>1, <1>2, <2>1 DEF NoClaimLeft, Claimed
  <2>4. Ahead => Ahead'
    <3>1. ASSUME NEW i \in Answered, i >= probe PROVE i >= probe + 1
      <4>1. i # probe
        BY <1>7, NothingPassed
      <4>2. i \in Nat /\ probe \in Nat
        BY <1>1, SlotCountAssumption DEF Answered, Slots
      <4> QED BY <3>1, <4>1, <4>2
    <3> QED BY <2>1, <2>2, <3>1 DEF Ahead
  <2> QED BY <1>1, <2>1, <2>2, <2>3, <2>4, LoadStays
<1>8. CASE RetryWait \/ WaitTimesOut
  <2>1. cpc = "wait_result" /\ probe = SlotCount /\ UNCHANGED <<frameState, resultState>>
        /\ cpc' # "read_result"
    BY <1>8 DEF RetryWait, WaitTimesOut, Reply, ringVars, frameVars, resultVars
  <2>2. Owed' = Owed /\ Answered' = Answered
    BY <1>2, <2>1 DEF Owed, Answered
  <2>3. NoClaimLeft'
    BY <1>1, <1>2, <2>1 DEF NoClaimLeft, Claimed
  <2>4. ~Ahead
    BY <2>1, SlotCountAssumption DEF Ahead, Answered, Slots
  <2> QED BY <1>1, <2>1, <2>2, <2>3, <2>4, LoadStays
<1>9. CASE \/ AcquisitionFails \/ AcquisitionSucceeds \/ ReplyStep
           \/ ProbeNextFrame \/ RetryPublish \/ PublishTimesOut
           \/ \E tag \in Tags : Trigger(tag)
  <2>1. /\ cpc \notin {"wait_result", "read_result"} /\ cpc' # "read_result"
        /\ UNCHANGED <<frameState, resultState>>
    BY <1>9 DEF AcquisitionFails, AcquisitionSucceeds, ReplyStep, AnswerWithResult,
       AnswerInvalidResult, ProbeNextFrame, RetryPublish, PublishTimesOut, Trigger, Reply,
       ringVars, frameVars, resultVars
  <2>2. Owed' = Owed /\ Answered' = Answered
    BY <1>2, <2>1 DEF Owed, Answered
  <2>3. NoClaimLeft'
    BY <1>1, <1>2, <2>1 DEF NoClaimLeft, Claimed
  <2> QED BY <1>1, <2>1, <2>2, <2>3, LoadStays
<1> QED BY <1>3, <1>4, <1>5, <1>6, <1>7, <1>8, <1>9
        DEF ControllerStep, PublishStep, WaitStep

-----------------------------------------------------------------------------
(***************************************************************************)
(* The steps of the detector.                                              *)
(***************************************************************************)

LEMMA DetectorStepSequenced ==
  ASSUME RoomInv, DetectorStep
  PROVE  Sequenced'
<1>1. /\ frameJob \in [Slots -> Job] /\ resultBody \in [Slots -> Result]
      /\ djob \in Job /\ dresult \in Result /\ dslot \in Slots /\ nextSeq \in Nat \ {0}
      /\ \A i \in Slots : frameJob[i].seq < nextSeq /\ resultBody[i].seq < nextSeq
      /\ djob.seq < nextSeq /\ dresult.seq < nextSeq
      /\ cpc # "idle" => job.seq + 1 = nextSeq
  BY DEF RoomInv, Sequenced, FrameInv, TypeOK, FrameTypeOK, ResultTypeOK, DetectorTypeOK,
         ControllerTypeOK
<1>2. UNCHANGED <<cpc, job, nextSeq, frameJob>>
  BY DEF DetectorStep, ReadStep, SkipFrame, TakeReadyFrame, DropUnreadableFrame,
     RefuseFrame, ParseFrame, JudgeFrame, SendStep, ProbeNextResult, ClaimResultSlot,
     RetryResultSlots, ResultTimesOut, WriteResult, WriteResultFails, ReleaseFrameSlot,
     TakeFrame, ReleaseFrame, controllerVars, ringVars, frameVars
<1>3. djob'.seq < nextSeq
  <2>1. djob' \in {djob, ZeroJob, frameJob[dslot]}
    BY DEF DetectorStep, ReadStep, SkipFrame, TakeReadyFrame, DropUnreadableFrame,
       RefuseFrame, ParseFrame, JudgeFrame, SendStep, ProbeNextResult, ClaimResultSlot,
       RetryResultSlots, ResultTimesOut, WriteResult, WriteResultFails, ReleaseFrameSlot,
       BackToWaiting, DetectorGone
  <2>2. ZeroJob.seq = 0
    BY DEF ZeroJob
  <2> QED BY <1>1, <2>1, <2>2
<1>4. dresult'.seq < nextSeq
  <2>1. dresult' \in {dresult, ZeroResult} \/ dresult'.seq \in {frameJob[dslot].seq, djob.seq}
    <3>1. CASE RefuseFrame
      BY <3>1 DEF RefuseFrame
    <3>2. CASE JudgeFrame
      BY <3>2 DEF JudgeFrame
    <3>3. CASE ~RefuseFrame /\ ~JudgeFrame
      BY <3>3 DEF DetectorStep, ReadStep, SkipFrame, TakeReadyFrame, DropUnreadableFrame,
         ParseFrame, SendStep, ProbeNextResult, ClaimResultSlot,
         RetryResultSlots, ResultTimesOut, WriteResult, WriteResultFails, ReleaseFrameSlot,
         BackToWaiting, DetectorGone
    <3> QED BY <3>1, <3>2, <3>3
  <2>2. ZeroResult.seq = 0
    BY DEF ZeroResult
  <2> QED BY <1>1, <2>1, <2>2
<1>5. \A i \in Slots : resultBody'[i].seq < nextSeq
  <2>1. CASE WriteResult
    <3>1. PICK r : /\ r.seq = dresult.seq
                   /\ resultBody' = [resultBody EXCEPT ![rslot] = r]
      <4>1. CASE CommitResult(rslot, dresult)
        BY <4>1 DEF CommitResult
      <4>2. ASSUME NEW v \in PipelineVerdicts,
                   CommitResult(rslot, [dresult EXCEPT !.verdict = v, !.intact = FALSE])
            PROVE  \E r : /\ r.seq = dresult.seq
                          /\ resultBody' = [resultBody EXCEPT ![rslot] = r]
        <5> DEFINE r == [dresult EXCEPT !.verdict = v, !.intact = FALSE]
        <5>1. r.seq = dresult.seq
          BY <1>1 DEF Result
        <5>2. resultBody' = [resultBody EXCEPT ![rslot] = r]
          BY <4>2 DEF CommitResult
        <5> QED BY <5>1, <5>2
      <4> QED BY <2>1, <4>1, <4>2 DEF WriteResult
    <3> QED BY <1>1, <3>1
  <2>2. CASE ~WriteResult
    <3>1. resultBody' = resultBody
      BY <2>2 DEF DetectorStep, ReadStep, SkipFrame, TakeReadyFrame, DropUnreadableFrame,
         RefuseFrame, ParseFrame, JudgeFrame, SendStep, ProbeNextResult, ClaimResultSlot,
         RetryResultSlots, ResultTimesOut, WriteResultFails, ReleaseFrameSlot,
         ClaimResult, MarkCorrupted, SetResultState, ringVars, resultVars
    <3> QED BY <1>1, <3>1
  <2> QED BY <2>1, <2>2
<1> QED BY <1>1, <1>2, <1>3, <1>4, <1>5 DEF Sequenced

LEMMA DetectorStepLoad ==
  ASSUME RoomInv, crashes = 0, DetectorStep
  PROVE  NoClaimLeft' /\ LoadInv'
<1>1. /\ NoClaimLeft /\ LoadInv /\ dslot \in Slots /\ dscan \in Slots /\ rslot \in 0 .. SlotCount
      /\ frameState \in [Slots -> SlotStates] /\ resultState \in [Slots -> SlotStates]
      /\ HoldsFrame => frameState[dslot] = "READING"
      /\ dpc = "write_result" => rslot \in Slots /\ resultState[rslot] = "WRITING"
  BY DEF RoomInv, FrameInv, FrameUnderInspection, ResultInv, ResultClaims, TypeOK, FrameTypeOK,
         ResultTypeOK, DetectorTypeOK
<1>2. UNCHANGED <<cpc, cslot, probe>>
  BY DEF DetectorStep, ReadStep, SkipFrame, TakeReadyFrame, DropUnreadableFrame,
     RefuseFrame, ParseFrame, JudgeFrame, SendStep, ProbeNextResult, ClaimResultSlot,
     RetryResultSlots, ResultTimesOut, WriteResult, WriteResultFails, ReleaseFrameSlot,
     controllerVars
<1>3. ASSUME Owed' = Owed, Answered' = Answered PROVE LoadInv'
  <2>1. Load' = Load /\ (Ahead <=> Ahead')
    BY <1>2, <1>3 DEF Load, Ahead
  <2> QED BY <1>1, <1>2, <2>1 DEF LoadInv
<1>4. CASE TakeReadyFrame
  <2>1. /\ dpc = "wait_job" /\ dpc' = "parse" /\ frameState[dscan] = "READY"
        /\ frameState' = [frameState EXCEPT ![dscan] = "READING"]
        /\ UNCHANGED resultState
    BY <1>4 DEF TakeReadyFrame, TakeFrame, resultVars
  <2>2. Owed' = Owed /\ Answered' = Answered
    BY <1>1, <2>1 DEF Owed, Answered
  <2>3. NoClaimLeft'
    BY <1>1, <1>2, <2>1 DEF NoClaimLeft, Claimed
  <2> QED BY <1>3, <2>2, <2>3
<1>5. CASE DropUnreadableFrame \/ ResultTimesOut
  <2>1. /\ dpc \in {"parse", "publish"} /\ dpc' \in {"wait_job", "down"}
        /\ frameState' = [frameState EXCEPT ![dslot] = "EMPTY"]
        /\ UNCHANGED resultState
    BY <1>5 DEF DropUnreadableFrame, ResultTimesOut, BackToWaiting, DetectorGone, ReleaseFrame,
       resultVars
  <2>2. dslot \in Owed /\ Owed' = Owed \ {dslot} /\ Answered' = Answered
    BY <1>1, <2>1 DEF Owed, Answered, HoldsFrame
  <2>3. NoClaimLeft'
    BY <1>1, <1>2, <2>1 DEF NoClaimLeft, Claimed
  <2> QED BY <1>1, <2>2, <2>3, OwedFalls
<1>6. CASE WriteResult \/ WriteResultFails
  <2>1. PICK s \in {"READY", "CORRUPTED"} :
          resultState' = [resultState EXCEPT ![rslot] = s]
    BY <1>6 DEF WriteResult, WriteResultFails, CommitResult, MarkCorrupted, SetResultState
  <2>2. dpc = "write_result"
    BY <1>6 DEF WriteResult, WriteResultFails
  <2>3. \/ dpc' = "release" /\ dslot' = dslot /\ UNCHANGED frameState
        \/ dpc' = "down" /\ frameState' = [frameState EXCEPT ![dslot] = "EMPTY"]
    BY <1>6 DEF WriteResult, WriteResultFails, DetectorGone, ReleaseFrame, frameVars
  <2>4. dslot \in Owed /\ Owed' = Owed \ {dslot}
    BY <1>1, <2>2, <2>3 DEF Owed, HoldsFrame
  <2>5. rslot \in Slots \ Answered /\ Answered' = Answered \cup {rslot}
    BY <1>1, <2>1, <2>2 DEF Answered
  <2>6. NoClaimLeft'
    BY <1>1, <1>2, <2>1, <2>2 DEF NoClaimLeft, Claimed
  <2> QED BY <1>1, <1>2, <2>4, <2>5, <2>6, AnswerTakesPlace
<1>7. CASE ClaimResultSlot
  <2>1. /\ dpc = "publish" /\ dpc' = "write_result" /\ rslot \in Slots
        /\ resultState[rslot] = "EMPTY" /\ rslot' = rslot /\ dslot' = dslot
        /\ resultState' = [resultState EXCEPT ![rslot] = "WRITING"]
        /\ UNCHANGED frameState
    BY <1>1, <1>7, SlotCountAssumption
       DEF ClaimResultSlot, ClaimResult, SetResultState, frameVars, Slots
  <2>2. Owed' = Owed /\ Answered' = Answered
    BY <1>1, <2>1 DEF Owed, Answered
  <2>3. NoClaimLeft'
    BY <1>1, <1>2, <2>1 DEF NoClaimLeft, Claimed
  <2> QED BY <1>3, <2>2, <2>3
<1>8. CASE ReleaseFrameSlot
  <2>1. /\ dpc = "release" /\ dpc' = "wait_job"
        /\ frameState' = [frameState EXCEPT ![dslot] = "EMPTY"]
        /\ UNCHANGED resultState
    BY <1>8 DEF ReleaseFrameSlot, BackToWaiting, ReleaseFrame, resultVars
  <2>2. Owed' = Owed /\ Answered' = Answered
    BY <1>1, <2>1 DEF Owed, Answered
  <2>3. NoClaimLeft'
    BY <1>1, <1>2, <2>1 DEF NoClaimLeft, Claimed
  <2> QED BY <1>3, <2>2, <2>3
<1>9. CASE SkipFrame \/ RefuseFrame \/ ParseFrame \/ JudgeFrame \/ ProbeNextResult
           \/ RetryResultSlots
  <2>1. /\ dpc \notin {"release", "write_result"} /\ dpc' # "release"
        /\ UNCHANGED <<frameState, resultState>>
    BY <1>9 DEF SkipFrame, RefuseFrame, ParseFrame, JudgeFrame, ProbeNextResult,
       RetryResultSlots, ringVars, frameVars, resultVars
  <2>2. Owed' = Owed /\ Answered' = Answered
    BY <2>1 DEF Owed, Answered
  <2>3. NoClaimLeft'
    BY <1>1, <1>2, <2>1 DEF NoClaimLeft, Claimed
  <2> QED BY <1>3, <2>2, <2>3
<1> QED BY <1>4, <1>5, <1>6, <1>7, <1>8, <1>9 DEF DetectorStep, ReadStep, SendStep

-----------------------------------------------------------------------------
(***************************************************************************)
(* The theorem.                                                            *)
(***************************************************************************)

LEMMA StepRoom ==
  ASSUME MaxRestarts = 0, RoomInv, [Next]_vars
  PROVE  RoomInv'
<1>1. FrameInv' /\ ResultInv' /\ crashes \in Nat
  BY StepFrame, StepResult DEF RoomInv, FrameInv, TypeOK, HistoryTypeOK
<1>2. CASE ControllerStep \/ \E tag \in Tags : Trigger(tag)
  <2>1. UNCHANGED <<dpc, crashes, restarts>> /\ cpc' # "down"
    BY <1>2 DEF ControllerStep, AcquisitionFails, AcquisitionSucceeds, PublishStep,
       ProbeNextFrame, ClaimFrameSlot, RetryPublish, PublishTimesOut, PublishFrame,
       WaitStep, TakeReadyResult, ReclaimStaleResult, ReclaimSpoiledResult,
       PassResultSlot, RetryWait, WaitTimesOut, ReadResult, RejectResult, ReplyStep,
       AnswerWithResult, AnswerInvalidResult, Reply, Trigger, detectorVars, historyVars,
       RoomInv, Alive
  <2> QED BY <1>1, <1>2, <2>1, ControllerStepSequenced, ControllerStepLoad DEF RoomInv, Alive
<1>3. CASE DetectorStep
  <2>1. UNCHANGED <<cpc, crashes, restarts>> /\ dpc' # "detached"
    BY <1>3 DEF DetectorStep, ReadStep, SkipFrame, TakeReadyFrame, DropUnreadableFrame,
       RefuseFrame, ParseFrame, JudgeFrame, SendStep, ProbeNextResult, ClaimResultSlot,
       RetryResultSlots, ResultTimesOut, WriteResult, WriteResultFails, ReleaseFrameSlot,
       BackToWaiting, DetectorGone, controllerVars, historyVars, RoomInv, Alive
  <2> QED BY <1>1, <1>3, <2>1, DetectorStepSequenced, DetectorStepLoad DEF RoomInv, Alive
<1>4. CASE DetectorCrash
  <2>1. /\ crashes' = crashes + 1 /\ dpc' = "down" /\ djob' = ZeroJob /\ dresult' = ZeroResult
        /\ UNCHANGED <<cpc, job, nextSeq, restarts, frameJob, resultBody>>
    BY <1>4 DEF DetectorCrash, DetectorGone, controllerVars, ringVars, frameVars, resultVars
  <2>2. ZeroJob.seq = 0 /\ ZeroResult.seq = 0 /\ nextSeq \in Nat \ {0}
    BY DEF ZeroJob, ZeroResult, RoomInv, FrameInv, TypeOK, ControllerTypeOK
  <2>3. Sequenced'
    BY <2>1, <2>2 DEF RoomInv, Sequenced
  <2>4. crashes' # 0
    BY <1>1, <2>1
  <2> QED BY <1>1, <2>1, <2>3, <2>4 DEF RoomInv, Alive
<1>5. CASE DetectorStart \/ UNCHANGED vars
  <2>1. /\ UNCHANGED <<controllerVars, ringVars, historyVars>>
        /\ UNCHANGED <<djob, dresult, dslot, rslot>>
        /\ dpc' = dpc \/ (dpc = "down" /\ dpc' = "wait_job")
    BY <1>5 DEF DetectorStart, vars, detectorVars
  <2>2. /\ UNCHANGED <<cpc, job, nextSeq, probe, cslot, frameState, frameJob, resultState>>
        /\ UNCHANGED <<resultBody, crashes, restarts>>
    BY <2>1 DEF controllerVars, ringVars, frameVars, resultVars, historyVars
  <2>3. Sequenced'
    BY <2>1, <2>2 DEF RoomInv, Sequenced
  <2>4. Owed' = Owed /\ Answered' = Answered
    BY <2>1, <2>2 DEF Owed, Answered
  <2>5. Load' = Load /\ (Ahead' <=> Ahead)
    BY <2>2, <2>4 DEF Load, Ahead
  <2>6. ASSUME crashes' = 0 PROVE NoClaimLeft' /\ LoadInv'
    <3>1. NoClaimLeft /\ LoadInv
      BY <2>2, <2>6 DEF RoomInv
    <3>2. NoClaimLeft'
      BY <2>1, <2>2, <3>1 DEF NoClaimLeft, Claimed
    <3> QED BY <2>2, <2>5, <3>1, <3>2 DEF LoadInv
  <2>7. Alive'
    BY <2>1, <2>2 DEF RoomInv, Alive
  <2> QED BY <1>1, <2>3, <2>6, <2>7 DEF RoomInv
<1>6. CASE ControllerCrash \/ ControllerStart \/ StopDetached
  BY <1>6 DEF ControllerCrash, ControllerStart, StopDetached, RoomInv, Alive
<1> QED BY <1>2, <1>3, <1>4, <1>5, <1>6 DEF Next, ProcessStep

LEMMA InitRoom == Init => RoomInv
<1> SUFFICES ASSUME Init PROVE RoomInv
  OBVIOUS
<1>1. FrameInv /\ ResultInv
  BY InitTypes DEF Init, FrameInv, FrameUnderInspection, HoldsFrame, WriterHoldsClaim,
     ResultInv, ResultClaims
<1>2. Owed = {} /\ Answered = {}
  BY DEF Init, FrameInit, ResultInit, Owed, Answered
<1>3. Load = 0
  BY <1>2, FS_EmptySet DEF Load
<1>4. LoadInv
  BY <1>3, SlotCountAssumption DEF LoadInv
<1>5. NoClaimLeft
  BY DEF Init, ResultInit, NoClaimLeft, Claimed
<1>6. Sequenced
  BY DEF Init, FrameInit, ResultInit, Sequenced, ZeroJob, ZeroResult
<1> QED BY <1>1, <1>4, <1>5, <1>6 DEF Init, RoomInv, Alive

\* As long as neither program has crashed, a detector that wants to publish a
\* result finds the ring full only while the controller sweeps it, whatever
\* jobs have timed out: publish_result does not end run_forever
\* (shm_client.py publish_result, result_ring_buffer.cpp wait_for_result).
THEOREM ResultRingHasRoom ==
  ASSUME MaxRestarts = 0 PROVE Spec => []ResultRoom
<1>1. Init => RoomInv
  BY InitRoom
<1>2. RoomInv /\ [Next]_vars => RoomInv'
  BY StepRoom
<1>3. RoomInv => ResultRoom
  BY FullRing DEF ResultRoom
<1> QED BY <1>1, <1>2, <1>3, PTL DEF Spec
=============================================================================
