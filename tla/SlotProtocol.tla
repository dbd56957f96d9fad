---------------------------- MODULE SlotProtocol ----------------------------
(***************************************************************************)
(* The vocabulary the two shared-memory rings have in common: slot states, *)
(* decisions and error codes (cpp_controller/include/ipc/shm_protocol.hpp, *)
(* python_detector/ipc/shm_protocol.py), the identity a job and a result   *)
(* carry, and the acceptance rules the controller applies to a result.     *)
(*                                                                         *)
(* Images and defect lists are abstracted to what the protocol tells       *)
(* apart: whether a checksum still matches and whether there is a defect.  *)
(***************************************************************************)
EXTENDS Integers

CONSTANTS
  SlotCount,       \* slots of each ring (slot_count, the same for both)
  Tags,            \* values of the pair <<trigger_id, seat_id>>
  NoTag,           \* the pair in zeroed memory
  PipelineVerdicts \* verdicts the detection pipeline may produce

\* SlotState::Timeout of the protocol is left out: no code sets it.
SlotStates == {"EMPTY", "WRITING", "READY", "READING", "CORRUPTED"}

Decisions == {"OK", "NG", "RECHECK", "ERROR"}

ErrorCodes == {"None", "ProtocolMismatch", "InvalidPayload", "CrcMismatch",
               "SlotUnavailable", "DetectorTimeout", "MissingFrame",
               "QualityFailed", "DeviceFault", "InternalError", "LightFault",
               "CameraFault", "TriggerSyncFault", "ConfigurationError",
               "Reserved14"}

Slots == 0 .. SlotCount - 1

\* The fields of InspectionResultMeta that validate_detector_result reads.
Verdict == [decision : Decisions, quality : BOOLEAN,
            code : ErrorCodes, defects : BOOLEAN]

ASSUME SlotCountAssumption == SlotCount \in Nat \ {0}
ASSUME NoTagAssumption == NoTag \notin Tags
ASSUME PipelineVerdictsAssumption == PipelineVerdicts \subseteq Verdict

\* The verdict _publish_frame_slot_error sends for an unreadable frame slot.
UnreadableFrame(code) ==
  [decision |-> "ERROR", quality |-> FALSE, code |-> code, defects |-> FALSE]

(***************************************************************************)
(* A frame slot's contents.  "unit" is not in shared memory: it numbers    *)
(* the physical seats in the order they were triggered and stands for the  *)
(* images, so that an answer can be traced to the seat that was            *)
(* photographed.  "integrity" says which checksum no longer matches.       *)
(***************************************************************************)
Integrities == {"ok", "badHeader", "badPayload"}

Job == [seq : Nat, tag : Tags \cup {NoTag}, unit : Nat, integrity : Integrities]

ZeroJob == [seq |-> 0, tag |-> NoTag, unit |-> 0, integrity |-> "ok"]

\* A result slot's contents; "unit" is the seat whose images were judged.
NoVerdict ==
  [decision |-> "ERROR", quality |-> FALSE, code |-> "None", defects |-> FALSE]

Result == [seq : Nat, tag : Tags \cup {NoTag}, unit : Nat,
           verdict : Verdict, intact : BOOLEAN]

ZeroResult ==
  [seq |-> 0, tag |-> NoTag, unit |-> 0, verdict |-> NoVerdict, intact |-> TRUE]

-----------------------------------------------------------------------------
\* validate_detector_result, the part about the verdict: OK and NG must be
\* free of contradictions, ERROR must name a code, and a RECHECK without a
\* code must come from images that passed the quality gate.
Acceptable(v) ==
  /\ v.decision \in {"OK", "NG"} =>
       /\ v.quality
       /\ v.code = "None"
       /\ v.defects <=> v.decision = "NG"
  /\ v.decision = "ERROR" => v.code # "None"
  /\ v.decision = "RECHECK" => v.code # "None" \/ v.quality

\* validate_detector_result, the part about the job the result is for.
BelongsTo(r, j) == r.seq = j.seq /\ r.tag = j.tag

\* published_decision: an internal ERROR leaves the station as RECHECK.
PublishedDecision(v) == IF v.decision = "ERROR" THEN "RECHECK" ELSE v.decision
=============================================================================
