----------------------------- MODULE FrameRing -----------------------------
(***************************************************************************)
(* The ring of image slots, written by the C++ controller (FrameRingBuffer)*)
(* and read and released by the Python detector (ShmClient).  Each         *)
(* operator below is one atomic access to a slot's state word together     *)
(* with the slot contents that access publishes or gives up.               *)
(***************************************************************************)
EXTENDS SlotProtocol

VARIABLES
  frameState, \* state word of each slot
  frameJob,   \* contents of each slot
  writeIndex  \* ShmHeader::write_index, modulo SlotCount

frameVars == <<frameState, frameJob, writeIndex>>

FrameTypeOK ==
  /\ frameState \in [Slots -> SlotStates]
  /\ frameJob \in [Slots -> Job]
  /\ writeIndex \in Slots

\* Freshly created or reset memory: zeroed, every slot EMPTY.
FrameInit ==
  /\ frameState = [i \in Slots |-> "EMPTY"]
  /\ frameJob = [i \in Slots |-> ZeroJob]
  /\ writeIndex = 0

FrameReset ==
  /\ frameState' = [i \in Slots |-> "EMPTY"]
  /\ frameJob' = [i \in Slots |-> ZeroJob]
  /\ writeIndex' = 0

\* The slot that publish() inspects at a given probe of one pass.
ProbedSlot(probe) == (writeIndex + probe) % SlotCount

\* Mutant: the writer also reuses slots the detector has not fetched yet.
ClaimUnreadFrame(i) ==
  /\ frameState[i] \in {"EMPTY", "READY"}
  /\ frameState' = [frameState EXCEPT ![i] = "WRITING"]
  /\ frameJob' = [frameJob EXCEPT ![i] = ZeroJob]
  /\ UNCHANGED writeIndex

\* Mutant: the writer takes any slot.
ClaimAnyFrame(i) ==
  /\ frameState' = [frameState EXCEPT ![i] = "WRITING"]
  /\ frameJob' = [frameJob EXCEPT ![i] = ZeroJob]
  /\ UNCHANGED writeIndex

\* The compare-and-swap EMPTY -> WRITING succeeds and the slot is zeroed.
ClaimFrame(i) ==
  /\ frameState[i] = "EMPTY"
  /\ frameState' = [frameState EXCEPT ![i] = "WRITING"]
  /\ frameJob' = [frameJob EXCEPT ![i] = ZeroJob]
  /\ UNCHANGED writeIndex

\* Contents and checksums are written, the slot turns READY and the next
\* publish starts probing behind it.
CommitFrame(i, j) ==
  /\ frameState' = [frameState EXCEPT ![i] = "READY"]
  /\ frameJob' = [frameJob EXCEPT ![i] = j]
  /\ writeIndex' = (i + 1) % SlotCount

\* Mutant: a restarted detector picks up slots its predecessor died on.
TakeFrameAgain(i) ==
  /\ frameState[i] \in {"READY", "READING"}
  /\ frameState' = [frameState EXCEPT ![i] = "READING"]
  /\ UNCHANGED <<frameJob, writeIndex>>

\* The detector found the slot READY and marks it READING.
TakeFrame(i) ==
  /\ frameState[i] = "READY"
  /\ frameState' = [frameState EXCEPT ![i] = "READING"]
  /\ UNCHANGED <<frameJob, writeIndex>>

\* The detector gives the slot back (_release_frame_slot).
ReleaseFrame(i) ==
  /\ frameState' = [frameState EXCEPT ![i] = "EMPTY"]
  /\ UNCHANGED <<frameJob, writeIndex>>
=============================================================================
