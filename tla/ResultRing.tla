----------------------------- MODULE ResultRing -----------------------------
(***************************************************************************)
(* The ring of result slots, written by the Python detector                *)
(* (ShmClient.publish_result) and drained by the C++ controller            *)
(* (ResultRingBuffer).  One operator per atomic access to a state word.    *)
(***************************************************************************)
EXTENDS SlotProtocol

VARIABLES
  resultState, \* state word of each slot
  resultBody   \* contents of each slot

resultVars == <<resultState, resultBody>>

ResultTypeOK ==
  /\ resultState \in [Slots -> SlotStates]
  /\ resultBody \in [Slots -> Result]

ResultInit ==
  /\ resultState = [i \in Slots |-> "EMPTY"]
  /\ resultBody = [i \in Slots |-> ZeroResult]

\* Mutant: the reset zeroes the header only.
ResultKept == UNCHANGED resultVars

ResultReset ==
  /\ resultState' = [i \in Slots |-> "EMPTY"]
  /\ resultBody' = [i \in Slots |-> ZeroResult]

SetResultState(i, s) ==
  /\ resultState' = [resultState EXCEPT ![i] = s]
  /\ UNCHANGED resultBody

\* publish_result: a load that sees EMPTY followed by a plain store.
ClaimResult(i) ==
  /\ resultState[i] = "EMPTY"
  /\ SetResultState(i, "WRITING")

\* _write_result_slot has packed the whole result; fence; READY.
CommitResult(i, r) ==
  /\ resultState' = [resultState EXCEPT ![i] = "READY"]
  /\ resultBody' = [resultBody EXCEPT ![i] = r]

\* Mutant: the exception leaves the slot WRITING.
LeaveWriting(i) == UNCHANGED <<resultState, resultBody>>

\* _write_result_slot raised.  Everything that can raise is evaluated before
\* the header is packed, so the slot still shows its previous contents.
MarkCorrupted(i) == SetResultState(i, "CORRUPTED")

\* read_ready_slot: only the result the controller waits for is taken.
TakeResult(i, seq) ==
  /\ resultState[i] = "READY"
  /\ resultBody[i].seq = seq
  /\ SetResultState(i, "READING")

\* Mutant: only slots marked unusable are dropped.
StaleIfCorrupted(i, seq) ==
  /\ resultState[i] = "CORRUPTED"
  /\ resultBody[i].seq < seq

\* reclaim_stale_or_bad_slot: leftovers of earlier jobs are dropped.
Stale(i, seq) ==
  /\ resultState[i] \in {"READY", "CORRUPTED"}
  /\ resultBody[i].seq < seq

\* reclaim_stale_or_bad_slot: this very job's slot was marked unusable.
Spoiled(i, seq) ==
  /\ resultState[i] = "CORRUPTED"
  /\ resultBody[i].seq = seq

FreeResult(i) == SetResultState(i, "EMPTY")

\* A slot the sweep passes over without touching it.
Untouched(i, seq) ==
  /\ ~Stale(i, seq)
  /\ ~Spoiled(i, seq)
  /\ ~(resultState[i] = "READY" /\ resultBody[i].seq = seq)
=============================================================================
