--------------------------- MODULE SeatInspection ---------------------------
(***************************************************************************)
(* What the station promises, without rings, processes or messages: seats  *)
(* are triggered one after the other; the detector may form a verdict on a *)
(* seat's images, at most once; each seat gets at most one answer, before  *)
(* the next seat is triggered; and a seat is passed as OK, or failed as    *)
(* NG, only on an acceptable verdict on that very seat.  RECHECK is always *)
(* an allowed answer, and so is silence (a lost answer, a dead controller).*)
(***************************************************************************)
EXTENDS SlotProtocol

CONSTANT MaxUnits \* bound: seats triggered

VARIABLES
  unit,   \* seats triggered so far
  open,   \* is the last one still waiting for its answer?
  answer, \* the answers given
  judged  \* the detector's verdicts

seatVars == <<unit, open, answer, judged>>

Pending == [decision |-> "ERROR", code |-> "None", delivered |-> FALSE]

Init ==
  /\ unit = 0
  /\ open = FALSE
  /\ answer = [u \in 1 .. MaxUnits |-> Pending]
  /\ judged = [u \in 1 .. MaxUnits |-> NoVerdict]

Trigger ==
  /\ ~open
  /\ unit < MaxUnits
  /\ unit' = unit + 1
  /\ open' = TRUE
  /\ UNCHANGED <<answer, judged>>

\* A verdict on a seat that was photographed, and on which there is none yet.
Judge(u) ==
  /\ u \in 1 .. unit
  /\ judged[u] = NoVerdict
  /\ \E v \in PipelineVerdicts : judged' = [judged EXCEPT ![u] = v]
  /\ UNCHANGED <<unit, open, answer>>

Warranted(decision, v) == Acceptable(v) /\ v.decision = decision

Reply ==
  /\ open
  /\ \E d \in {"OK", "NG", "RECHECK"}, c \in ErrorCodes, b \in BOOLEAN :
       /\ d # "RECHECK" => b /\ Warranted(d, judged[unit])
       /\ answer' = [answer EXCEPT ![unit] =
                       [decision |-> d, code |-> c, delivered |-> b]]
  /\ open' = FALSE
  /\ UNCHANGED <<unit, judged>>

\* The controller died: the seat never gets an answer.
Abandon ==
  /\ open
  /\ open' = FALSE
  /\ UNCHANGED <<unit, answer, judged>>

Next == Trigger \/ (\E u \in 1 .. unit : Judge(u)) \/ Reply \/ Abandon

Spec == Init /\ [][Next]_seatVars
=============================================================================
