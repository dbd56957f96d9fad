------------------------ MODULE MCInspectionStation ------------------------
(***************************************************************************)
(* Values for the constants of InspectionStation.                          *)
(***************************************************************************)
EXTENDS InspectionStation, TLC

MCCodes == {"DeviceFault"}

MCPass ==
  [decision |-> "OK", quality |-> TRUE, code |-> "None", defects |-> FALSE]
MCFail ==
  [decision |-> "NG", quality |-> TRUE, code |-> "None", defects |-> TRUE]
\* An OK that contradicts itself, as a faulty pipeline would produce it.
MCBadPass == [MCPass EXCEPT !.defects = TRUE]

MCTwoVerdicts == {MCPass, MCFail}
MCDoubtfulVerdicts == {MCPass, MCBadPass}
MCOneVerdict == {MCFail}
MCNoDamage == {"ok"}
MCDamage == {"ok", "badHeader", "badPayload"}

MCTagSymmetry == Permutations(Tags)
=============================================================================
