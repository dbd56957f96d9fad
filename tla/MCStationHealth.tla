-------------------------- MODULE MCStationHealth --------------------------
(***************************************************************************)
(* Values for the constants of StationHealth.                              *)
(***************************************************************************)
EXTENDS StationHealth

MCVerdict(decision, quality, code) ==
  [decision |-> decision, quality |-> quality, code |-> code,
   defects |-> decision = "NG"]

\* One verdict of each kind, and the recheck without a reason that
\* validate_detector_result lets pass.
MCVerdicts ==
  {MCVerdict("OK", TRUE, "None"), MCVerdict("NG", TRUE, "None"),
   MCVerdict("RECHECK", TRUE, "None"), MCVerdict("RECHECK", FALSE, "QualityFailed"),
   MCVerdict("ERROR", FALSE, "InternalError")}
=============================================================================
