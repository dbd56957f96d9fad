--------------------------- MODULE StationHealth ---------------------------
(***************************************************************************)
(* The controller's main loop as its health monitor sees it: triggers that *)
(* come, stay away or fail, jobs that end in a verdict or in a RECHECK,    *)
(* answers that cannot be delivered, and the state, alarm and counters     *)
(* that StationHealthMonitor derives from them.                            *)
(*                                                                         *)
(* What happens inside a job is an outcome here.  InspectionStation        *)
(* models the rings behind it.  One thread makes every call, so a step is  *)
(* what it does between two places where it blocks.                        *)
(***************************************************************************)
EXTENDS SlotProtocol

CONSTANTS
  WarningSetting,     \* warning_recheck_threshold of the configuration
  CriticalSetting,    \* critical_recheck_threshold of the configuration
  ManualTrigger,      \* display_manual_trigger.enabled
  MaxJobs,            \* --max-jobs
  MaxTriggerFaults    \* bound: failed waits in a row

ASSUME ThresholdAssumption == WarningSetting \in Nat /\ CriticalSetting \in Nat
ASSUME ModeAssumption == ManualTrigger \in BOOLEAN
ASSUME MaxJobsAssumption == MaxJobs \in Nat \ {0} /\ MaxTriggerFaults \in Nat

VARIABLES
  captureOnly,    \* controller_mode = capture_only, set by the configuration
  health,         \* StationHealthSnapshot
  pc,             \* where the main loop is
  jobs,           \* processed_jobs of main
  triggerFaults,  \* consecutive_trigger_faults_
  captured        \* history: jobs that ended as a capture without a verdict

vars == <<captureOnly, health, pc, jobs, triggerFaults, captured>>

-----------------------------------------------------------------------------
(***************************************************************************)
(* StationHealthMonitor.  alarm_message is one of a few texts: the early   *)
(* return of transition_to compares it.  Texts with the same role are one. *)
(***************************************************************************)
StationStates == {"Created", "Initialized", "Ready", "Running", "Fault", "Stopped"}
AlarmLevels == {"None", "Warning", "Critical"}
Messages == {"", "initialized", "ready", "recovery", "accepted", "cleanup",
             "fault", "result"}

Snapshot == [state : StationStates, alarm : AlarmLevels, message : Messages,
             streak : Nat, total : Nat, count : [Decisions -> Nat],
             timeouts : Nat, deviceFaults : Nat]

WarningThreshold == IF WarningSetting = 0 THEN 1 ELSE WarningSetting
CriticalThreshold ==
  IF CriticalSetting <= WarningThreshold THEN WarningThreshold + 1 ELSE CriticalSetting

DeviceFaultCodes == {"DeviceFault", "LightFault", "CameraFault", "TriggerSyncFault"}

\* Mutant: becoming ready clears the alarm in the middle of a streak.
TransitionClearing(h, state, reason) ==
  IF h.state = state /\ h.message = reason THEN h
  ELSE IF state \in {"Ready", "Running"}
  THEN [h EXCEPT !.state = state, !.alarm = "None", !.message = ""]
  ELSE [h EXCEPT !.state = state, !.message = reason,
                 !.alarm = IF state = "Fault" THEN "Critical" ELSE @]
\* transition_to
Transition(h, state, reason) ==
  IF h.state = state /\ h.message = reason THEN h
  ELSE IF state \in {"Ready", "Running"} /\ h.streak = 0
  THEN [h EXCEPT !.state = state, !.alarm = "None", !.message = ""]
  ELSE [h EXCEPT !.state = state, !.message = reason,
                 !.alarm = IF state = "Fault" THEN "Critical" ELSE @]

\* Mutant: an alarm below both thresholds and without a code is withdrawn.
UpdateAlarmAfresh(h, code, message) ==
  IF h.streak >= CriticalThreshold \/ code \in {"DeviceFault", "DetectorTimeout"}
  THEN [h EXCEPT !.alarm = "Critical", !.state = "Fault", !.message = message]
  ELSE [h EXCEPT !.message = message,
                 !.alarm = IF h.streak >= WarningThreshold \/ code # "None"
                           THEN "Warning" ELSE "None"]
\* update_alarm
UpdateAlarm(h, code, message) ==
  IF h.streak >= CriticalThreshold \/ code \in {"DeviceFault", "DetectorTimeout"}
  THEN [h EXCEPT !.alarm = "Critical", !.state = "Fault", !.message = message]
  ELSE [h EXCEPT !.message = message,
                 !.alarm = IF h.streak >= WarningThreshold \/ code # "None"
                           THEN "Warning" ELSE @]

CountCode(h, code) ==
  [h EXCEPT !.timeouts = @ + (IF code = "DetectorTimeout" THEN 1 ELSE 0),
            !.deviceFaults = @ + (IF code \in DeviceFaultCodes THEN 1 ELSE 0)]

\* Mutant: an ERROR shortens a streak that may not have begun.
CountDecisionBackwards(h, decision) ==
  [h EXCEPT !.total = @ + 1, !.count[decision] = @ + 1,
            !.streak = CASE decision = "ERROR" -> @ - 1
                         [] decision = "RECHECK" -> @ + 1
                         [] OTHER -> 0]

CountDecision(h, decision) ==
  [h EXCEPT !.total = @ + 1, !.count[decision] = @ + 1,
            !.streak = IF decision \in {"OK", "NG"} THEN 0 ELSE @ + 1]

\* The alarm part of record_result.
JudgeResult(h, decision, code, message) ==
  CASE decision = "OK" /\ h.state # "Fault" ->
         [h EXCEPT !.alarm = "None", !.message = ""]
    [] decision \in {"RECHECK", "ERROR"} -> UpdateAlarm(h, code, message)
    [] OTHER -> h

RecordResult(h, decision, code, message) ==
  CountCode(JudgeResult(CountDecision(h, decision), decision, code, message), code)

RecordFault(h, code, message) == UpdateAlarm(CountCode(h, code), code, message)

\* Mutant: the return to Ready after a job is forgotten.
RecordResultOnly(h, decision, code) == RecordResult(h, decision, code, "result")
\* record_result_health of the controller
RecordResultHealth(h, decision, code) ==
  LET recorded == RecordResult(h, decision, code, "result")
  IN  IF recorded.state = "Fault" THEN recorded
      ELSE Transition(recorded, "Ready", "ready")

-----------------------------------------------------------------------------
Created == [state |-> "Created", alarm |-> "None", message |-> "", streak |-> 0,
            total |-> 0, count |-> [d \in Decisions |-> 0],
            timeouts |-> 0, deviceFaults |-> 0]

Init ==
  /\ captureOnly \in BOOLEAN
  /\ health = Created
  /\ pc = "start"
  /\ jobs = 0 /\ triggerFaults = 0 /\ captured = 0

Initialized == Transition(Created, "Initialized", "initialized")

\* initialize, when every client and both rings come up
Initialize ==
  /\ pc = "start"
  /\ health' = Transition(Initialized, "Ready", "ready")
  /\ pc' = "ready"
  /\ UNCHANGED <<captureOnly, jobs, triggerFaults, captured>>

\* initialize fails in a signal client or, online only, in the shared memory
InitializeFails ==
  /\ pc = "start"
  /\ \E code \in IF captureOnly THEN {"DeviceFault"}
                 ELSE {"DeviceFault", "ProtocolMismatch"} :
       health' = Transition(RecordFault(Initialized, code, "fault"), "Fault", "fault")
  /\ pc' = "exited"
  /\ UNCHANGED <<captureOnly, jobs, triggerFaults, captured>>

\* --cleanup: main stops the station before its first job
CleanUp ==
  /\ pc = "ready"
  /\ health' = Transition(health, "Stopped", "cleanup")
  /\ pc' = "exited"
  /\ UNCHANGED <<captureOnly, jobs, triggerFaults, captured>>

-----------------------------------------------------------------------------
(***************************************************************************)
(* wait_for_trigger: recover from a fault, poll the display's trigger,     *)
(* then block on the external signal.                                      *)
(***************************************************************************)
\* Mutant: a station in Fault waits for somebody to reset it.
EnterWaitUnlessFault ==
  /\ pc \in {"ready", "loop"} /\ jobs < MaxJobs /\ health.state # "Fault"
  /\ pc' = IF ManualTrigger THEN "poll_manual" ELSE "wait_external"
  /\ UNCHANGED <<captureOnly, health, jobs, triggerFaults, captured>>
EnterWait ==
  /\ pc \in {"ready", "loop"} /\ jobs < MaxJobs
  /\ health' = IF health.state = "Fault" THEN Transition(health, "Ready", "recovery")
               ELSE health
  /\ pc' = IF ManualTrigger THEN "poll_manual" ELSE "wait_external"
  /\ UNCHANGED <<captureOnly, jobs, triggerFaults, captured>>

\* The display's client has nothing, or an error that is only logged.
NoManualTrigger ==
  /\ pc = "poll_manual"
  /\ pc' = "wait_external"
  /\ UNCHANGED <<captureOnly, health, jobs, triggerFaults, captured>>

AcceptTrigger ==
  /\ pc \in {"poll_manual", "wait_external"}
  /\ health' = Transition(health, "Running", "accepted")
  /\ triggerFaults' = 0
  /\ pc' = "inspect"
  /\ UNCHANGED <<captureOnly, jobs, captured>>

\* The wait ends without a trigger and without an error.
IdleWait ==
  /\ pc = "wait_external"
  /\ health' = Transition(health, "Ready", "ready")
  /\ pc' = "loop"
  /\ UNCHANGED <<captureOnly, jobs, triggerFaults, captured>>

TriggerWaitFails ==
  /\ pc = "wait_external" /\ triggerFaults < MaxTriggerFaults
  /\ health' = Transition(RecordFault(health, "DeviceFault", "fault"), "Fault", "fault")
  /\ triggerFaults' = triggerFaults + 1
  /\ pc' = "loop"
  /\ UNCHANGED <<captureOnly, jobs, captured>>

-----------------------------------------------------------------------------
(***************************************************************************)
(* inspect_one_seat by its outcomes.  Each ends with an answer to the      *)
(* client that triggered the job; one that cannot be delivered makes the   *)
(* job a RECHECK with DeviceFault.                                         *)
(***************************************************************************)
FailureCodes ==
  {"DeviceFault", "LightFault", "CameraFault", "TriggerSyncFault", "MissingFrame",
   "ConfigurationError", "InternalError", "InvalidPayload"}
  \cup IF captureOnly THEN {}
       ELSE {"SlotUnavailable", "DetectorTimeout", "CrcMismatch", "ProtocolMismatch"}

EndJob(decision, code) ==
  /\ health' = RecordResultHealth(health, decision, code)
  /\ UNCHANGED captured

FinishJob ==
  /\ pc' = "loop" /\ jobs' = jobs + 1
  /\ UNCHANGED <<captureOnly, triggerFaults>>

\* make_and_send_recheck_result, and the publication of a verdict that fails
JobFails ==
  /\ pc = "inspect"
  /\ \E code \in FailureCodes : EndJob("RECHECK", code)
  /\ FinishJob

\* Mutant: a capture is also counted as a recheck.
CaptureCounted ==
  /\ pc = "inspect" /\ captureOnly
  /\ health' = RecordResultHealth(health, "RECHECK", "None")
  /\ captured' = captured + 1
  /\ FinishJob
\* Capture-only: the images are saved and the answer is out.
CaptureCompletes ==
  /\ pc = "inspect" /\ captureOnly
  /\ health' = Transition(health, "Ready", "ready")
  /\ captured' = captured + 1
  /\ FinishJob

\* An accepted verdict of the detector is delivered.
VerdictDelivered ==
  /\ pc = "inspect" /\ ~captureOnly
  /\ \E v \in PipelineVerdicts : Acceptable(v) /\ EndJob(v.decision, v.code)
  /\ FinishJob

Exit ==
  /\ pc = "loop" /\ jobs = MaxJobs
  /\ pc' = "exited"
  /\ UNCHANGED <<captureOnly, health, jobs, triggerFaults, captured>>

Next ==
  \/ Initialize \/ InitializeFails \/ CleanUp
  \/ EnterWait \/ NoManualTrigger \/ AcceptTrigger \/ IdleWait \/ TriggerWaitFails
  \/ JobFails \/ CaptureCompletes \/ VerdictDelivered \/ Exit

Spec == Init /\ [][Next]_vars

\* main goes round its loop as long as there are jobs left, and then ends.
FairSpec == Spec /\ WF_vars(EnterWait \/ Exit)

-----------------------------------------------------------------------------
(***************************************************************************)
(* Properties.                                                             *)
(***************************************************************************)
TypeOK ==
  /\ captureOnly \in BOOLEAN
  /\ health \in Snapshot
  /\ pc \in {"start", "ready", "loop", "poll_manual", "wait_external", "inspect",
            "exited"}
  /\ jobs \in Nat /\ triggerFaults \in Nat /\ captured \in Nat

\* docs/cpp_controller_operations.md, health acceptance: a streak of rechecks
\* shows as Warning and then as Critical, at every moment until a good or bad
\* seat ends it.  Recovering from the fault, waiting and accepting triggers,
\* each of which can clear an alarm, must not clear this one.
AlarmFollowsStreak ==
  /\ health.streak >= WarningThreshold => health.alarm # "None"
  /\ health.streak >= CriticalThreshold => health.alarm = "Critical"

\* The alarm and the state tell the same story: a station in Fault shows
\* Critical, and one that waits or works shows an alarm only during a streak,
\* so that an alarm left by a failed trigger or an earlier recheck never
\* outlives its cause.
AlarmMatchesState ==
  /\ health.state = "Fault" => health.alarm = "Critical"
  /\ health.state \in {"Ready", "Running"} /\ health.alarm # "None" => health.streak > 0

\* Every job is counted once, under one decision, except captures that
\* succeed; a streak is made of counted jobs.
JobsAccounted ==
  /\ health.total + captured = jobs
  /\ health.total = health.count["OK"] + health.count["NG"]
                    + health.count["RECHECK"] + health.count["ERROR"]
  /\ health.streak <= health.count["RECHECK"] + health.count["ERROR"]

Severity == [None |-> 0, Warning |-> 1, Critical |-> 2]

\* An alarm eases when a streak ends or none is on, or from Critical to Warning
\* when a lesser failure follows a fault before the streak itself is critical.
\* It never goes out on a job that failed.
AlarmEases ==
  [][Severity[health'.alarm] < Severity[health.alarm] =>
       \/ health'.streak = 0
       \/ /\ health'.alarm = "Warning"
          /\ health'.streak = health.streak + 1
          /\ health'.streak < CriticalThreshold]_vars

\* cpp_controller/README.md: the controller recovers from a failed trigger by
\* itself; only the end of the program leaves it in Fault.
FaultRecovers == health.state = "Fault" ~> health.state # "Fault" \/ pc = "exited"
=============================================================================
