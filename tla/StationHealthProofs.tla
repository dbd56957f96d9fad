------------------------ MODULE StationHealthProofs ------------------------
(***************************************************************************)
(* Proofs about StationHealth, for every pair of thresholds, every set of  *)
(* verdicts and both controller modes.                                     *)
(***************************************************************************)
EXTENDS StationHealth, TLAPS

\* configure() leaves two thresholds of which the second is the larger.
LEMMA ThresholdsOrdered ==
  /\ WarningThreshold \in Nat \ {0} /\ CriticalThreshold \in Nat
  /\ WarningThreshold < CriticalThreshold
BY ThresholdAssumption DEF WarningThreshold, CriticalThreshold

\* The parts of AlarmFollowsStreak and AlarmMatchesState, for any snapshot.
FollowsStreak(h) ==
  /\ h.streak >= WarningThreshold => h.alarm # "None"
  /\ h.streak >= CriticalThreshold => h.alarm = "Critical"

MatchesState(h) ==
  /\ h.state = "Fault" => h.alarm = "Critical"
  /\ h.state \in {"Ready", "Running"} /\ h.alarm # "None" => h.streak > 0

Tallied(h) ==
  /\ h.total = h.count["OK"] + h.count["NG"] + h.count["RECHECK"] + h.count["ERROR"]
  /\ h.streak <= h.count["RECHECK"] + h.count["ERROR"]

\* What transition_to does to an alarm: it goes out only without a streak.
LEMMA TransitionKeeps ==
  ASSUME NEW h \in Snapshot, NEW s \in StationStates, NEW reason \in Messages,
         FollowsStreak(h), Tallied(h)
  PROVE  LET t == Transition(h, s, reason)
         IN  /\ t \in Snapshot /\ t.state = s /\ FollowsStreak(t) /\ Tallied(t)
             /\ t.total = h.total /\ t.streak = h.streak
             /\ t.alarm # h.alarm /\ t.alarm # "Critical" => h.streak = 0
             /\ MatchesState(h) \/ h.state # s => MatchesState(t)
<1> DEFINE t == Transition(h, s, reason)
<1>1. t \in Snapshot /\ t.state = s
  <2>1. CASE h.state = s /\ h.message = reason
    BY <2>1 DEF Transition
  <2>2. CASE ~(h.state = s /\ h.message = reason) /\ s \in {"Ready", "Running"} /\ h.streak = 0
    <3>1. t = [h EXCEPT !.state = s, !.alarm = "None", !.message = ""]
      BY <2>2 DEF Transition
    <3>2. "None" \in AlarmLevels /\ "" \in Messages
      BY DEF AlarmLevels, Messages
    <3> QED BY <3>1, <3>2 DEF Snapshot
  <2>3. CASE ~(h.state = s /\ h.message = reason) /\ ~(s \in {"Ready", "Running"} /\ h.streak = 0)
    <3> DEFINE a == IF s = "Fault" THEN "Critical" ELSE h.alarm
    <3>1. t = [h EXCEPT !.state = s, !.message = reason, !.alarm = a]
      BY <2>3 DEF Transition, Snapshot
    <3>2. a \in AlarmLevels
      BY DEF Snapshot, AlarmLevels
    <3> HIDE DEF a
    <3> QED BY <3>1, <3>2 DEF Snapshot
  <2> QED BY <2>1, <2>2, <2>3
<1>2. t.count = h.count /\ t.total = h.total /\ t.streak = h.streak
  BY DEF Transition, Snapshot
<1>3. t.alarm = h.alarm \/ t.alarm = "Critical" \/ (t.alarm = "None" /\ h.streak = 0)
  BY DEF Transition, Snapshot
<1>4. FollowsStreak(t)
  BY <1>2, <1>3, ThresholdsOrdered DEF FollowsStreak, Snapshot
<1>5. MatchesState(h) \/ h.state # s => MatchesState(t)
  BY DEF Transition, MatchesState, Snapshot
<1> QED BY <1>1, <1>2, <1>3, <1>4, <1>5 DEF Tallied

\* What update_alarm does: the streak decides, and no alarm goes out.
LEMMA UpdateAlarmKeeps ==
  ASSUME NEW h \in Snapshot, NEW code \in ErrorCodes, NEW message \in Messages,
         h.state # "Fault"
  PROVE  LET t == UpdateAlarm(h, code, message)
         IN  /\ t \in Snapshot /\ FollowsStreak(t)
             /\ t.count = h.count /\ t.total = h.total /\ t.streak = h.streak
             /\ t.state = "Fault" => t.alarm = "Critical"
             /\ t.state \in {"Fault", h.state}
             /\ t.alarm \in {h.alarm, "Warning", "Critical"}
             /\ t.alarm = "Warning" /\ h.alarm = "Critical" => h.streak < CriticalThreshold
<1> DEFINE t == UpdateAlarm(h, code, message)
<1>1. CASE h.streak >= CriticalThreshold \/ code \in {"DeviceFault", "DetectorTimeout"}
  <2>1. t = [h EXCEPT !.alarm = "Critical", !.state = "Fault", !.message = message]
    BY <1>1 DEF UpdateAlarm
  <2>2. "Critical" \in AlarmLevels /\ "Fault" \in StationStates
    BY DEF AlarmLevels, StationStates
  <2> QED BY <2>1, <2>2, ThresholdsOrdered DEF Snapshot, FollowsStreak
<1>2. CASE ~(h.streak >= CriticalThreshold \/ code \in {"DeviceFault", "DetectorTimeout"})
  <2> DEFINE a == IF h.streak >= WarningThreshold \/ code # "None" THEN "Warning" ELSE h.alarm
  <2>1. t = [h EXCEPT !.message = message, !.alarm = a]
    BY <1>2 DEF UpdateAlarm, Snapshot
  <2>2. a \in AlarmLevels /\ a \in {h.alarm, "Warning"}
        /\ (h.streak >= WarningThreshold => a = "Warning")
    BY DEF Snapshot, AlarmLevels
  <2> HIDE DEF a
  <2>3. /\ t \in Snapshot /\ t.alarm = a /\ t.state = h.state
        /\ t.count = h.count /\ t.total = h.total /\ t.streak = h.streak
    BY <2>1, <2>2 DEF Snapshot
  <2> HIDE DEF t
  <2>4. h.streak \in Nat /\ h.streak < CriticalThreshold
    BY <1>2, ThresholdsOrdered DEF Snapshot
  <2>5. FollowsStreak(t)
    BY <2>2, <2>3, <2>4, ThresholdsOrdered DEF FollowsStreak
  <2> QED BY <2>2, <2>3, <2>4, <2>5 DEF t
<1> QED BY <1>1, <1>2

\* The per-code counters touch nothing the alarm depends on.
LEMMA CountCodeKeeps ==
  ASSUME NEW h \in Snapshot, NEW code
  PROVE  LET t == CountCode(h, code)
         IN  /\ t \in Snapshot
             /\ t.state = h.state /\ t.alarm = h.alarm /\ t.streak = h.streak
             /\ t.total = h.total /\ t.count = h.count
<1> DEFINE a == h.timeouts + (IF code = "DetectorTimeout" THEN 1 ELSE 0)
           b == h.deviceFaults + (IF code \in DeviceFaultCodes THEN 1 ELSE 0)
<1>1. a \in Nat /\ b \in Nat
  BY DEF Snapshot
<1>2. CountCode(h, code) = [h EXCEPT !.timeouts = a, !.deviceFaults = b]
  BY DEF CountCode, Snapshot
<1> HIDE DEF a, b
<1> QED BY <1>1, <1>2 DEF Snapshot

\* One decision is counted, and the streak grows or ends.
LEMMA CountDecisionCounts ==
  ASSUME NEW h \in Snapshot, NEW d \in Decisions, Tallied(h)
  PROVE  LET t == CountDecision(h, d)
         IN  /\ t \in Snapshot /\ Tallied(t) /\ t.total = h.total + 1
             /\ t.state = h.state /\ t.alarm = h.alarm
             /\ t.streak = IF d \in {"OK", "NG"} THEN 0 ELSE h.streak + 1
<1> DEFINE c == [h.count EXCEPT ![d] = @ + 1]
           n == IF d \in {"OK", "NG"} THEN 0 ELSE h.streak + 1
           m == h.total + 1
           t == CountDecision(h, d)
<1>1. h.count \in [Decisions -> Nat] /\ h.streak \in Nat /\ h.total \in Nat
  BY DEF Snapshot
<1>2. t = [h EXCEPT !.total = m, !.count = c, !.streak = n]
  BY DEF CountDecision, Snapshot
<1>3. c \in [Decisions -> Nat] /\ n \in Nat /\ m \in Nat
  BY <1>1
<1>4. /\ m = c["OK"] + c["NG"] + c["RECHECK"] + c["ERROR"]
      /\ n <= c["RECHECK"] + c["ERROR"]
  BY <1>1 DEF Tallied, Decisions
<1>5. /\ t \in Snapshot /\ t.total = m /\ t.count = c /\ t.streak = n
      /\ t.state = h.state /\ t.alarm = h.alarm
  <2> HIDE DEF c, n, m, t
  <2> QED BY <1>2, <1>3 DEF Snapshot
<1>6. Tallied(t)
  <2> HIDE DEF c, n, m, t
  <2> QED BY <1>4, <1>5 DEF Tallied
<1> HIDE DEF c, t
<1> QED BY <1>5, <1>6 DEF t

\* An alarm goes from h to t only the way AlarmEases allows.
Eases(h, t) ==
  Severity[t.alarm] < Severity[h.alarm] =>
    \/ t.streak = 0
    \/ /\ t.alarm = "Warning"
       /\ t.streak = h.streak + 1
       /\ t.streak < CriticalThreshold

Sound(h) == h \in Snapshot /\ FollowsStreak(h) /\ MatchesState(h) /\ Tallied(h)

\* The alarm part of record_result for the snapshot in which the job has just
\* been counted, made from the sound snapshot h.
LEMMA JudgeResultKeeps ==
  ASSUME NEW h, Sound(h), NEW c \in Snapshot, NEW d \in Decisions,
         NEW code \in ErrorCodes, h.state = "Running",
         c.state = h.state, c.alarm = h.alarm,
         c.streak = IF d \in {"OK", "NG"} THEN 0 ELSE h.streak + 1
  PROVE  LET t == JudgeResult(c, d, code, "result")
         IN  /\ t \in Snapshot /\ FollowsStreak(t)
             /\ t.count = c.count /\ t.total = c.total /\ t.streak = c.streak
             /\ t.state \in {"Running", "Fault"}
             /\ t.state = "Fault" => t.alarm = "Critical"
             /\ Eases(h, t)
<1> DEFINE t == JudgeResult(c, d, code, "result")
<1>1. h.streak \in Nat /\ h.alarm \in AlarmLevels /\ "result" \in Messages
  BY DEF Sound, Snapshot, Messages
<1>2. CASE d = "OK"
  <2>1. t = [c EXCEPT !.alarm = "None", !.message = ""]
    BY <1>2 DEF JudgeResult
  <2>2. "None" \in AlarmLevels /\ "" \in Messages
    BY DEF AlarmLevels, Messages
  <2>3. c.streak = 0
    BY <1>2
  <2> HIDE DEF t
  <2>4. /\ t \in Snapshot /\ t.state = "Running"
        /\ t.count = c.count /\ t.total = c.total /\ t.streak = 0
    BY <2>1, <2>2, <2>3 DEF Snapshot
  <2>5. FollowsStreak(t) /\ Eases(h, t)
    BY <2>4, ThresholdsOrdered DEF FollowsStreak, Eases
  <2> QED BY <2>3, <2>4, <2>5 DEF t
<1>3. CASE d = "NG"
  <2>1. t = c
    BY <1>3 DEF JudgeResult
  <2>2. c.streak = 0
    BY <1>3
  <2> QED BY <2>1, <2>2, ThresholdsOrdered DEF FollowsStreak, Eases
<1>4. CASE d \in {"RECHECK", "ERROR"}
  <2>1. t = UpdateAlarm(c, code, "result")
    BY <1>4 DEF JudgeResult
  <2>2. c.streak = h.streak + 1
    BY <1>4
  <2> HIDE DEF t
  <2>3. /\ t \in Snapshot /\ FollowsStreak(t)
        /\ t.count = c.count /\ t.total = c.total /\ t.streak = c.streak
        /\ t.state = "Fault" => t.alarm = "Critical"
        /\ t.state \in {"Fault", c.state}
        /\ t.alarm \in {c.alarm, "Warning", "Critical"}
        /\ t.alarm = "Warning" /\ c.alarm = "Critical" => c.streak < CriticalThreshold
    BY <1>1, <2>1, UpdateAlarmKeeps
  <2>4. Eases(h, t)
    BY <1>1, <2>2, <2>3 DEF Eases, Severity, AlarmLevels
  <2> QED BY <2>3, <2>4 DEF t
<1>5. d = "OK" \/ d = "NG" \/ d \in {"RECHECK", "ERROR"}
  BY DEF Decisions
<1> QED BY <1>2, <1>3, <1>4, <1>5

\* record_result_health at the end of a job: whatever the job ended with, the
\* snapshot stays sound, and the job is counted once.
LEMMA RecordResultHealthKeeps ==
  ASSUME NEW h, Sound(h), NEW d \in Decisions, NEW code \in ErrorCodes,
         h.state = "Running"
  PROVE  LET t == RecordResultHealth(h, d, code)
         IN  /\ Sound(t) /\ t.state \in {"Ready", "Fault"}
             /\ t.total = h.total + 1 /\ Eases(h, t)
<1> DEFINE c == CountDecision(h, d)
           j == JudgeResult(c, d, code, "result")
           r == CountCode(j, code)
           t == Transition(r, "Ready", "ready")
<1>1. /\ c \in Snapshot /\ Tallied(c) /\ c.total = h.total + 1
      /\ c.state = h.state /\ c.alarm = h.alarm
      /\ c.streak = IF d \in {"OK", "NG"} THEN 0 ELSE h.streak + 1
  BY CountDecisionCounts DEF Sound
<1> HIDE DEF c
<1>2. /\ j \in Snapshot /\ FollowsStreak(j)
      /\ j.count = c.count /\ j.total = c.total /\ j.streak = c.streak
      /\ j.state \in {"Running", "Fault"}
      /\ j.state = "Fault" => j.alarm = "Critical"
      /\ Eases(h, j)
  BY <1>1, JudgeResultKeeps
<1> HIDE DEF j
<1>3. /\ r \in Snapshot
      /\ r.state = j.state /\ r.alarm = j.alarm /\ r.streak = j.streak
      /\ r.total = j.total /\ r.count = j.count
  BY <1>2, CountCodeKeeps
<1> HIDE DEF r
<1>4. FollowsStreak(r) /\ Tallied(r) /\ Eases(h, r)
  BY <1>1, <1>2, <1>3 DEF FollowsStreak, Tallied, Eases
<1>5. RecordResultHealth(h, d, code) = IF r.state = "Fault" THEN r ELSE t
  BY DEF RecordResultHealth, RecordResult, c, j, r
<1>6. CASE r.state = "Fault"
  BY <1>1, <1>2, <1>3, <1>4, <1>5, <1>6 DEF Sound, MatchesState
<1>7. CASE r.state # "Fault"
  <2>1. "Ready" \in StationStates /\ "ready" \in Messages /\ r.state # "Ready"
    BY <1>2, <1>3 DEF StationStates, Messages
  <2>2. /\ t \in Snapshot /\ t.state = "Ready" /\ FollowsStreak(t) /\ Tallied(t)
        /\ t.total = r.total /\ t.streak = r.streak /\ MatchesState(t)
        /\ t.alarm # r.alarm /\ t.alarm # "Critical" => r.streak = 0
    BY <1>3, <1>4, <2>1, TransitionKeeps
  <2> HIDE DEF t
  <2>3. Eases(h, t)
    BY <1>3, <1>4, <2>2 DEF Eases, Severity, Sound, Snapshot, AlarmLevels
  <2> QED BY <1>1, <1>2, <1>3, <1>5, <1>7, <2>2, <2>3 DEF Sound
<1> QED BY <1>6, <1>7

\* transition_to from a sound snapshot.
LEMMA SoundTransition ==
  ASSUME NEW h, Sound(h), NEW s \in StationStates, NEW reason \in Messages
  PROVE  LET t == Transition(h, s, reason)
         IN  Sound(t) /\ t.state = s /\ t.total = h.total /\ Eases(h, t)
<1> DEFINE t == Transition(h, s, reason)
<1>1. /\ t \in Snapshot /\ t.state = s /\ FollowsStreak(t) /\ Tallied(t)
      /\ t.total = h.total /\ t.streak = h.streak
      /\ t.alarm # h.alarm /\ t.alarm # "Critical" => h.streak = 0
      /\ MatchesState(t)
  BY TransitionKeeps DEF Sound
<1> HIDE DEF t
<1>2. h.alarm \in AlarmLevels /\ t.alarm \in AlarmLevels
  BY <1>1 DEF Sound, Snapshot
<1>3. Eases(h, t)
  BY <1>1, <1>2 DEF Eases, Severity, AlarmLevels
<1> QED BY <1>1, <1>3 DEF Sound, t

\* record_fault followed by transition_to(Fault): a sound station in Fault.
LEMMA FaultIsSound ==
  ASSUME NEW h, Sound(h), h.state # "Fault", NEW code \in ErrorCodes
  PROVE  LET t == Transition(RecordFault(h, code, "fault"), "Fault", "fault")
         IN  Sound(t) /\ t.state = "Fault" /\ t.total = h.total /\ Eases(h, t)
<1> DEFINE c == CountCode(h, code)
           r == UpdateAlarm(c, code, "fault")
           t == Transition(r, "Fault", "fault")
<1>1. "fault" \in Messages /\ "Fault" \in StationStates
  BY DEF Messages, StationStates
<1>2. /\ c \in Snapshot
      /\ c.state = h.state /\ c.alarm = h.alarm /\ c.streak = h.streak
      /\ c.total = h.total /\ c.count = h.count
  BY CountCodeKeeps DEF Sound
<1> HIDE DEF c
<1>3. /\ r \in Snapshot /\ FollowsStreak(r)
      /\ r.count = c.count /\ r.total = c.total /\ r.streak = c.streak
      /\ r.state = "Fault" => r.alarm = "Critical"
  BY <1>1, <1>2, UpdateAlarmKeeps
<1>4. Tallied(r) /\ (MatchesState(r) \/ r.state # "Fault")
  <2> HIDE DEF r
  <2> QED BY <1>2, <1>3 DEF Sound, Tallied, MatchesState
<1>5. /\ t \in Snapshot /\ t.state = "Fault" /\ FollowsStreak(t) /\ Tallied(t)
      /\ t.total = r.total /\ MatchesState(t)
  <2> HIDE DEF r
  <2> QED BY <1>1, <1>3, <1>4, TransitionKeeps
<1>6. RecordFault(h, code, "fault") = r
  BY DEF RecordFault, c
<1> HIDE DEF r, t
<1>7. h.alarm \in AlarmLevels /\ t.alarm = "Critical"
  BY <1>5 DEF Sound, Snapshot, MatchesState
<1>8. Eases(h, t)
  BY <1>7 DEF Eases, Severity, AlarmLevels
<1> QED BY <1>2, <1>3, <1>5, <1>6, <1>8 DEF Sound, t

\* A station that was just created is sound.
LEMMA CreatedSound == Sound(Created)
<1>1. Created \in Snapshot
  BY DEF Created, Snapshot, StationStates, AlarmLevels, Messages
<1>2. FollowsStreak(Created) /\ MatchesState(Created)
  BY ThresholdsOrdered DEF Created, FollowsStreak, MatchesState
<1>3. Tallied(Created)
  BY DEF Created, Tallied, Decisions
<1> QED BY <1>1, <1>2, <1>3 DEF Sound

-----------------------------------------------------------------------------
(***************************************************************************)
(* The invariant also says in which states the loop waits and inspects:    *)
(* a job ends with the alarm cleared by the transition from Running to     *)
(* Ready, which a station that was in Ready already would skip.            *)
(***************************************************************************)
HealthInv ==
  /\ TypeOK /\ Sound(health)
  /\ health.total + captured = jobs
  /\ pc = "start" => health = Created
  /\ pc \in {"ready", "poll_manual", "wait_external"} => health.state = "Ready"
  /\ pc = "loop" => health.state \in {"Ready", "Fault"}
  /\ pc = "inspect" => health.state = "Running"

\* Every step keeps the invariant, and eases the alarm only for a reason.
LEMMA StepHealth ==
  ASSUME HealthInv, [Next]_vars
  PROVE  HealthInv' /\ (Eases(health, health') \/ UNCHANGED vars)
<1> USE DEF HealthInv
<1>1. /\ "Ready" \in StationStates /\ "Running" \in StationStates
      /\ "Stopped" \in StationStates /\ "Initialized" \in StationStates
      /\ "ready" \in Messages /\ "recovery" \in Messages /\ "accepted" \in Messages
      /\ "cleanup" \in Messages /\ "initialized" \in Messages
  BY DEF StationStates, Messages
<1>2. /\ jobs \in Nat /\ captured \in Nat /\ triggerFaults \in Nat
      /\ \A h : Sound(h) => h \in Snapshot /\ h.total \in Nat /\ Eases(h, h)
  <2>1. ASSUME NEW h, Sound(h) PROVE h \in Snapshot /\ h.total \in Nat /\ Eases(h, h)
    <3>1. h \in Snapshot
      BY <2>1 DEF Sound
    <3>2. Severity[h.alarm] \in Nat
      BY <3>1 DEF Snapshot, AlarmLevels, Severity
    <3> QED BY <3>1, <3>2 DEF Snapshot, Eases
  <2> QED BY <2>1 DEF TypeOK
<1>3. Sound(Initialized) /\ Initialized.state = "Initialized"
      /\ Initialized.total = 0 /\ Created.total = 0
      /\ (\A t : Eases(Initialized, t) => Eases(Created, t))
  <2>1. Created.total = 0 /\ Created.alarm = "None" /\ Created.streak = 0
    BY DEF Created
  <2>2. Sound(Initialized) /\ Initialized.state = "Initialized"
        /\ Initialized.total = Created.total
    BY <1>1, CreatedSound, SoundTransition DEF Initialized
  <2>3. ASSUME NEW t, Eases(Initialized, t) PROVE Eases(Created, t)
    <3>1. Initialized.alarm = "None" /\ Initialized.streak = 0
      BY DEF Initialized, Transition, Created
    <3> QED BY <2>1, <2>3, <3>1 DEF Eases
  <2> QED BY <2>1, <2>2, <2>3
<1>16. \A s \in StationStates, reason \in Messages :
        /\ Sound(Transition(health, s, reason))
        /\ Transition(health, s, reason).state = s
        /\ Transition(health, s, reason).total = health.total
        /\ Eases(health, Transition(health, s, reason))
  BY SoundTransition
<1>4. CASE UNCHANGED vars
  BY <1>4 DEF vars, TypeOK
<1>5. CASE Initialize
  <2>1. /\ Sound(health') /\ health'.state = "Ready"
        /\ health'.total = Initialized.total /\ Eases(Initialized, health')
    <3>1. LET t == Transition(Initialized, "Ready", "ready")
          IN  Sound(t) /\ t.state = "Ready" /\ t.total = Initialized.total
              /\ Eases(Initialized, t)
      BY <1>1, <1>3, SoundTransition
    <3> QED BY <1>5, <3>1 DEF Initialize
  <2> QED BY <1>2, <1>3, <1>5, <2>1 DEF Initialize, TypeOK
<1>6. CASE InitializeFails
  <2>1. PICK code \in ErrorCodes :
          health' = Transition(RecordFault(Initialized, code, "fault"), "Fault", "fault")
    BY <1>6 DEF InitializeFails, ErrorCodes
  <2>2. /\ Sound(health') /\ health'.state = "Fault"
        /\ health'.total = Initialized.total /\ Eases(Initialized, health')
    BY <1>3, <2>1, FaultIsSound
  <2> QED BY <1>2, <1>3, <1>6, <2>2 DEF InitializeFails, TypeOK
<1>7. CASE CleanUp
  <2>1. /\ Sound(health') /\ health'.state = "Stopped"
        /\ health'.total = health.total /\ Eases(health, health')
    BY <1>1, <1>16, <1>7 DEF CleanUp
  <2> QED BY <1>2, <1>7, <2>1 DEF CleanUp, TypeOK
<1>8. CASE EnterWait
  <2>1. CASE health.state = "Fault"
    <3>1. /\ Sound(health') /\ health'.state = "Ready"
          /\ health'.total = health.total /\ Eases(health, health')
      BY <1>1, <1>16, <1>8, <2>1 DEF EnterWait
    <3> QED BY <1>2, <1>8, <3>1 DEF EnterWait, TypeOK
  <2>2. CASE health.state # "Fault"
    BY <1>2, <1>8, <2>2 DEF EnterWait, TypeOK
  <2> QED BY <2>1, <2>2
<1>9. CASE NoManualTrigger
  BY <1>2, <1>9 DEF NoManualTrigger, TypeOK
<1>10. CASE AcceptTrigger
  <2>1. /\ Sound(health') /\ health'.state = "Running"
        /\ health'.total = health.total /\ Eases(health, health')
    BY <1>1, <1>16, <1>10 DEF AcceptTrigger
  <2> QED BY <1>2, <1>10, <2>1 DEF AcceptTrigger, TypeOK
<1>11. CASE IdleWait
  <2>1. /\ Sound(health') /\ health'.state = "Ready"
        /\ health'.total = health.total /\ Eases(health, health')
    BY <1>1, <1>16, <1>11 DEF IdleWait
  <2> QED BY <1>2, <1>11, <2>1 DEF IdleWait, TypeOK
<1>12. CASE TriggerWaitFails
  <2>1. "DeviceFault" \in ErrorCodes
    BY DEF ErrorCodes
  <2>2. /\ Sound(health') /\ health'.state = "Fault"
        /\ health'.total = health.total /\ Eases(health, health')
    BY <1>12, <2>1, FaultIsSound DEF TriggerWaitFails
  <2> QED BY <1>2, <1>12, <2>2 DEF TriggerWaitFails, TypeOK
<1>13. CASE JobFails \/ VerdictDelivered
  <2>1. PICK d \in Decisions, code \in ErrorCodes : EndJob(d, code)
    <3>1. "RECHECK" \in Decisions /\ FailureCodes \subseteq ErrorCodes
      BY DEF Decisions, FailureCodes, ErrorCodes
    <3>2. \A v \in PipelineVerdicts : v.decision \in Decisions /\ v.code \in ErrorCodes
      BY PipelineVerdictsAssumption DEF Verdict
    <3> QED BY <1>13, <3>1, <3>2 DEF JobFails, VerdictDelivered
  <2>2. pc = "inspect" /\ FinishJob
    BY <1>13 DEF JobFails, VerdictDelivered
  <2>3. /\ Sound(health') /\ health'.state \in {"Ready", "Fault"}
        /\ health'.total = health.total + 1 /\ Eases(health, health')
    BY <2>1, <2>2, RecordResultHealthKeeps DEF EndJob
  <2> QED BY <1>2, <2>1, <2>2, <2>3 DEF EndJob, FinishJob, TypeOK
<1>14. CASE CaptureCompletes
  <2>1. /\ Sound(health') /\ health'.state = "Ready"
        /\ health'.total = health.total /\ Eases(health, health')
    BY <1>1, <1>16, <1>14 DEF CaptureCompletes
  <2> QED BY <1>2, <1>14, <2>1 DEF CaptureCompletes, TypeOK, FinishJob
<1>15. CASE Exit
  BY <1>2, <1>15 DEF Exit, TypeOK
<1> QED BY <1>4, <1>5, <1>6, <1>7, <1>8, <1>9, <1>10, <1>11, <1>12, <1>13, <1>14,
           <1>15 DEF Next

\* The invariant holds in every reachable state.
LEMMA HealthInvariant == Spec => []HealthInv
<1>1. Init => HealthInv
  <2>1. Created \in Snapshot /\ Created.total = 0
    BY CreatedSound DEF Sound, Created
  <2> QED BY <2>1, CreatedSound DEF Init, HealthInv, TypeOK
<1>2. HealthInv /\ [Next]_vars => HealthInv'
  BY StepHealth
<1> QED BY <1>1, <1>2, PTL DEF Spec

\* The health of a station keeps to its types, whatever fails and however often.
THEOREM HealthTypeCorrect == Spec => []TypeOK
<1>1. HealthInv => TypeOK
  BY DEF HealthInv
<1> QED BY <1>1, HealthInvariant, PTL

\* No recovery, wait or trigger hides a streak of rechecks, whatever the
\* thresholds of the configuration.
THEOREM AlarmsFollowStreaks == Spec => []AlarmFollowsStreak
<1>1. HealthInv => AlarmFollowsStreak
  BY DEF HealthInv, Sound, FollowsStreak, AlarmFollowsStreak
<1> QED BY <1>1, HealthInvariant, PTL

\* No alarm outlives its cause, and Fault always shows as Critical.
THEOREM AlarmsMatchStates == Spec => []AlarmMatchesState
<1>1. HealthInv => AlarmMatchesState
  BY DEF HealthInv, Sound, MatchesState, AlarmMatchesState
<1> QED BY <1>1, HealthInvariant, PTL

\* Every job is counted exactly once.
THEOREM JobsAreAccountedFor == Spec => []JobsAccounted
<1>1. HealthInv => JobsAccounted
  BY DEF HealthInv, Sound, Tallied, JobsAccounted
<1> QED BY <1>1, HealthInvariant, PTL

\* No alarm goes out on a job that failed.
THEOREM AlarmsEaseForAReason == Spec => AlarmEases
<1>1. HealthInv /\ [Next]_vars =>
        [Severity[health'.alarm] < Severity[health.alarm] =>
           \/ health'.streak = 0
           \/ /\ health'.alarm = "Warning"
              /\ health'.streak = health.streak + 1
              /\ health'.streak < CriticalThreshold]_vars
  BY StepHealth DEF Eases
<1> QED BY <1>1, HealthInvariant, PTL DEF Spec, AlarmEases

-----------------------------------------------------------------------------
(***************************************************************************)
(* What eventually happens.  The fairness of FairSpec, with the guard of   *)
(* EnterWait \/ Exit spelled out: ENABLED is beyond the prover.            *)
(***************************************************************************)
LoopGoesRound ==
  \/ pc \in {"ready", "loop"} /\ jobs < MaxJobs
  \/ pc = "loop" /\ jobs = MaxJobs

MainLoopRuns == []<>~LoopGoesRound \/ []<><<EnterWait \/ Exit>>_vars

\* The loop inspects as many seats as it was told to, and no more.
JobsWithinLimit ==
  /\ jobs <= MaxJobs
  /\ pc \in {"poll_manual", "wait_external", "inspect"} => jobs < MaxJobs

LEMMA JobsAreLimited == Spec => [](HealthInv /\ JobsWithinLimit)
<1>1. Init => JobsWithinLimit
  BY MaxJobsAssumption DEF Init, JobsWithinLimit
<1>2. HealthInv /\ JobsWithinLimit /\ [Next]_vars => JobsWithinLimit'
  <2> SUFFICES ASSUME HealthInv, JobsWithinLimit, [Next]_vars PROVE JobsWithinLimit'
    OBVIOUS
  <2>1. jobs \in Nat /\ MaxJobs \in Nat
    BY MaxJobsAssumption DEF HealthInv, TypeOK
  <2>2. CASE JobFails \/ CaptureCompletes \/ VerdictDelivered
    <3>1. pc = "inspect" /\ pc' = "loop" /\ jobs' = jobs + 1
      BY <2>2 DEF JobFails, CaptureCompletes, VerdictDelivered, FinishJob
    <3> QED BY <2>1, <3>1 DEF JobsWithinLimit
  <2>3. CASE EnterWait
    BY <2>3 DEF EnterWait, JobsWithinLimit
  <2>4. CASE NoManualTrigger \/ AcceptTrigger
    BY <2>4 DEF NoManualTrigger, AcceptTrigger, JobsWithinLimit
  <2>5. CASE \/ Initialize \/ InitializeFails \/ CleanUp
             \/ IdleWait \/ TriggerWaitFails \/ Exit
    <3>1. jobs' = jobs /\ pc' \in {"ready", "loop", "exited"}
      BY <2>5 DEF Initialize, InitializeFails, CleanUp, IdleWait, TriggerWaitFails, Exit
    <3> QED BY <3>1 DEF JobsWithinLimit
  <2>6. CASE UNCHANGED vars
    BY <2>6 DEF vars, JobsWithinLimit
  <2> QED BY <2>2, <2>3, <2>4, <2>5, <2>6 DEF Next
<1> QED BY <1>1, <1>2, HealthInvariant, PTL DEF Spec

\* The controller recovers by itself from every fault that does not end it,
\* a failed trigger as well as a failed job: the next round of its loop, or
\* the end of the program, is always open to it
\* (cpp_controller/README.md, on the recovery from a failed trigger).
THEOREM FaultsRecover == Spec /\ MainLoopRuns => FaultRecovers
<1> DEFINE Fault == health.state = "Fault"
           Over == health.state # "Fault" \/ pc = "exited"
           Round == EnterWait \/ Exit
           Inv == HealthInv /\ JobsWithinLimit
<1>1. Inv /\ Fault => Over \/ LoopGoesRound
  <2> SUFFICES ASSUME Inv, Fault, ~Over PROVE LoopGoesRound
    OBVIOUS
  <2>1. pc = "loop"
    <3>1. Created.state # "Fault"
      BY DEF Created
    <3>2. /\ pc \in {"start", "ready", "poll_manual", "wait_external", "loop", "inspect"}
          /\ pc = "start" => health = Created
          /\ pc \in {"ready", "poll_manual", "wait_external"} => health.state = "Ready"
          /\ pc = "inspect" => health.state = "Running"
      BY DEF HealthInv, TypeOK
    <3> HIDE DEF Inv
    <3> QED BY <3>1, <3>2
  <2>2. jobs \in Nat /\ jobs <= MaxJobs /\ MaxJobs \in Nat
    BY MaxJobsAssumption DEF HealthInv, TypeOK, JobsWithinLimit
  <2> QED BY <2>1, <2>2 DEF LoopGoesRound
<1>2. Inv /\ <<Round>>_vars => Over'
  <2> SUFFICES ASSUME Inv, Round PROVE Over'
    OBVIOUS
  <2>1. CASE EnterWait
    <3>1. health \in Snapshot
      BY DEF HealthInv, TypeOK
    <3>2. CASE Fault
      BY <2>1, <3>1, <3>2 DEF EnterWait, Transition, Snapshot
    <3>3. CASE ~Fault
      BY <2>1, <3>3 DEF EnterWait
    <3> QED BY <3>2, <3>3
  <2>2. CASE Exit
    BY <2>2 DEF Exit
  <2> QED BY <2>1, <2>2
<1>3. Fault \/ Over
  OBVIOUS
<1>4. Spec => []Inv
  BY JobsAreLimited, PTL
<1>5. MainLoopRuns => []<>~LoopGoesRound \/ []<><<Round>>_vars
  BY PTL DEF MainLoopRuns
<1> HIDE DEF Fault, Over, Round, Inv
<1>6. Spec /\ MainLoopRuns => (Fault ~> Over)
  BY <1>1, <1>2, <1>3, <1>4, <1>5, PTL DEF Spec
<1> QED BY <1>6, PTL DEF FaultRecovers, Fault, Over
=============================================================================
