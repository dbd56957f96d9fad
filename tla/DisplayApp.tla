----------------------------- MODULE DisplayApp -----------------------------
(***************************************************************************)
(* The display application over the files of DisplayChannel.  A timer      *)
(* polls: the new lines of display_events.jsonl, then, if there was none,  *)
(* display_latest.json.  Every result reaches the display by two files, at *)
(* two times, twice in the second one; it must count and alarm once.  The  *)
(* detector and the controller go on between any two steps of a poll, the  *)
(* rest of the user interface does not.                                    *)
(*                                                                         *)
(* A manual trigger goes to the controller from a thread of its own; its   *)
(* end and the seat's result come back on different ways.  Of a serial     *)
(* number remains which trigger it was made for: it is a time stamp.       *)
(***************************************************************************)
EXTENDS DisplayChannel

CONSTANTS
    LineLimit,   \* limit of read_detection_events
    MaxTriggers, \* bound: manual triggers
    MaxRestarts  \* bound: restarts of the display

ASSUME DisplayAssumption ==
    /\ LineLimit \in Nat \ {0}
    /\ MaxTriggers \in Nat /\ MaxRestarts \in Nat

VARIABLES
    task,        \* what the timer's handler has still to do
    batch,       \* the lines it read and has not processed
    offset,      \* how many lines of display_events.jsonl were read
    session,     \* the first job whose time stamp counts as this session's
    seen,        \* _seen_detection_events
    shown,       \* the result on the screen, and the image signature
    counts,      \* DisplayStats: how many results of each verdict
    journal,     \* the log records of display_operator_events.jsonl
    opened,      \* its length when the session began
    skipped,     \* the lines that were there when the session began
    alarm,       \* the result in the NG overlay, or NoJob
    trigger,     \* the manual trigger: stage, serial number, start of wait
    answer,      \* how the trigger's thread ended, until the signal is handled
    queued,      \* triggers that reached the controller and have no seat yet
    submitted,   \* how many triggers were submitted
    restarts     \* how many times the display was restarted

pollVars == <<task, batch, offset>>
sessionVars == <<session, opened, skipped, restarts>>
resultVars == <<seen, shown, counts, journal, alarm>>
triggerVars == <<trigger, answer, queued, submitted>>
displayVars == <<pollVars, sessionVars, resultVars, triggerVars>>
vars == <<channelVars, displayVars>>

NoSn == 0
Sns == 1 .. MaxTriggers
IdleTrigger == [stage |-> "idle", sn |-> NoSn, since |-> NoJob]

(* The key of the event on the screen and its image signature.             *)
Display(j, image) == [job |-> j, images |-> image]
NothingShown == Display(NoJob, NoJob)

Tasks == {"none", "lines", "latest", "ticks"}

(* What was logged in this session.                                        *)
Logged == SubSeq(journal, opened + 1, Len(journal))
Counted == {Logged[i] : i \in DOMAIN Logged}

(* The newest time stamp the detector has given.                           *)
LastStamp == IF events = <<>> THEN NoJob ELSE events[Len(events)]

DisplayTypeOK ==
    /\ task \in Tasks
    /\ batch \in Seq(Jobs)
    /\ task # "lines" => batch = <<>>
    /\ offset \in 0 .. Len(events)
    /\ session \in 1 .. MaxJobs + 1
    /\ seen \subseteq Jobs
    /\ shown \in [job: Jobs \cup {NoJob}, images: Jobs \cup {NoJob}]
    /\ counts \in [Verdicts -> Nat]
    /\ journal \in Seq(Jobs)
    /\ opened \in 0 .. Len(journal)
    /\ skipped \in 0 .. offset
    /\ alarm \in Jobs \cup {NoJob}
    /\ trigger \in [stage: {"idle", "submitting", "waiting_result"},
                    sn: Sns \cup {NoSn}, since: Jobs \cup {NoJob}]
    /\ answer \in {"none", "submitted", "failed"}
    /\ answer # "none" => trigger.stage = "submitting"
    /\ queued \subseteq Sns
    /\ submitted \in 0 .. MaxTriggers
    /\ restarts \in 0 .. MaxRestarts

TypeOK == ChannelTypeOK /\ DisplayTypeOK

DisplayInit ==
    /\ task = "none"
    /\ batch = <<>>
    /\ offset = 0
    /\ session = 1
    /\ seen = {}
    /\ shown = NothingShown
    /\ counts = [v \in Verdicts |-> 0]
    /\ journal = <<>>
    /\ opened = 0
    /\ skipped = 0
    /\ alarm = NoJob
    /\ trigger = IdleTrigger
    /\ answer = "none"
    /\ queued = {}
    /\ submitted = 0
    /\ restarts = 0

Init == ChannelInit /\ DisplayInit

-----------------------------------------------------------------------------
(* The handling of one result.                                             *)

IsCurrent(j) == j >= session
RecordUnlessShown(j) == j # shown.job /\ IsCurrent(j)
ShouldRecord(j) == j \notin seen /\ IsCurrent(j)

(* _record_stats and _append_detection_log.                                *)
Record(j) ==
    /\ counts' = [counts EXCEPT ![results[j].verdict] = @ + 1]
    /\ journal' = Append(journal, j)

(* _show_ng_overlay replaces whatever the overlay shows.                   *)
Alarm(j) ==
    alarm' = IF results[j].verdict = "NG" THEN j ELSE alarm

(* _complete_manual_trigger_wait: a result stamped after the wait began,   *)
(* for the serial number that waits.                                       *)
AfterSubmit(j) == j > trigger.since
MatchesAnySeat(j) == TRUE
MatchesSn(j) == results[j].seat = trigger.sn
CompleteManualTriggerWait(j) ==
    trigger' = IF /\ trigger.stage = "waiting_result"
                  /\ AfterSubmit(j)
                  /\ MatchesSn(j)
               THEN IdleTrigger
               ELSE trigger

(* Every NG opens the overlay, recorded or not.                            *)
ApplyEventAlarming(j, record) ==
    /\ IF record THEN Record(j) ELSE UNCHANGED <<counts, journal>>
    /\ Alarm(j)
    /\ CompleteManualTriggerWait(j)

(* _apply_event, with should_record = allow_operator_actions.              *)
ApplyEvent(j, record) ==
    /\ IF record
       THEN Record(j) /\ Alarm(j)
       ELSE UNCHANGED <<counts, journal, alarm>>
    /\ CompleteManualTriggerWait(j)

(* _process_detection_event for a result that is not the one on the        *)
(* screen, or that comes from the lines.                                   *)
ShowEvent(j, image, fromLatest) ==
    /\ seen' = IF ~fromLatest \/ IsCurrent(j) THEN seen \cup {j} ELSE seen
    /\ shown' = Display(j, image)
    /\ ApplyEvent(j, ShouldRecord(j))

(* The same result again from display_latest.json: only its images can be  *)
(* new.                                                                    *)
RefreshImages(j, image) ==
    /\ UNCHANGED seen
    /\ IF image = shown.images
       THEN UNCHANGED <<shown, counts, journal, alarm, trigger>>
       ELSE /\ shown' = [shown EXCEPT !.images = image]
            /\ ApplyEvent(j, FALSE)

-----------------------------------------------------------------------------
(* The timer: refreshTriggerState.                                         *)

(* The first lines instead of the last ones.                               *)
FirstLines(lines) ==
    IF Len(lines) <= LineLimit THEN lines ELSE SubSeq(lines, 1, LineLimit)

(* read_detection_events keeps the last lines only.                        *)
LastLines(lines) ==
    IF Len(lines) <= LineLimit
    THEN lines
    ELSE SubSeq(lines, Len(lines) - LineLimit + 1, Len(lines))

(* The start of pollLatest; the controller's events, read before, only go  *)
(* to the log and the status line.                                         *)
ReadNewEvents ==
    /\ task = "none"
    /\ batch' = LastLines(SubSeq(events, offset + 1, Len(events)))
    /\ offset' = Len(events)
    /\ task' = IF batch' = <<>> THEN "latest" ELSE "lines"
    /\ UNCHANGED <<channelVars, sessionVars, resultVars, triggerVars>>

ProcessNextEvent ==
    /\ task = "lines"
    /\ ShowEvent(Head(batch), NoJob, FALSE)
    /\ batch' = Tail(batch)
    /\ task' = IF batch' = <<>> THEN "ticks" ELSE "lines"
    /\ UNCHANGED <<channelVars, sessionVars, offset, answer, queued,
                   submitted>>

ReadLatest ==
    /\ task = "latest"
    /\ \/ /\ latest.job = NoJob
          /\ UNCHANGED <<seen, shown, counts, journal, alarm, trigger>>
       \/ /\ latest.job # NoJob /\ latest.job = shown.job
          /\ RefreshImages(latest.job, latest.images)
       \/ /\ latest.job # NoJob /\ latest.job # shown.job
          /\ ShowEvent(latest.job, latest.images, TRUE)
    /\ task' = "ticks"
    /\ UNCHANGED <<channelVars, sessionVars, batch, offset, answer, queued,
                   submitted>>

(* _tick_manual_trigger_wait and _tick_ng_countdown; whether the 30 s of   *)
(* either are over is for the clock to say.                                *)
Tick(waitOver, countdownOver) ==
    /\ task = "ticks"
    /\ waitOver => trigger.stage = "waiting_result"
    /\ countdownOver => alarm # NoJob
    /\ trigger' = IF waitOver THEN IdleTrigger ELSE trigger
    /\ alarm' = IF countdownOver THEN NoJob ELSE alarm
    /\ task' = "none"
    /\ UNCHANGED <<channelVars, sessionVars, batch, offset, seen, shown,
                   counts, journal, answer, queued, submitted>>

-----------------------------------------------------------------------------
(* The operator.                                                           *)

(* acknowledgeNG, dismissFalseAlarm and the overlay's part of markReview.  *)
HideNgOverlay ==
    /\ task = "none"
    /\ alarm # NoJob
    /\ alarm' = NoJob
    /\ UNCHANGED <<channelVars, pollVars, sessionVars, triggerVars, seen,
                   shown, counts, journal>>

(* manualTrigger: a second one is refused while the first is pending.      *)
ManualTrigger ==
    /\ task = "none"
    /\ trigger.stage = "idle"
    /\ submitted < MaxTriggers
    /\ submitted' = submitted + 1
    /\ trigger' = [stage |-> "submitting", sn |-> submitted + 1,
                   since |-> NoJob]
    /\ UNCHANGED <<channelVars, pollVars, sessionVars, resultVars, answer,
                   queued>>

(* ManualTriggerClient.trigger: both commands acknowledged; or a failure   *)
(* on the way, after which the controller may have the serial number or    *)
(* not.  Every read of the socket ends at its deadline.                    *)
ExchangeWithController(acknowledged, delivered) ==
    /\ trigger.stage = "submitting"
    /\ answer = "none"
    /\ acknowledged => delivered
    /\ answer' = IF acknowledged THEN "submitted" ELSE "failed"
    /\ queued' = IF delivered THEN queued \cup {trigger.sn} ELSE queued
    /\ UNCHANGED <<channelVars, pollVars, sessionVars, resultVars, trigger,
                   submitted>>

(* The signal stays in the queue.                                          *)
FinishManualTriggerTwice ==
    /\ task = "none"
    /\ answer # "none"
    /\ trigger' = IF answer = "submitted"
                  THEN [trigger EXCEPT !.stage = "waiting_result",
                                       !.since = LastStamp]
                  ELSE IdleTrigger
    /\ UNCHANGED <<channelVars, pollVars, sessionVars, resultVars, answer,
                   queued, submitted>>

(* A failed trigger stays pending.                                         *)
FinishManualTriggerPending ==
    /\ task = "none"
    /\ answer # "none"
    /\ answer' = "none"
    /\ trigger' = [trigger EXCEPT
                     !.stage = IF answer = "submitted" THEN "waiting_result"
                                                       ELSE "submitting",
                     !.since = LastStamp]
    /\ UNCHANGED <<channelVars, pollVars, sessionVars, resultVars, queued,
                   submitted>>

(* _finishManualTrigger: the signal of the thread, in the event loop.      *)
FinishManualTrigger ==
    /\ task = "none"
    /\ answer # "none"
    /\ answer' = "none"
    /\ trigger' = IF answer = "submitted"
                  THEN [trigger EXCEPT !.stage = "waiting_result",
                                       !.since = LastStamp]
                  ELSE IdleTrigger
    /\ UNCHANGED <<channelVars, pollVars, sessionVars, resultVars, queued,
                   submitted>>

-----------------------------------------------------------------------------
(* The controller: a job for a queued serial number, or for another seat;  *)
(* a trigger may also end without a job for the detector.                  *)
TakeJob ==
    /\ \E v \in Verdicts, seat \in queued \cup {NoSn} :
          /\ JudgeJob(v, seat)
          /\ queued' = queued \ {seat}
    /\ UNCHANGED <<pollVars, sessionVars, resultVars, trigger, answer,
                   submitted>>

(* The display is closed and started again.  It skips what is in the files *)
(* and counts from zero; a result of the last two seconds still counts as  *)
(* this session's.  What it has seen comes from its journal, where such a  *)
(* result may be forgotten: its time stamp went through a float.           *)
Restart ==
    /\ restarts < MaxRestarts
    /\ restarts' = restarts + 1
    /\ session' \in 1 .. LastStamp + 1
    /\ \E forgotten \in SUBSET (session' .. LastStamp) :
          seen' = {journal[i] : i \in DOMAIN journal} \ forgotten
    /\ opened' = Len(journal)
    /\ offset' = Len(events)
    /\ skipped' = Len(events)
    /\ task' = "none"
    /\ batch' = <<>>
    /\ shown' = NothingShown
    /\ counts' = [v \in Verdicts |-> 0]
    /\ alarm' = NoJob
    /\ trigger' = IdleTrigger
    /\ answer' = "none"
    /\ UNCHANGED <<channelVars, journal, queued, submitted>>

DetectorGoesOn == DetectorStep /\ UNCHANGED displayVars

Next ==
    \/ DetectorGoesOn
    \/ TakeJob \/ Restart
    \/ ReadNewEvents \/ ProcessNextEvent \/ ReadLatest
    \/ \E waitOver, countdownOver \in BOOLEAN : Tick(waitOver, countdownOver)
    \/ HideNgOverlay \/ ManualTrigger \/ FinishManualTrigger
    \/ \E acknowledged, delivered \in BOOLEAN :
          ExchangeWithController(acknowledged, delivered)

(* The event loop runs the timer's handler; it takes the signal of the     *)
(* trigger's thread between two of its runs, since signals are queued;     *)
(* that thread ends by its socket's deadlines; and among the ticks of a    *)
(* wait that lasts there is one after its 30 s.                            *)
Fairness ==
    /\ WF_vars(ReadNewEvents)
    /\ WF_vars(ProcessNextEvent)
    /\ WF_vars(ReadLatest)
    /\ WF_vars(\E waitOver, countdownOver \in BOOLEAN :
                  Tick(waitOver, countdownOver))
    /\ SF_vars(\E countdownOver \in BOOLEAN : Tick(TRUE, countdownOver))
    /\ SF_vars(FinishManualTrigger)
    /\ WF_vars(\E acknowledged, delivered \in BOOLEAN :
                  ExchangeWithController(acknowledged, delivered))

Spec == Init /\ [][Next]_vars
FairSpec == Spec /\ Fairness

-----------------------------------------------------------------------------
(* The statistics of a session count each of its results once, whichever   *)
(* files brought it, however often, in whatever order, and whatever an     *)
(* earlier session counted or forgot (main_viewmodel.py 480-510, 608-654). *)
CountedOnce ==
    \A v \in Verdicts :
       counts[v] = Cardinality({j \in Counted : results[j].verdict = v})

(* The NG overlay opens only for an NG of this session, in the step that   *)
(* counts it, so never a second time: not when its images arrive, not when *)
(* display_latest.json goes back to it, not for what a restart finds       *)
(* (main_viewmodel.py 586-588).                                            *)
AlarmsOnce ==
    [][alarm' \notin {NoJob, alarm}
         => /\ results[alarm'].verdict = "NG"
            /\ alarm' >= session
            /\ alarm' \in Counted' \ Counted]_vars

(* What the screen and the overlay show, the controller was given: a       *)
(* verdict that could not be published reaches neither file                *)
(* (detector_main.py 187-206).                                             *)
ShownWasPublished == {shown.job, alarm} \ {NoJob} \subseteq published

(* A result is never shown with the images of another seat, which lie in   *)
(* the frame slot by the time the trace is written: the snapshot was taken *)
(* before the slot was given back (detector_main.py 187-215, 279-302).     *)
ImagesOwn ==
    /\ latest.images \in {NoJob, latest.job}
    /\ shown.images \in {NoJob, shown.job}

(* A trigger stops waiting for its seat's result only by that result, or   *)
(* by its timeout; and then no result of its seat that was stamped since   *)
(* the wait began has been counted (main_viewmodel.py 775-813).            *)
TriggerEndsForAReason ==
    [][trigger.stage = "waiting_result" /\ trigger' # trigger
         => \/ restarts' # restarts
            \/ /\ shown'.job # NoJob
               /\ results[shown'.job].seat = trigger.sn
            \/ /\ task = "ticks"
               /\ \A j \in Counted :
                     results[j].seat = trigger.sn => j <= trigger.since]_vars

(* A line that is appended while the display runs is counted, unless the   *)
(* display is restarted or more lines than it reads at once have come      *)
(* after it (display_bridge.py 144-168, main_viewmodel.py 312-319).        *)
EventRecorded ==
    \A i \in 1 .. MaxJobs :
       (offset < i /\ i <= Len(events))
         ~> \/ i <= skipped
            \/ Len(events) >= i + LineLimit
            \/ i <= Len(events) /\ events[i] \in Counted

(* The trigger's button comes back, whatever happens to the connection,    *)
(* the job and its result (main_viewmodel.py 379-443, 775-813).            *)
TriggerEnds == trigger.stage # "idle" ~> trigger.stage = "idle"
=============================================================================
