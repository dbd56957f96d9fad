-------------------------- MODULE DisplayAppProofs --------------------------
(***************************************************************************)
(* Theorems about the display over the files of the detector, for any      *)
(* number of results, triggers and restarts, any verdicts and any limit of *)
(* lines.                                                                  *)
(***************************************************************************)
EXTENDS DisplayApp, TLAPS, SequenceTheorems, FiniteSetTheorems

Judgements == [verdict: Verdicts, seat: Nat]

\* The results that were appended.
Recorded == {events[i] : i \in 1 .. Len(events)}

-----------------------------------------------------------------------------
(***************************************************************************)
(* The detector's side.                                                    *)
(***************************************************************************)

\* Results are appended in the order of their jobs, after they were published;
\* display_latest.json and the trace threads hold results that were appended,
\* with their own images.
ChannelInv ==
  /\ results \in Seq(Judgements) /\ Len(results) <= MaxJobs /\ job = Len(results)
  /\ stage \in Stages /\ (stage # "waiting" => job \in Jobs)
  /\ snapshot \in {NoJob, job}
  /\ published \subseteq 1 .. job
  /\ events \in Seq(published)
  /\ \A i, k \in 1 .. Len(events) : i < k => events[i] < events[k]
  /\ stage \in {"judged", "published"} => \A i \in 1 .. Len(events) : events[i] < job
  /\ stage = "published" => job \in published
  /\ stage = "appended" => job \in Recorded
  /\ latest \in [job: Nat, images: Nat]
  /\ latest.job \in Recorded \cup {NoJob} /\ latest.images \in {NoJob, latest.job}
  /\ completions \subseteq Completions
  /\ \A c \in completions : c.job \in Recorded /\ c.images = c.job

\* What a step of the detector leaves as it was.
ChannelGrows ==
  /\ Len(results) <= Len(results')
  /\ \A j \in 1 .. Len(results) : results'[j] = results[j]
  /\ Len(events) <= Len(events')
  /\ \A i \in 1 .. Len(events) : events'[i] = events[i]
  /\ published \subseteq published'

LEMMA RecordedPublished ==
  ASSUME ChannelInv
  PROVE  /\ Recorded \subseteq published /\ Recorded \subseteq Jobs
         /\ IsFiniteSet(Recorded)
         /\ Len(events) \in Nat /\ Len(results) \in Nat /\ job \in Nat
         /\ \A i \in 1 .. Len(events) : events[i] \in 1 .. job
<1>1. Len(results) \in Nat /\ job \in Nat /\ Len(events) \in Nat
  BY LenProperties DEF ChannelInv
<1>2. \A i \in 1 .. Len(events) : events[i] \in published
  BY ElementOfSeq DEF ChannelInv
<1>3. 1 .. job \subseteq Jobs
  BY <1>1, ChannelAssumption DEF ChannelInv, Jobs
<1>4. Recorded \subseteq 1 .. job
  BY <1>2 DEF ChannelInv, Recorded
<1>5. IsFiniteSet(1 .. job)
  BY <1>1, FS_Interval
<1> QED BY <1>1, <1>2, <1>3, <1>4, <1>5, FS_Subset DEF ChannelInv, Recorded

LEMMA ChannelTyped == ChannelInv => ChannelTypeOK
<1> SUFFICES ASSUME ChannelInv PROVE ChannelTypeOK
  OBVIOUS
<1>1. Len(results) \in 0 .. MaxJobs
  BY RecordedPublished, ChannelAssumption DEF ChannelInv
<1>2. results \in [1 .. Len(results) -> Judgements]
  BY LenProperties DEF ChannelInv
<1>3. events \in Seq(1 .. Len(results))
  BY SeqMonotonic DEF ChannelInv
<1>4. /\ snapshot \in 0 .. Len(results) /\ job \in 0 .. Len(results)
      /\ latest \in [job: 0 .. Len(results), images: 0 .. Len(results)]
  <2>1. Recorded \cup {NoJob} \subseteq 0 .. Len(results)
    BY RecordedPublished DEF ChannelInv, NoJob, Recorded
  <2> QED BY <1>1, <2>1 DEF ChannelInv, NoJob
<1> QED BY <1>1, <1>2, <1>3, <1>4 DEF ChannelInv, ChannelTypeOK, Judgements

LEMMA ChannelInitInv == ChannelInit => ChannelInv
BY EmptySeq, ChannelAssumption
   DEF ChannelInit, ChannelInv, Recorded, Stages, NoLatest, LatestFile, NoJob, Jobs

\* A new verdict is the newest one.
LEMMA JudgeJobKeeps ==
  ASSUME ChannelInv, NEW v \in Verdicts, NEW seat \in Nat, JudgeJob(v, seat)
  PROVE  ChannelInv' /\ ChannelGrows
<1> DEFINE r == [verdict |-> v, seat |-> seat]
<1>1. /\ results' = Append(results, r) /\ job' = job + 1 /\ stage' = "judged"
      /\ snapshot' = Snapshot(job', v) /\ Len(results) < MaxJobs
      /\ UNCHANGED <<published, events, latest, completions>>
  BY DEF JudgeJob
<1>2. r \in Judgements
  BY DEF Judgements
<1>3. /\ results' \in Seq(Judgements) /\ Len(results') = Len(results) + 1
      /\ \A j \in 1 .. Len(results) : results'[j] = results[j]
  BY <1>1, <1>2, AppendProperties DEF ChannelInv
<1>4. job' = Len(results') /\ Len(results') <= MaxJobs /\ job' \in Jobs
  BY <1>1, <1>3, RecordedPublished, ChannelAssumption DEF ChannelInv, Jobs
<1>5. snapshot' \in {NoJob, job'}
  BY <1>1 DEF Snapshot
<1>6. /\ published' \subseteq 1 .. job'
      /\ \A i \in 1 .. Len(events) : events[i] < job'
  BY <1>1, RecordedPublished DEF ChannelInv
<1>7. Recorded' = Recorded
  BY <1>1 DEF Recorded
<1>8. ChannelGrows
  BY <1>1, <1>3, RecordedPublished DEF ChannelGrows
<1> QED BY <1>1, <1>3, <1>4, <1>5, <1>6, <1>7, <1>8 DEF ChannelInv, Stages

\* The steps that append no line and judge no job.
LEMMA UnrecordedKeeps ==
  ASSUME ChannelInv, UNCHANGED <<results, job, events>>,
         published \subseteq published', published' \subseteq published \cup {job},
         stage' \in Stages, stage' = "judged" => stage = "judged",
         stage' = "published" => stage = "published" \/ (stage = "judged" /\ job \in published'),
         stage' = "appended" => stage = "appended",
         stage' # "waiting" => stage # "waiting", stage = "waiting" => published' = published,
         snapshot' \in {NoJob, snapshot},
         latest' \in [job: Nat, images: Nat],
         latest'.job \in Recorded \cup {NoJob}, latest'.images \in {NoJob, latest'.job},
         completions' \subseteq Completions,
         \A c \in completions' : c.job \in Recorded /\ c.images = c.job
  PROVE  ChannelInv' /\ ChannelGrows
<1>1. Recorded' = Recorded
  BY DEF Recorded
<1>2. published' \subseteq 1 .. job'
  BY RecordedPublished DEF ChannelInv, Jobs
<1>3. events' \in Seq(published')
  BY SeqMonotonic DEF ChannelInv
<1>4. ChannelGrows
  BY RecordedPublished DEF ChannelGrows
<1> QED BY <1>1, <1>2, <1>3, <1>4 DEF ChannelInv

LEMMA AppendEventKeeps ==
  ASSUME ChannelInv, AppendEvent
  PROVE  ChannelInv' /\ ChannelGrows
<1>1. /\ stage = "published" /\ events' = Append(events, job) /\ stage' = "appended"
      /\ UNCHANGED <<results, job, snapshot, published, latest, completions>>
      /\ job \in published
  BY DEF AppendEvent, ChannelInv
<1>2. /\ events' \in Seq(published) /\ Len(events') = Len(events) + 1
      /\ \A i \in 1 .. Len(events) : events'[i] = events[i]
      /\ events'[Len(events) + 1] = job
  BY <1>1, AppendProperties DEF ChannelInv
<1>3. Recorded' = Recorded \cup {job}
  <2>1. 1 .. Len(events') = 1 .. Len(events) \cup {Len(events) + 1}
    BY <1>2, RecordedPublished
  <2> QED BY <1>2, <2>1, RecordedPublished DEF Recorded
<1>4. ASSUME NEW i \in 1 .. Len(events'), NEW k \in 1 .. Len(events'), i < k
      PROVE  events'[i] < events'[k]
  <2>1. i \in 1 .. Len(events)
    BY <1>2, <1>4, RecordedPublished
  <2>2. CASE k \in 1 .. Len(events)
    BY <1>2, <1>4, <2>1, <2>2 DEF ChannelInv
  <2>3. CASE k = Len(events) + 1
    BY <1>1, <1>2, <2>1, <2>3 DEF ChannelInv
  <2> QED BY <1>2, <2>2, <2>3, RecordedPublished
<1>5. ChannelGrows
  BY <1>1, <1>2, RecordedPublished DEF ChannelGrows
<1> QED BY <1>1, <1>2, <1>3, <1>4, <1>5 DEF ChannelInv, Stages

LEMMA DetectorStepKeeps ==
  ASSUME ChannelInv, DetectorStep
  PROVE  ChannelInv' /\ ChannelGrows
<1>1. /\ latest \in [job: Nat, images: Nat]
      /\ latest.job \in Recorded \cup {NoJob} /\ latest.images \in {NoJob, latest.job}
      /\ completions \subseteq Completions
      /\ \A c \in completions : c.job \in Recorded /\ c.images = c.job
      /\ job \in Nat /\ NoJob \in Nat /\ Recorded \subseteq Nat
  BY RecordedPublished DEF ChannelInv, NoJob, Jobs
<1>2. CASE PublishResult
  BY <1>1, <1>2, UnrecordedKeeps DEF PublishResult, Stages
<1>3. CASE PublishFails
  BY <1>1, <1>3, UnrecordedKeeps DEF PublishFails, Stages
<1>4. CASE AppendEvent
  BY <1>4, AppendEventKeeps
<1>5. CASE ReplaceLatest
  <2>1. /\ stage = "appended" /\ job \in Recorded /\ job \in Jobs
        /\ latest' = [job |-> job, images |-> NoJob]
        /\ stage' = "waiting" /\ snapshot' = NoJob
        /\ UNCHANGED <<results, job, published, events>>
    BY <1>5 DEF ReplaceLatest, LatestFile, ChannelInv
  <2>2. ASSUME NEW c \in completions'
        PROVE  c \in Completions /\ c.job \in Recorded /\ c.images = c.job
    <3>1. CASE c \in completions
      BY <3>1, <1>1
    <3>2. CASE c = [job |-> job, images |-> snapshot, step |-> "images"] /\ snapshot # NoJob
      BY <3>2, <2>1 DEF ChannelInv, Completions
    <3> QED BY <1>5, <3>1, <3>2 DEF ReplaceLatest
  <2>3. completions' \subseteq Completions
    BY <2>2
  <2> QED BY <1>1, <2>1, <2>2, <2>3, UnrecordedKeeps DEF Stages
<1>6. CASE DisplayWriteFails
  BY <1>1, <1>6, UnrecordedKeeps DEF DisplayWriteFails, Stages
<1>7. ASSUME NEW c \in completions,
             CompleteTrace(c) \/ CompletionFails(c) \/ CheckLatest(c) \/ RefreshLatest(c)
      PROVE  ChannelInv' /\ ChannelGrows
  <2>1. /\ UNCHANGED <<results, job, stage, snapshot, published, events>>
        /\ c.job \in Recorded /\ c.images = c.job /\ c \in Completions
    BY <1>1, <1>7 DEF CompleteTrace, CompletionFails, CheckLatest, RefreshLatest
  <2>2. latest' = latest \/ latest' = [job |-> c.job, images |-> c.images]
    BY <1>7 DEF CompleteTrace, CompletionFails, CheckLatest, RefreshLatest, LatestFile
  <2>3. \/ completions' = completions \ {c}
        \/ \E step \in {"check", "replace"} :
             completions' = (completions \ {c}) \cup {[c EXCEPT !.step = step]}
    <3>1. CASE CompleteTrace(c)
      <4>1. [c EXCEPT !.step = "check", !.images = WrittenImages(c)] = [c EXCEPT !.step = "check"]
        BY <2>1 DEF WrittenImages, Completions
      <4> QED BY <3>1, <4>1 DEF CompleteTrace, Becomes
    <3>2. CASE CheckLatest(c)
      BY <3>2 DEF CheckLatest, Becomes, Leaves
    <3>3. CASE CompletionFails(c) \/ RefreshLatest(c)
      BY <3>3 DEF CompletionFails, RefreshLatest, Leaves
    <3> QED BY <1>7, <3>1, <3>2, <3>3
  <2>4. ASSUME NEW step \in {"check", "replace"}
        PROVE  LET d == [c EXCEPT !.step = step]
               IN  d \in Completions /\ d.job = c.job /\ d.images = c.images
    BY <2>1 DEF Completions
  <2>5. /\ completions' \subseteq Completions
        /\ \A d \in completions' : d.job \in Recorded /\ d.images = d.job
    BY <1>1, <2>1, <2>3, <2>4
  <2>6. /\ latest' \in [job: Nat, images: Nat]
        /\ latest'.job \in Recorded \cup {NoJob} /\ latest'.images \in {NoJob, latest'.job}
    <3>1. CASE latest' = latest
      BY <1>1, <3>1
    <3>2. CASE latest' = [job |-> c.job, images |-> c.images]
      <4>1. c.job \in Nat /\ c.images = c.job
        BY <1>1, <2>1
      <4> QED BY <2>1, <3>2, <4>1
    <3> QED BY <2>2, <3>1, <3>2
  <2>7. stage' \in Stages
    BY <2>1 DEF ChannelInv
  <2> QED BY <2>1, <2>5, <2>6, <2>7, UnrecordedKeeps
<1> QED BY <1>2, <1>3, <1>4, <1>5, <1>6, <1>7 DEF DetectorStep

-----------------------------------------------------------------------------
(***************************************************************************)
(* The display's side.                                                     *)
(***************************************************************************)

\* What was read and not yet processed was appended.
PollInv ==
  /\ task \in Tasks /\ batch \in Seq(Recorded) /\ (task = "lines" <=> batch # <<>>)
  /\ offset \in 0 .. Len(events)

SessionInv ==
  session \in 1 .. MaxJobs + 1 /\ skipped \in 0 .. offset /\ restarts \in 0 .. MaxRestarts

\* Whatever was counted in this session was appended and is remembered as seen.
ResultInv ==
  /\ seen \subseteq Jobs
  /\ shown \in [job: Nat, images: Nat]
  /\ shown.job \in Recorded \cup {NoJob} /\ shown.images \in {NoJob, shown.job}
  /\ counts \in [Verdicts -> Nat]
  /\ journal \in Seq(Jobs) /\ opened \in 0 .. Len(journal)
  /\ alarm \in Recorded \cup {NoJob}
  /\ Counted \subseteq Recorded /\ Counted \subseteq seen
  /\ CountedOnce

\* While a trigger waits, no later result of its seat was counted.
TriggerInv ==
  /\ trigger \in [stage: {"idle", "submitting", "waiting_result"},
                  sn: Sns \cup {NoSn}, since: Jobs \cup {NoJob}]
  /\ trigger.stage = "submitting" => trigger.sn \in Sns
  /\ trigger.stage = "waiting_result" =>
       \A j \in Counted : results[j].seat = trigger.sn => j <= trigger.since
  /\ answer \in {"none", "submitted", "failed"}
  /\ answer # "none" => trigger.stage = "submitting"
  /\ queued \subseteq Sns /\ submitted \in 0 .. MaxTriggers

DisplayInv == PollInv /\ SessionInv /\ ResultInv /\ TriggerInv

\* The bodies of the action properties.
AlarmStep ==
  alarm' \notin {NoJob, alarm}
    => /\ results[alarm'].verdict = "NG"
       /\ alarm' >= session
       /\ alarm' \in Counted' \ Counted

TriggerStep ==
  trigger.stage = "waiting_result" /\ trigger' # trigger
    => \/ restarts' # restarts
       \/ shown'.job # NoJob /\ results[shown'.job].seat = trigger.sn
       \/ /\ task = "ticks"
          /\ \A j \in Counted : results[j].seat = trigger.sn => j <= trigger.since

LEMMA CountedIs ==
  ASSUME NEW log \in Seq(Jobs), NEW start \in 0 .. Len(log)
  PROVE  LET L == SubSeq(log, start + 1, Len(log))
         IN  {L[i] : i \in DOMAIN L} = {log[i] : i \in start + 1 .. Len(log)}
<1> DEFINE L == SubSeq(log, start + 1, Len(log))
<1>1. Len(log) \in Nat /\ start \in Nat
  BY LenProperties
<1>2. \A i \in start + 1 .. Len(log) : log[i] \in Jobs
  BY <1>1, ElementOfSeq
<1>3. /\ L \in Seq(Jobs)
      /\ Len(L) = Len(log) - start
      /\ \A i \in 1 .. Len(log) - start : L[i] = log[start + i]
  BY <1>1, <1>2, SubSeqProperties
<1>4. DOMAIN L = 1 .. Len(log) - start
  BY <1>3, LenProperties
<1> HIDE DEF L
<1>5. ASSUME NEW i \in start + 1 .. Len(log)
      PROVE  \E k \in DOMAIN L : L[k] = log[i]
  <2>1. i - start \in 1 .. Len(log) - start /\ start + (i - start) = i
    BY <1>1
  <2> QED BY <1>3, <1>4, <2>1
<1>6. ASSUME NEW k \in DOMAIN L
      PROVE  \E i \in start + 1 .. Len(log) : L[k] = log[i]
  <2>1. start + k \in start + 1 .. Len(log)
    BY <1>1, <1>4
  <2> QED BY <1>3, <1>4, <2>1
<1>7. {L[k] : k \in DOMAIN L} = {log[i] : i \in start + 1 .. Len(log)}
  BY <1>5, <1>6
<1> QED BY <1>7 DEF L

\* A log record is counted in the session it is written in.
LEMMA RecordCounts ==
  ASSUME journal \in Seq(Jobs), opened \in 0 .. Len(journal), NEW j \in Jobs,
         journal' = Append(journal, j), opened' = opened
  PROVE  /\ Counted' = Counted \cup {j}
         /\ journal' \in Seq(Jobs) /\ opened' \in 0 .. Len(journal')
<1>1. /\ journal' \in Seq(Jobs) /\ Len(journal') = Len(journal) + 1 /\ Len(journal) \in Nat
      /\ \A i \in 1 .. Len(journal) : journal'[i] = journal[i]
      /\ journal'[Len(journal) + 1] = j
  BY AppendProperties, LenProperties
<1>2. opened' \in 0 .. Len(journal')
  BY <1>1
<1>3. Counted = {journal[i] : i \in opened + 1 .. Len(journal)}
  BY CountedIs DEF Counted, Logged
<1>4. Counted' = {journal'[i] : i \in opened' + 1 .. Len(journal')}
  BY <1>1, <1>2, CountedIs DEF Counted, Logged
<1>5. /\ opened + 1 .. Len(journal') = (opened + 1 .. Len(journal)) \cup {Len(journal) + 1}
      /\ opened + 1 .. Len(journal) \subseteq 1 .. Len(journal)
  BY <1>1
<1> QED BY <1>1, <1>2, <1>3, <1>4, <1>5

LEMMA CountedSame ==
  ASSUME UNCHANGED <<journal, opened>>
  PROVE  Counted' = Counted
BY DEF Counted, Logged

\* How many of a set of results have a verdict.
CountIn(S, f, v) == Cardinality({i \in S : f[i].verdict = v})

LEMMA CountOneMore ==
  ASSUME NEW S, IsFiniteSet(S), NEW j, j \notin S, NEW f, NEW v
  PROVE  CountIn(S \cup {j}, f, v) = CountIn(S, f, v) + (IF f[j].verdict = v THEN 1 ELSE 0)
<1> DEFINE T == {i \in S : f[i].verdict = v}
           U == {i \in S \cup {j} : f[i].verdict = v}
<1>1. IsFiniteSet(T) /\ j \notin T
  BY FS_Subset
<1>2. CASE f[j].verdict = v
  <2>1. U = T \cup {j}
    BY <1>2
  <2> HIDE DEF T, U
  <2>2. Cardinality(U) = Cardinality(T) + 1
    BY <1>1, <2>1, FS_AddElement
  <2> QED BY <1>2, <2>2 DEF T, U, CountIn
<1>3. CASE f[j].verdict # v
  <2>1. U = T
    BY <1>3
  <2>2. Cardinality(T) \in Nat
    BY <1>1, FS_CardinalityType
  <2> HIDE DEF T, U
  <2>3. Cardinality(U) = Cardinality(T) + 0
    BY <2>1, <2>2
  <2> QED BY <1>3, <2>3 DEF T, U, CountIn
<1> QED BY <1>2, <1>3

\* Showing a result keeps the statistics, alarms only for one that it counts,
\* and ends only the wait for its own seat.
LEMMA ShowKeeps ==
  ASSUME ChannelInv, ResultInv, TriggerInv, NEW j \in Recorded, NEW image \in {NoJob, j},
         NEW fromLatest \in BOOLEAN, ShowEvent(j, image, fromLatest),
         UNCHANGED <<channelVars, sessionVars, answer, queued, submitted>>
  PROVE  ResultInv' /\ TriggerInv' /\ AlarmStep /\ TriggerStep
<1>1. /\ j \in Jobs /\ j # NoJob /\ Recorded \subseteq Jobs /\ IsFiniteSet(Recorded)
      /\ Recorded' = Recorded /\ results' = results /\ session' = session /\ opened' = opened
      /\ Jobs \subseteq Nat
  BY RecordedPublished DEF channelVars, sessionVars, Recorded, Jobs, NoJob
<1>2. /\ seen' = IF ~fromLatest \/ IsCurrent(j) THEN seen \cup {j} ELSE seen
      /\ shown' = [job |-> j, images |-> image]
      /\ CompleteManualTriggerWait(j)
  BY DEF ShowEvent, ApplyEvent, Display
<1>3. /\ seen \subseteq seen' /\ seen' \subseteq Jobs
      /\ shown' \in [job: Nat, images: Nat]
      /\ shown'.job = j /\ shown'.images \in {NoJob, shown'.job}
  BY <1>1, <1>2 DEF ResultInv, NoJob
<1>4. TriggerStep
  BY <1>1, <1>2, <1>3 DEF TriggerStep, CompleteManualTriggerWait, MatchesSn
<1>5. ASSUME Counted' \subseteq Counted \cup {j}
      PROVE  TriggerInv'
  <2>1. trigger' = trigger \/ trigger' = IdleTrigger
    BY <1>2 DEF CompleteManualTriggerWait
  <2>2. CASE trigger' = IdleTrigger
    <3>1. answer # "none" => trigger.stage = "submitting"
      BY DEF TriggerInv
    <3>2. answer # "none" => trigger' = trigger
      BY <1>2, <3>1 DEF CompleteManualTriggerWait
    <3> QED BY <2>2, <3>1, <3>2 DEF TriggerInv, IdleTrigger, NoSn, NoJob
  <2>3. CASE trigger' = trigger /\ trigger # IdleTrigger
    <3>1. trigger.stage = "waiting_result" /\ results[j].seat = trigger.sn => j <= trigger.since
      <4>1. trigger.stage = "waiting_result" /\ results[j].seat = trigger.sn => ~(j > trigger.since)
        BY <1>2, <2>3 DEF CompleteManualTriggerWait, AfterSubmit, MatchesSn
      <4>2. trigger.since \in Jobs \cup {NoJob}
        BY DEF TriggerInv
      <4>3. trigger.since \in Nat
        BY <4>2, ChannelAssumption DEF NoJob, Jobs
      <4> QED BY <1>1, <4>1, <4>3
    <3> QED BY <1>1, <1>5, <2>3, <3>1 DEF TriggerInv
  <2> QED BY <2>1, <2>2, <2>3
<1>6. CASE ShouldRecord(j)
  <2>1. /\ counts' = [counts EXCEPT ![results[j].verdict] = @ + 1]
        /\ journal' = Append(journal, j)
        /\ alarm' = IF results[j].verdict = "NG" THEN j ELSE alarm
    BY <1>6 DEF ShowEvent, ApplyEvent, Record, Alarm
  <2>2. j \notin seen /\ j >= session /\ seen' = seen \cup {j}
    BY <1>2, <1>6 DEF ShouldRecord, IsCurrent
  <2>3. /\ Counted' = Counted \cup {j}
        /\ journal' \in Seq(Jobs) /\ opened' \in 0 .. Len(journal')
    BY <1>1, <2>1, RecordCounts DEF ResultInv
  <2>4. j \notin Counted /\ IsFiniteSet(Counted)
    BY <1>1, <2>2, FS_Subset DEF ResultInv
  <2>5. counts' \in [Verdicts -> Nat]
    <3>1. counts \in [Verdicts -> Nat]
      BY DEF ResultInv
    <3>2. ASSUME NEW v \in Verdicts
          PROVE  counts'[v] \in Nat
      BY <2>1, <3>1
    <3>3. counts' = [v \in Verdicts |-> counts'[v]]
      BY <2>1, <3>1
    <3> QED BY <3>2, <3>3
  <2>6. CountedOnce'
    <3>1. ASSUME NEW v \in Verdicts
          PROVE  counts'[v] = Cardinality({i \in Counted' : results'[i].verdict = v})
      <4>1. counts'[v] = counts[v] + (IF results[j].verdict = v THEN 1 ELSE 0)
        BY <2>1 DEF ResultInv
      <4>2. counts[v] = CountIn(Counted, results, v)
        BY DEF ResultInv, CountedOnce, CountIn
      <4>3. CountIn(Counted \cup {j}, results, v)
              = CountIn(Counted, results, v) + (IF results[j].verdict = v THEN 1 ELSE 0)
        BY <2>4, CountOneMore
      <4>4. counts'[v] = CountIn(Counted', results', v)
        BY <1>1, <2>3, <4>1, <4>2, <4>3
      <4> QED BY <4>4 DEF CountIn
    <3> QED BY <3>1 DEF CountedOnce
  <2>7. AlarmStep
    BY <2>1, <2>2, <2>3, <2>4 DEF AlarmStep
  <2>8. ResultInv'
    BY <1>1, <1>3, <2>1, <2>2, <2>3, <2>5, <2>6 DEF ResultInv
  <2> QED BY <1>4, <1>5, <2>3, <2>7, <2>8
<1>7. CASE ~ShouldRecord(j)
  <2>1. UNCHANGED <<counts, journal, alarm>>
    BY <1>7 DEF ShowEvent, ApplyEvent
  <2>2. Counted' = Counted
    BY <1>1, <2>1, CountedSame
  <2>3. CountedOnce'
    BY <1>1, <2>1, <2>2 DEF ResultInv, CountedOnce
  <2>4. AlarmStep
    BY <2>1 DEF AlarmStep
  <2>5. ResultInv'
    BY <1>1, <1>3, <2>1, <2>2, <2>3 DEF ResultInv
  <2> QED BY <1>4, <1>5, <2>2, <2>4, <2>5
<1> QED BY <1>6, <1>7

\* The display keeps its state while the detector goes on.
LEMMA ChannelStepKeeps ==
  ASSUME ChannelInv, DisplayInv, ChannelGrows,
         UNCHANGED <<pollVars, sessionVars, resultVars, trigger, answer, submitted>>,
         queued' \subseteq Sns
  PROVE  DisplayInv' /\ AlarmStep /\ TriggerStep
<1>1. /\ UNCHANGED <<task, batch, offset, session, opened, skipped, restarts, seen, shown, counts>>
      /\ UNCHANGED <<journal, alarm, trigger, answer, submitted>>
  BY DEF pollVars, sessionVars, resultVars
<1>2. Recorded \subseteq Recorded'
  <2>1. Len(events) \in Nat /\ Len(events') >= Len(events)
    BY RecordedPublished DEF ChannelGrows
  <2>2. ASSUME NEW i \in 1 .. Len(events)
        PROVE  events[i] \in Recorded'
    <3>1. i \in 1 .. Len(events') /\ events'[i] = events[i]
      BY <2>1 DEF ChannelGrows
    <3> QED BY <3>1 DEF Recorded
  <2> QED BY <2>2 DEF Recorded
<1>3. Counted' = Counted
  BY <1>1, CountedSame
<1>4. ASSUME NEW j \in Counted
      PROVE  results'[j] = results[j]
  <2>1. j \in 1 .. Len(results)
    BY RecordedPublished DEF DisplayInv, ResultInv, ChannelInv
  <2> QED BY <2>1 DEF ChannelGrows
<1>5. PollInv'
  <2>1. batch' \in Seq(Recorded')
    BY <1>1, <1>2, SeqMonotonic DEF DisplayInv, PollInv
  <2>2. offset' \in 0 .. Len(events')
    BY <1>1, RecordedPublished DEF DisplayInv, PollInv, ChannelGrows
  <2> QED BY <1>1, <2>1, <2>2 DEF DisplayInv, PollInv
<1>6. SessionInv'
  BY <1>1 DEF DisplayInv, SessionInv
<1>7. CountedOnce'
  <2>1. ASSUME NEW v \in Verdicts
        PROVE  {j \in Counted' : results'[j].verdict = v} = {j \in Counted : results[j].verdict = v}
    BY <1>3, <1>4
  <2> QED BY <1>1, <2>1 DEF DisplayInv, ResultInv, CountedOnce
<1>8. ResultInv'
  BY <1>1, <1>2, <1>3, <1>7 DEF DisplayInv, ResultInv
<1>9. TriggerInv'
  BY <1>1, <1>3, <1>4 DEF DisplayInv, TriggerInv
<1>10. AlarmStep /\ TriggerStep
  BY <1>1 DEF AlarmStep, TriggerStep
<1> QED BY <1>5, <1>6, <1>8, <1>9, <1>10 DEF DisplayInv

\* A step that leaves the files and the results alone.
LEMMA ResultsStay ==
  ASSUME ResultInv, UNCHANGED <<channelVars, sessionVars>>,
         UNCHANGED <<seen, shown, counts, journal>>, alarm' \in {NoJob, alarm}
  PROVE  ResultInv' /\ AlarmStep /\ Counted' = Counted /\ Recorded' = Recorded /\ results' = results
<1>1. Counted' = Counted /\ Recorded' = Recorded /\ results' = results /\ opened' = opened
  BY CountedSame DEF channelVars, sessionVars, Recorded
<1>2. CountedOnce'
  BY <1>1 DEF ResultInv, CountedOnce
<1> QED BY <1>1, <1>2 DEF ResultInv, AlarmStep

LEMMA SessionStays ==
  ASSUME SessionInv, UNCHANGED sessionVars, offset' \in Nat, offset <= offset', offset \in Nat
  PROVE  SessionInv'
BY DEF SessionInv, sessionVars

LEMMA ReadNewEventsKeeps ==
  ASSUME ChannelInv, DisplayInv, ReadNewEvents
  PROVE  DisplayInv' /\ AlarmStep /\ TriggerStep
<1>1. /\ task = "none" /\ offset' = Len(events)
      /\ batch' = LastLines(SubSeq(events, offset + 1, Len(events)))
      /\ task' = IF batch' = <<>> THEN "latest" ELSE "lines"
      /\ UNCHANGED <<channelVars, sessionVars, resultVars, triggerVars>>
  BY DEF ReadNewEvents
<1>2. /\ UNCHANGED <<seen, shown, counts, journal, alarm, trigger, answer, queued, submitted>>
      /\ events' = events
  BY <1>1 DEF resultVars, triggerVars, channelVars
<1>3. ResultInv' /\ AlarmStep /\ Counted' = Counted /\ Recorded' = Recorded /\ results' = results
  BY <1>1, <1>2, ResultsStay DEF DisplayInv
<1>4. Len(events) \in Nat /\ offset \in 0 .. Len(events)
  BY RecordedPublished DEF DisplayInv, PollInv
<1>5. batch' \in Seq(Recorded)
  <2> DEFINE fresh == SubSeq(events, offset + 1, Len(events))
  <2>1. fresh \in Seq(Recorded)
    <3>1. \A i \in offset + 1 .. Len(events) : events[i] \in Recorded
      BY <1>4 DEF Recorded
    <3> QED BY <1>4, <3>1, SubSeqProperties DEF ChannelInv
  <2> HIDE DEF fresh
  <2>2. CASE Len(fresh) <= LineLimit
    BY <1>1, <2>1, <2>2 DEF LastLines, fresh
  <2>3. CASE ~(Len(fresh) <= LineLimit)
    <3>1. Len(fresh) \in Nat /\ LineLimit \in Nat \ {0} /\ Len(fresh) > LineLimit
      BY <2>1, <2>3, LenProperties, DisplayAssumption
    <3>2. Len(fresh) - LineLimit + 1 \in 1 .. Len(fresh)
      BY <3>1
    <3>3. \A i \in Len(fresh) - LineLimit + 1 .. Len(fresh) : fresh[i] \in Recorded
      BY <2>1, <3>1, <3>2, ElementOfSeq
    <3>4. SubSeq(fresh, Len(fresh) - LineLimit + 1, Len(fresh)) \in Seq(Recorded)
      BY <2>1, <3>1, <3>2, <3>3, SubSeqProperties
    <3> QED BY <1>1, <2>3, <3>4 DEF LastLines, fresh
  <2> QED BY <2>2, <2>3
<1>6. PollInv'
  BY <1>1, <1>2, <1>3, <1>4, <1>5 DEF PollInv, Tasks
<1>7. SessionInv'
  BY <1>1, <1>4, SessionStays DEF DisplayInv
<1>8. TriggerInv' /\ TriggerStep
  BY <1>2, <1>3 DEF DisplayInv, TriggerInv, TriggerStep
<1> QED BY <1>3, <1>6, <1>7, <1>8 DEF DisplayInv

LEMMA ProcessNextEventKeeps ==
  ASSUME ChannelInv, DisplayInv, ProcessNextEvent
  PROVE  DisplayInv' /\ AlarmStep /\ TriggerStep
<1>1. /\ task = "lines" /\ ShowEvent(Head(batch), NoJob, FALSE) /\ batch' = Tail(batch)
      /\ task' = IF batch' = <<>> THEN "ticks" ELSE "lines"
      /\ UNCHANGED <<channelVars, sessionVars, offset, answer, queued, submitted>>
  BY DEF ProcessNextEvent
<1>2. batch \in Seq(Recorded) /\ batch # <<>>
  BY <1>1 DEF DisplayInv, PollInv
<1>3. Head(batch) \in Recorded /\ batch' \in Seq(Recorded)
  BY <1>1, <1>2, HeadTailProperties
<1>4. ResultInv' /\ TriggerInv' /\ AlarmStep /\ TriggerStep
  BY <1>1, <1>3, ShowKeeps DEF DisplayInv
<1>5. Recorded' = Recorded /\ events' = events
  BY <1>1 DEF Recorded, channelVars
<1>6. PollInv'
  BY <1>1, <1>3, <1>5 DEF DisplayInv, PollInv, Tasks
<1>7. SessionInv'
  BY <1>1 DEF DisplayInv, SessionInv, sessionVars
<1> QED BY <1>4, <1>6, <1>7 DEF DisplayInv

LEMMA ReadLatestKeeps ==
  ASSUME ChannelInv, DisplayInv, ReadLatest
  PROVE  DisplayInv' /\ AlarmStep /\ TriggerStep
<1>1. /\ task = "latest" /\ task' = "ticks"
      /\ UNCHANGED <<channelVars, sessionVars, batch, offset, answer, queued, submitted>>
  BY DEF ReadLatest
<1>2. Recorded' = Recorded /\ events' = events /\ results' = results
  BY <1>1 DEF Recorded, channelVars
<1>3. /\ latest.job \in Recorded \cup {NoJob} /\ latest.images \in {NoJob, latest.job}
      /\ latest.job \in Nat
  BY DEF ChannelInv
<1>4. ResultInv' /\ TriggerInv' /\ AlarmStep /\ TriggerStep
  <2>1. CASE UNCHANGED <<seen, shown, counts, journal, alarm, trigger>>
    <3>1. ResultInv' /\ AlarmStep /\ Counted' = Counted /\ results' = results
      BY <1>1, <2>1, ResultsStay DEF DisplayInv
    <3> QED BY <1>1, <2>1, <3>1 DEF DisplayInv, TriggerInv, TriggerStep
  <2>2. CASE /\ latest.job # NoJob /\ latest.job = shown.job /\ latest.images # shown.images
             /\ RefreshImages(latest.job, latest.images)
    <3>1. /\ UNCHANGED <<seen, counts, journal, alarm>>
          /\ shown' = [shown EXCEPT !.images = latest.images]
          /\ CompleteManualTriggerWait(latest.job)
      BY <2>2 DEF RefreshImages, ApplyEvent
    <3>2. Counted' = Counted
      BY <1>1, <3>1, CountedSame DEF sessionVars
    <3>3. /\ shown' \in [job: Nat, images: Nat] /\ shown'.job = latest.job
          /\ shown'.images \in {NoJob, shown'.job}
      <4>1. shown \in [job: Nat, images: Nat] /\ latest.images \in Nat
        BY DEF DisplayInv, ResultInv, ChannelInv
      <4> QED BY <1>3, <2>2, <3>1, <4>1
    <3>4. CountedOnce'
      BY <1>2, <3>1, <3>2 DEF DisplayInv, ResultInv, CountedOnce
    <3>5. ResultInv'
      BY <1>1, <1>2, <1>3, <3>1, <3>2, <3>3, <3>4 DEF DisplayInv, ResultInv, sessionVars
    <3>6. trigger' = trigger \/ (trigger.stage = "waiting_result" /\ trigger' = IdleTrigger)
      BY <3>1 DEF CompleteManualTriggerWait
    <3>7. TriggerInv'
      <4>1. CASE trigger' = trigger
        BY <1>1, <1>2, <3>2, <4>1 DEF DisplayInv, TriggerInv
      <4>2. CASE trigger.stage = "waiting_result" /\ trigger' = IdleTrigger
        BY <1>1, <4>2 DEF DisplayInv, TriggerInv, IdleTrigger, NoSn, NoJob
      <4> QED BY <3>6, <4>1, <4>2
    <3>8. AlarmStep
      BY <3>1 DEF AlarmStep
    <3>9. TriggerStep
      BY <2>2, <3>1, <3>3 DEF TriggerStep, CompleteManualTriggerWait, MatchesSn
    <3> QED BY <3>5, <3>7, <3>8, <3>9
  <2>3. CASE /\ latest.job # NoJob /\ latest.job # shown.job
             /\ ShowEvent(latest.job, latest.images, TRUE)
    BY <1>1, <1>3, <2>3, ShowKeeps DEF DisplayInv
  <2> QED BY <2>1, <2>2, <2>3 DEF ReadLatest, RefreshImages
<1>5. PollInv'
  BY <1>1, <1>2 DEF DisplayInv, PollInv, Tasks
<1>6. SessionInv'
  BY <1>1 DEF DisplayInv, SessionInv, sessionVars
<1> QED BY <1>4, <1>5, <1>6 DEF DisplayInv

\* The newest time stamp is no earlier than that of any line.
LEMMA LastStampIsNewest ==
  ASSUME ChannelInv
  PROVE  /\ LastStamp \in Jobs \cup {NoJob} /\ LastStamp \in 0 .. MaxJobs
         /\ \A j \in Recorded : j <= LastStamp
<1>1. Len(events) \in Nat /\ Recorded \subseteq Jobs /\ (events = <<>> <=> Len(events) = 0)
  BY RecordedPublished, EmptySeq DEF ChannelInv
<1>2. CASE events = <<>>
  BY <1>1, <1>2, ChannelAssumption DEF LastStamp, NoJob, Recorded
<1>3. CASE events # <<>>
  <2>1. Len(events) \in 1 .. Len(events) /\ LastStamp = events[Len(events)]
    BY <1>1, <1>3 DEF LastStamp
  <2>2. LastStamp \in Recorded
    BY <2>1 DEF Recorded
  <2>3. ASSUME NEW i \in 1 .. Len(events)
        PROVE  events[i] <= LastStamp
    <3>1. events[i] \in Nat /\ LastStamp \in Nat
      <4>1. events[i] \in Recorded
        BY DEF Recorded
      <4>2. Jobs \subseteq Nat
        BY ChannelAssumption DEF Jobs
      <4> QED BY <1>1, <2>2, <4>1, <4>2
    <3>2. CASE i < Len(events)
      BY <2>1, <3>1, <3>2 DEF ChannelInv
    <3>3. CASE i = Len(events)
      BY <2>1, <3>1, <3>3
    <3> QED BY <1>1, <3>2, <3>3
  <2> QED BY <1>1, <2>2, <2>3, ChannelAssumption DEF Jobs, Recorded
<1> QED BY <1>2, <1>3

LEMMA TickKeeps ==
  ASSUME ChannelInv, DisplayInv, NEW waitOver \in BOOLEAN, NEW countdownOver \in BOOLEAN,
         Tick(waitOver, countdownOver)
  PROVE  DisplayInv' /\ AlarmStep /\ TriggerStep
<1>1. /\ task = "ticks" /\ task' = "none"
      /\ trigger' = trigger \/ (trigger.stage = "waiting_result" /\ trigger' = IdleTrigger)
      /\ alarm' \in {NoJob, alarm}
      /\ UNCHANGED <<channelVars, sessionVars, batch, offset, seen, shown, counts, journal>>
      /\ UNCHANGED <<answer, queued, submitted>>
  BY DEF Tick
<1>2. ResultInv' /\ AlarmStep /\ Counted' = Counted /\ Recorded' = Recorded /\ results' = results
  BY <1>1, ResultsStay DEF DisplayInv
<1>3. PollInv' /\ SessionInv'
  BY <1>1, <1>2 DEF DisplayInv, PollInv, SessionInv, Tasks, channelVars, sessionVars
<1>4. TriggerInv'
  <2>1. CASE trigger' = trigger
    BY <1>1, <1>2, <2>1 DEF DisplayInv, TriggerInv
  <2>2. CASE trigger.stage = "waiting_result" /\ trigger' = IdleTrigger
    BY <1>1, <2>2 DEF DisplayInv, TriggerInv, IdleTrigger, NoSn, NoJob
  <2> QED BY <1>1, <2>1, <2>2
<1>5. TriggerStep
  BY <1>1 DEF DisplayInv, TriggerInv, TriggerStep
<1> QED BY <1>2, <1>3, <1>4, <1>5 DEF DisplayInv

\* What the operator does to the overlay and the trigger.
LEMMA OperatorKeeps ==
  ASSUME ChannelInv, DisplayInv,
         \/ HideNgOverlay \/ ManualTrigger \/ FinishManualTrigger
         \/ \E acknowledged, delivered \in BOOLEAN :
               ExchangeWithController(acknowledged, delivered)
  PROVE  DisplayInv' /\ AlarmStep /\ TriggerStep
<1>1. /\ UNCHANGED <<channelVars, pollVars, sessionVars, seen, shown, counts, journal>>
      /\ alarm' \in {NoJob, alarm}
  BY DEF HideNgOverlay, ManualTrigger, FinishManualTrigger, ExchangeWithController, resultVars
<1>2. ResultInv' /\ AlarmStep /\ Counted' = Counted /\ Recorded' = Recorded /\ results' = results
  BY <1>1, ResultsStay DEF DisplayInv
<1>3. PollInv' /\ SessionInv'
  BY <1>1, <1>2 DEF DisplayInv, PollInv, SessionInv, channelVars, pollVars, sessionVars
<1>4. TriggerInv' /\ TriggerStep
  <2>1. CASE HideNgOverlay
    BY <1>2, <2>1 DEF HideNgOverlay, triggerVars, DisplayInv, TriggerInv, TriggerStep
  <2>2. CASE ManualTrigger
    <3>1. submitted + 1 \in Sns /\ submitted + 1 \in 0 .. MaxTriggers
      BY <2>2, DisplayAssumption DEF ManualTrigger, DisplayInv, TriggerInv, Sns
    <3> QED BY <2>2, <3>1 DEF ManualTrigger, DisplayInv, TriggerInv, TriggerStep
  <2>3. CASE FinishManualTrigger
    <3>1. trigger.stage = "submitting"
      BY <2>3 DEF FinishManualTrigger, DisplayInv, TriggerInv
    <3>2. /\ answer' = "none" /\ UNCHANGED <<queued, submitted>>
          /\ trigger' = IF answer = "submitted"
                        THEN [trigger EXCEPT !.stage = "waiting_result", !.since = LastStamp]
                        ELSE IdleTrigger
      BY <2>3 DEF FinishManualTrigger
    <3>3. CASE answer = "submitted"
      <4>1. /\ trigger' \in [stage: {"idle", "submitting", "waiting_result"},
                             sn: Sns \cup {NoSn}, since: Jobs \cup {NoJob}]
            /\ trigger'.since = LastStamp /\ trigger'.stage = "waiting_result"
        BY <3>2, <3>3, LastStampIsNewest DEF DisplayInv, TriggerInv
      <4>2. \A j \in Counted : j <= trigger'.since
        BY <4>1, LastStampIsNewest DEF DisplayInv, ResultInv
      <4> QED BY <1>2, <3>1, <3>2, <4>1, <4>2 DEF DisplayInv, TriggerInv, TriggerStep
    <3>4. CASE answer # "submitted"
      BY <3>1, <3>2, <3>4 DEF DisplayInv, TriggerInv, TriggerStep, IdleTrigger, NoSn, NoJob
    <3> QED BY <3>3, <3>4
  <2>4. CASE \E acknowledged, delivered \in BOOLEAN :
                ExchangeWithController(acknowledged, delivered)
    <3>1. /\ trigger.stage = "submitting" /\ UNCHANGED <<trigger, submitted>>
          /\ answer' \in {"submitted", "failed"}
          /\ queued' \in {queued, queued \cup {trigger.sn}}
      BY <2>4 DEF ExchangeWithController
    <3> QED BY <1>2, <3>1 DEF DisplayInv, TriggerInv, TriggerStep
  <2> QED BY <2>1, <2>2, <2>3, <2>4
<1> QED BY <1>2, <1>3, <1>4 DEF DisplayInv

\* A restart forgets the session, and what it counted with it.
LEMMA RestartKeeps ==
  ASSUME ChannelInv, DisplayInv, Restart
  PROVE  DisplayInv' /\ AlarmStep /\ TriggerStep
<1>1. /\ restarts < MaxRestarts /\ restarts' = restarts + 1 /\ session' \in 1 .. LastStamp + 1
      /\ seen' \subseteq {journal[i] : i \in DOMAIN journal}
      /\ opened' = Len(journal) /\ offset' = Len(events) /\ skipped' = Len(events)
      /\ task' = "none" /\ batch' = <<>> /\ shown' = NothingShown
      /\ counts' = [v \in Verdicts |-> 0] /\ alarm' = NoJob /\ trigger' = IdleTrigger
      /\ answer' = "none" /\ UNCHANGED <<channelVars, journal, queued, submitted>>
  BY DEF Restart
<1>2. /\ Recorded' = Recorded /\ events' = events /\ results' = results
      /\ Len(events) \in Nat /\ Len(journal) \in Nat /\ journal \in Seq(Jobs)
  BY <1>1, RecordedPublished, LenProperties
     DEF Recorded, channelVars, DisplayInv, ResultInv
<1>3. PollInv'
  BY <1>1, <1>2, EmptySeq DEF PollInv, Tasks
<1>4. SessionInv'
  <2>1. restarts' \in 0 .. MaxRestarts
    BY <1>1, DisplayAssumption DEF DisplayInv, SessionInv
  <2>2. session' \in 1 .. MaxJobs + 1
    BY <1>1, LastStampIsNewest, ChannelAssumption
  <2> QED BY <1>1, <1>2, <2>1, <2>2 DEF SessionInv
<1>5. Counted' = {}
  <2>1. opened' \in 0 .. Len(journal') /\ journal' \in Seq(Jobs)
    BY <1>1, <1>2
  <2>2. Counted' = {journal'[i] : i \in opened' + 1 .. Len(journal')}
    BY <2>1, CountedIs DEF Counted, Logged
  <2>3. opened' + 1 .. Len(journal') = {}
    BY <1>1, <1>2
  <2> QED BY <2>2, <2>3
<1>6. CountedOnce'
  <2>1. ASSUME NEW v \in Verdicts
        PROVE  counts'[v] = Cardinality({j \in Counted' : results'[j].verdict = v})
    BY <1>1, <1>5, FS_EmptySet
  <2> QED BY <2>1 DEF CountedOnce
<1>7. seen' \subseteq Jobs
  <2>1. \A i \in DOMAIN journal : journal[i] \in Jobs
    BY <1>2
  <2> QED BY <1>1, <2>1
<1>8. ResultInv'
  BY <1>1, <1>2, <1>5, <1>6, <1>7 DEF ResultInv, NothingShown, Display, NoJob
<1>9. TriggerInv'
  BY <1>1, <1>5 DEF DisplayInv, TriggerInv, IdleTrigger, NoSn, NoJob
<1>10. AlarmStep
  BY <1>1 DEF AlarmStep
<1>11. TriggerStep
  BY <1>1 DEF TriggerStep, DisplayInv, SessionInv
<1> QED BY <1>3, <1>4, <1>8, <1>9, <1>10, <1>11 DEF DisplayInv

-----------------------------------------------------------------------------
(***************************************************************************)
(* The theorems.                                                           *)
(***************************************************************************)

Inv == ChannelInv /\ DisplayInv

LEMMA InitKeeps == Init => Inv
<1> SUFFICES ASSUME Init PROVE Inv
  OBVIOUS
<1>1. ChannelInv /\ events = <<>>
  BY ChannelInitInv DEF Init, ChannelInit
<1>2. DisplayInit
  BY DEF Init
<1>3. PollInv /\ SessionInv
  BY <1>1, <1>2, EmptySeq, ChannelAssumption, DisplayAssumption
     DEF DisplayInit, PollInv, SessionInv, Tasks
<1>4. journal = <<>> /\ opened = 0 /\ journal \in Seq(Jobs) /\ Len(journal) = 0
  BY <1>2, EmptySeq DEF DisplayInit
<1>5. Counted = {}
  <2>1. Counted = {journal[i] : i \in opened + 1 .. Len(journal)}
    BY <1>4, CountedIs DEF Counted, Logged
  <2>2. opened + 1 .. Len(journal) = {}
    BY <1>4
  <2> QED BY <2>1, <2>2
<1>6. CountedOnce
  BY <1>2, <1>5, FS_EmptySet DEF DisplayInit, CountedOnce
<1>7. ResultInv
  BY <1>2, <1>4, <1>5, <1>6 DEF DisplayInit, ResultInv, NothingShown, Display, NoJob
<1>8. TriggerInv
  BY <1>2, <1>5, DisplayAssumption DEF DisplayInit, TriggerInv, IdleTrigger, NoSn, NoJob
<1> QED BY <1>1, <1>3, <1>7, <1>8 DEF Inv, DisplayInv

\* Every step keeps the invariant, alarms for what it counts, and ends a wait
\* for a reason.
LEMMA StepKeeps == Inv /\ [Next]_vars => Inv' /\ AlarmStep /\ TriggerStep
<1> SUFFICES ASSUME Inv, [Next]_vars PROVE Inv' /\ AlarmStep /\ TriggerStep
  OBVIOUS
<1> USE DEF Inv
<1>1. ASSUME UNCHANGED channelVars PROVE ChannelInv'
  BY <1>1 DEF channelVars, ChannelInv, Recorded
<1>2. CASE DetectorGoesOn
  <2>1. ChannelInv' /\ ChannelGrows /\ UNCHANGED displayVars
    BY <1>2, DetectorStepKeeps DEF DetectorGoesOn
  <2>2. /\ UNCHANGED <<pollVars, sessionVars, resultVars, trigger, answer, submitted>>
        /\ queued' \subseteq Sns
    BY <2>1 DEF displayVars, triggerVars, DisplayInv, TriggerInv
  <2> QED BY <2>1, <2>2, ChannelStepKeeps
<1>3. CASE TakeJob
  <2>1. PICK v \in Verdicts, seat \in queued \cup {NoSn} :
           JudgeJob(v, seat) /\ queued' = queued \ {seat}
    BY <1>3 DEF TakeJob
  <2>2. seat \in Nat /\ queued' \subseteq Sns
    BY <2>1, DisplayAssumption DEF DisplayInv, TriggerInv, Sns, NoSn
  <2>3. ChannelInv' /\ ChannelGrows
    BY <2>1, <2>2, JudgeJobKeeps
  <2>4. UNCHANGED <<pollVars, sessionVars, resultVars, trigger, answer, submitted>>
    BY <1>3 DEF TakeJob
  <2> QED BY <2>2, <2>3, <2>4, ChannelStepKeeps
<1>4. CASE Restart
  BY <1>1, <1>4, RestartKeeps DEF Restart
<1>5. CASE ReadNewEvents
  BY <1>1, <1>5, ReadNewEventsKeeps DEF ReadNewEvents
<1>6. CASE ProcessNextEvent
  BY <1>1, <1>6, ProcessNextEventKeeps DEF ProcessNextEvent
<1>7. CASE ReadLatest
  BY <1>1, <1>7, ReadLatestKeeps DEF ReadLatest
<1>8. CASE \E waitOver, countdownOver \in BOOLEAN : Tick(waitOver, countdownOver)
  <2>1. UNCHANGED channelVars
    BY <1>8 DEF Tick
  <2> QED BY <1>1, <1>8, <2>1, TickKeeps
<1>9. CASE \/ HideNgOverlay \/ ManualTrigger \/ FinishManualTrigger
           \/ \E acknowledged, delivered \in BOOLEAN :
                 ExchangeWithController(acknowledged, delivered)
  <2>1. UNCHANGED channelVars
    BY <1>9 DEF HideNgOverlay, ManualTrigger, FinishManualTrigger, ExchangeWithController
  <2> QED BY <1>1, <1>9, <2>1, OperatorKeeps
<1>10. CASE UNCHANGED vars
  <2>1. UNCHANGED channelVars /\ UNCHANGED displayVars
    BY <1>10 DEF vars
  <2>2. /\ UNCHANGED <<pollVars, sessionVars, resultVars, trigger, answer, submitted>>
        /\ queued' \subseteq Sns
    BY <2>1 DEF displayVars, triggerVars, DisplayInv, TriggerInv
  <2>3. ChannelGrows
    BY <2>1, RecordedPublished DEF channelVars, ChannelGrows
  <2> QED BY <1>1, <2>1, <2>2, <2>3, ChannelStepKeeps
<1> QED BY <1>2, <1>3, <1>4, <1>5, <1>6, <1>7, <1>8, <1>9, <1>10 DEF Next

LEMMA Invariance == Spec => []Inv
<1>1. Init => Inv
  BY InitKeeps
<1>2. Inv /\ [Next]_vars => Inv'
  BY StepKeeps
<1> QED BY <1>1, <1>2, PTL DEF Spec

LEMMA InvTyped == Inv => TypeOK
<1> SUFFICES ASSUME Inv PROVE TypeOK
  OBVIOUS
<1>1. ChannelTypeOK
  BY ChannelTyped DEF Inv
<1>2. Recorded \subseteq Jobs
  BY RecordedPublished DEF Inv
<1>3. batch \in Seq(Jobs)
  BY <1>2, SeqMonotonic DEF Inv, DisplayInv, PollInv
<1>4. shown \in [job: Jobs \cup {NoJob}, images: Jobs \cup {NoJob}]
  BY <1>2 DEF Inv, DisplayInv, ResultInv
<1>5. DisplayTypeOK
  BY <1>2, <1>3, <1>4
     DEF Inv, DisplayInv, PollInv, SessionInv, ResultInv, TriggerInv, DisplayTypeOK
<1> QED BY <1>1, <1>5 DEF TypeOK

\* The variables keep their types, whatever the detector, the controller, the
\* operator and the restarts do.
THEOREM DisplayTypeCorrect == Spec => []TypeOK
BY Invariance, InvTyped, PTL

\* The statistics count every result of the session once, although it reaches
\* the display by two files, several times and in any order
\* (main_viewmodel.py 480-510, 608-654).
THEOREM ResultsCountedOnce == Spec => []CountedOnce
<1>1. Inv => CountedOnce
  BY DEF Inv, DisplayInv, ResultInv
<1> QED BY <1>1, Invariance, PTL

\* Neither the screen nor the overlay shows a verdict the controller was not
\* given (detector_main.py 187-206).
THEOREM OnlyPublishedShown == Spec => []ShownWasPublished
<1>1. Inv => ShownWasPublished
  BY RecordedPublished DEF Inv, DisplayInv, ResultInv, ShownWasPublished
<1> QED BY <1>1, Invariance, PTL

\* A result is shown with its own images or with none, although the frame slot
\* they came from is filled again (detector_main.py 187-215, 279-302).
THEOREM ImagesAreOwn == Spec => []ImagesOwn
<1>1. Inv => ImagesOwn
  BY DEF Inv, ChannelInv, DisplayInv, ResultInv, ImagesOwn
<1> QED BY <1>1, Invariance, PTL

\* The overlay opens for an NG of this session in the step that counts it, and
\* so at most once for each (main_viewmodel.py 586-588).
THEOREM AlarmsAreNew == Spec => AlarmsOnce
<1>1. Inv /\ [Next]_vars => AlarmStep
  BY StepKeeps
<1>2. [][AlarmStep]_vars <=> AlarmsOnce
  BY PTL DEF AlarmStep, AlarmsOnce
<1> QED BY <1>1, <1>2, Invariance, PTL DEF Spec

\* A trigger stops waiting by its seat's result, by its timeout with no such
\* result counted, or by a restart (main_viewmodel.py 775-813).
THEOREM WaitEndsForAReason == Spec => TriggerEndsForAReason
<1>1. Inv /\ [Next]_vars => TriggerStep
  BY StepKeeps
<1>2. [][TriggerStep]_vars <=> TriggerEndsForAReason
  BY PTL DEF TriggerStep, TriggerEndsForAReason
<1> QED BY <1>1, <1>2, Invariance, PTL DEF Spec

-----------------------------------------------------------------------------
(***************************************************************************)
(* No line is missed.                                                      *)
(***************************************************************************)

\* Every line read in this session was counted, is still to be processed, or
\* had as many lines behind it as are read at once.
LinesAccounted ==
  \A i \in skipped + 1 .. offset :
    \/ events[i] \in Counted
    \/ \E k \in 1 .. Len(batch) : batch[k] = events[i]
    \/ Len(events) >= i + LineLimit

\* What was skipped is older than the session, and of what came after it only
\* counted results are in seen: nothing else keeps a line from being counted.
LinesInv ==
  /\ session = 1 \/ (skipped > 0 /\ session <= events[skipped] + 1)
  /\ seen \subseteq Recorded
  /\ \A i \in 1 .. Len(journal) : journal[i] \in Recorded
  /\ \A i \in skipped + 1 .. Len(events) : events[i] \in seen => events[i] \in Counted
  /\ LinesAccounted

\* The ranges the proofs below count in.
LEMMA LineRanges ==
  ASSUME Inv
  PROVE  /\ Len(events) \in Nat /\ offset \in Nat /\ skipped \in Nat /\ session \in Nat
         /\ skipped <= offset /\ offset <= Len(events) /\ session >= 1
         /\ LineLimit \in Nat /\ LineLimit > 0 /\ Len(journal) \in Nat
         /\ journal \in Seq(Jobs) /\ opened \in 0 .. Len(journal)
         /\ \A i \in 1 .. Len(events) : events[i] \in Recorded /\ events[i] \in Nat
         /\ \A i, k \in 1 .. Len(events) : i < k => events[i] < events[k]
<1>1. Len(events) \in Nat /\ offset \in 0 .. Len(events) /\ skipped \in 0 .. offset
      /\ session \in 1 .. MaxJobs + 1
  BY RecordedPublished DEF Inv, DisplayInv, PollInv, SessionInv
<1>2. journal \in Seq(Jobs) /\ opened \in 0 .. Len(journal) /\ Len(journal) \in Nat
  BY LenProperties DEF Inv, DisplayInv, ResultInv
<1>3. \A i \in 1 .. Len(events) : events[i] \in Recorded /\ events[i] \in Nat
  <2>1. Recorded \subseteq Jobs /\ Jobs \subseteq Nat
    BY RecordedPublished, ChannelAssumption DEF Inv, Jobs
  <2> QED BY <2>1 DEF Recorded
<1>4. \A i, k \in 1 .. Len(events) : i < k => events[i] < events[k]
  BY DEF Inv, ChannelInv
<1> QED BY <1>1, <1>2, <1>3, <1>4, DisplayAssumption, ChannelAssumption

\* A line that was not skipped is of this session.
LEMMA LinesAreCurrent ==
  ASSUME Inv, LinesInv, NEW i \in skipped + 1 .. Len(events)
  PROVE  IsCurrent(events[i])
<1>1. i \in 1 .. Len(events) /\ skipped < i /\ events[i] \in Nat /\ events[i] \in Recorded
  BY LineRanges
<1>2. CASE session = 1
  <2>1. events[i] \in Jobs
    BY <1>1, RecordedPublished DEF Inv
  <2> QED BY <1>2, <2>1, ChannelAssumption DEF IsCurrent, Jobs
<1>3. CASE skipped > 0 /\ session <= events[skipped] + 1
  <2>1. skipped \in 1 .. Len(events)
    BY <1>3, LineRanges
  <2>2. events[skipped] < events[i] /\ events[skipped] \in Nat
    BY <1>1, <2>1, LineRanges
  <2> QED BY <1>1, <1>3, <2>2, LineRanges DEF IsCurrent
<1> QED BY <1>2, <1>3 DEF LinesInv

\* The detector only adds lines the display has not seen.
LEMMA DetectorKeepsLines ==
  ASSUME Inv, Inv', LinesInv, ChannelGrows, UNCHANGED <<pollVars, sessionVars, resultVars>>
  PROVE  LinesInv'
<1>1. /\ UNCHANGED <<task, batch, offset, session, opened, skipped, seen, journal>>
      /\ Counted' = Counted
  BY CountedSame DEF pollVars, sessionVars, resultVars
<1>2. /\ Len(events) <= Len(events')
      /\ \A i \in 1 .. Len(events) : events'[i] = events[i]
      /\ Len(events) \in Nat /\ Len(events') \in Nat
  BY LineRanges, RecordedPublished DEF ChannelGrows, Inv
<1>3. Recorded \subseteq Recorded'
  BY <1>2 DEF Recorded
<1>4. /\ session' = 1 \/ (skipped' > 0 /\ session' <= events'[skipped'] + 1)
      /\ seen' \subseteq Recorded'
      /\ \A i \in 1 .. Len(journal') : journal'[i] \in Recorded'
  BY <1>1, <1>2, <1>3, LineRanges DEF LinesInv
<1>5. ASSUME NEW i \in skipped' + 1 .. Len(events'), events'[i] \in seen'
      PROVE  events'[i] \in Counted'
  <2>1. CASE i <= Len(events)
    <3>1. i \in skipped + 1 .. Len(events) /\ events'[i] = events[i]
      BY <1>1, <1>2, <2>1, LineRanges
    <3> QED BY <1>1, <1>5, <3>1 DEF LinesInv
  <2>2. CASE i > Len(events)
    <3>1. PICK k \in 1 .. Len(events) : events[k] = events'[i]
      BY <1>1, <1>5 DEF LinesInv, Recorded
    <3>2. k \in 1 .. Len(events') /\ i \in 1 .. Len(events') /\ k < i /\ events'[k] = events'[i]
      BY <1>1, <1>2, <2>2, <3>1, LineRanges
    <3>3. \A x, y \in 1 .. Len(events') : x < y => events'[x] < events'[y]
      BY DEF Inv, ChannelInv
    <3>4. events'[k] \in Nat
      BY <1>2, <3>1, LineRanges
    <3> QED BY <3>2, <3>3, <3>4
  <2> QED BY <1>1, <1>2, <2>1, <2>2, LineRanges
<1>6. LinesAccounted'
  <2>1. ASSUME NEW i \in skipped + 1 .. offset
        PROVE  \/ events'[i] \in Counted
               \/ \E k \in 1 .. Len(batch) : batch[k] = events'[i]
               \/ Len(events') >= i + LineLimit
    <3>1. i \in 1 .. Len(events) /\ events'[i] = events[i]
      BY <1>2, LineRanges
    <3>2. \/ events[i] \in Counted
          \/ \E k \in 1 .. Len(batch) : batch[k] = events[i]
          \/ Len(events) >= i + LineLimit
      BY DEF LinesInv, LinesAccounted
    <3>3. Len(events) >= i + LineLimit => Len(events') >= i + LineLimit
      BY <1>2, <3>1, LineRanges
    <3> QED BY <3>1, <3>2, <3>3
  <2> QED BY <1>1, <2>1 DEF LinesAccounted
<1> QED BY <1>4, <1>5, <1>6 DEF LinesInv

\* Steps that read and show nothing.
LEMMA LinesStay ==
  ASSUME LinesInv, UNCHANGED <<events, sessionVars, batch, offset, seen, journal>>
  PROVE  LinesInv'
<1>1. Counted' = Counted /\ Recorded' = Recorded
      /\ UNCHANGED <<session, skipped>>
  BY CountedSame DEF sessionVars, Recorded
<1>2. LinesAccounted'
  BY <1>1 DEF LinesInv, LinesAccounted
<1> QED BY <1>1, <1>2 DEF LinesInv

\* What is read at once is processed; what is more was followed by it.
LEMMA ReadKeepsLines ==
  ASSUME Inv, LinesInv, ReadNewEvents
  PROVE  LinesInv'
<1>1. /\ task = "none" /\ offset' = Len(events)
      /\ batch' = LastLines(SubSeq(events, offset + 1, Len(events)))
      /\ UNCHANGED <<channelVars, sessionVars, resultVars>>
  BY DEF ReadNewEvents
<1>2. /\ UNCHANGED <<events, session, opened, skipped, seen, journal>>
      /\ Counted' = Counted /\ Recorded' = Recorded
  BY <1>1, CountedSame DEF channelVars, sessionVars, resultVars, Recorded
<1>3. batch = <<>> /\ Len(batch) = 0
  BY <1>1, EmptySeq DEF Inv, DisplayInv, PollInv
<1> DEFINE fresh == SubSeq(events, offset + 1, Len(events))
           n == Len(events) - offset
<1>4. fresh \in Seq(Recorded) /\ Len(fresh) = n /\ n \in Nat
      /\ \A k \in 1 .. n : fresh[k] = events[offset + k]
  <2>1. \A i \in offset + 1 .. Len(events) : events[i] \in Recorded
    BY LineRanges
  <2>2. offset + 1 \in 1 .. Len(events) + 1 /\ Len(events) \in Nat
    BY LineRanges
  <2> QED BY <2>1, <2>2, LineRanges, SubSeqProperties
<1>5. ASSUME NEW i \in offset + 1 .. Len(events), ~(Len(events) >= i + LineLimit)
      PROVE  \E k \in 1 .. Len(batch') : batch'[k] = events[i]
  <2>0. i \in Nat /\ offset \in Nat /\ Len(events) \in Nat /\ offset < i /\ i <= Len(events)
    BY LineRanges
  <2>1. i - offset \in 1 .. n /\ fresh[i - offset] = events[i]
    <3>1. i - offset \in 1 .. n /\ offset + (i - offset) = i
      BY <2>0
    <3> HIDE DEF fresh, n
    <3> QED BY <1>4, <3>1
  <2> HIDE DEF fresh
  <2>2. CASE n <= LineLimit
    <3>1. batch' = fresh
      BY <1>1, <1>4, <2>2 DEF LastLines, fresh
    <3> QED BY <1>4, <2>1, <3>1
  <2>3. CASE ~(n <= LineLimit)
    <3> DEFINE start == n - LineLimit + 1
    <3>1. batch' = SubSeq(fresh, start, n)
      BY <1>1, <1>4, <2>3 DEF LastLines, fresh
    <3>2. start \in 1 .. n /\ n - start + 1 = LineLimit
      <4>1. LineLimit \in Nat \ {0}
        BY DisplayAssumption
      <4>2. n \in Nat
        BY <1>4
      <4> HIDE DEF n
      <4> QED BY <2>3, <4>1, <4>2
    <3>3. \A k \in start .. n : fresh[k] \in Recorded
      BY <1>4, <3>2, ElementOfSeq
    <3>4. Len(batch') = n - start + 1 /\ \A k \in 1 .. n - start + 1 : batch'[k] = fresh[start + k - 1]
      BY <1>4, <3>1, <3>2, <3>3, SubSeqProperties
    <3> DEFINE k == i - offset - start + 1
    <3>5. k \in 1 .. LineLimit /\ start + k - 1 = i - offset
      <4>1. /\ LineLimit \in Nat /\ n \in Nat /\ n > LineLimit /\ start = n - LineLimit + 1
            /\ i > Len(events) - LineLimit
        BY <1>4, <1>5, <2>0, <2>3, LineRanges
      <4> QED BY <2>0, <4>1
    <3> QED BY <2>1, <3>2, <3>4, <3>5
  <2> QED BY <2>2, <2>3
<1>6. LinesAccounted'
  <2>1. ASSUME NEW i \in skipped + 1 .. Len(events)
        PROVE  \/ events[i] \in Counted
               \/ \E k \in 1 .. Len(batch') : batch'[k] = events[i]
               \/ Len(events) >= i + LineLimit
    <3>1. CASE i <= offset
      <4>1. i \in skipped + 1 .. offset /\ 1 .. Len(batch) = {}
        BY <1>3, <3>1, LineRanges
      <4> QED BY <4>1 DEF LinesInv, LinesAccounted
    <3>2. CASE i > offset
      <4>1. i \in offset + 1 .. Len(events)
        BY <3>2, LineRanges
      <4> QED BY <1>5, <4>1
    <3> QED BY <3>1, <3>2, LineRanges
  <2> QED BY <1>1, <1>2, <2>1 DEF LinesAccounted
<1> QED BY <1>2, <1>6 DEF LinesInv

\* Showing a result counts it, if it is of a line of this session and was not
\* counted before.
LEMMA ShowKeepsLines ==
  ASSUME Inv, LinesInv, NEW j \in Recorded, NEW image, NEW fromLatest \in BOOLEAN,
         ShowEvent(j, image, fromLatest), UNCHANGED <<channelVars, sessionVars>>
  PROVE  /\ Counted \subseteq Counted'
         /\ seen' \subseteq Recorded /\ \A i \in 1 .. Len(journal') : journal'[i] \in Recorded
         /\ \A i \in skipped + 1 .. Len(events) :
              /\ events[i] \in seen' => events[i] \in Counted'
              /\ events[i] = j => j \in Counted'
<1>1. /\ seen' = IF ~fromLatest \/ IsCurrent(j) THEN seen \cup {j} ELSE seen
      /\ opened' = opened /\ j \in Jobs /\ journal \in Seq(Jobs) /\ opened \in 0 .. Len(journal)
  BY LineRanges, RecordedPublished DEF ShowEvent, sessionVars, Inv
<1>2. CASE ShouldRecord(j)
  <2>1. journal' = Append(journal, j)
    BY <1>2 DEF ShowEvent, ApplyEvent, Record
  <2>2. Counted' = Counted \cup {j}
    BY <1>1, <2>1, RecordCounts
  <2>3. \A i \in 1 .. Len(journal') : journal'[i] \in Recorded
    <3>1. /\ Len(journal') = Len(journal) + 1 /\ journal'[Len(journal) + 1] = j
          /\ \A i \in 1 .. Len(journal) : journal'[i] = journal[i]
      BY <1>1, <2>1, AppendProperties
    <3> QED BY <3>1, LineRanges DEF LinesInv
  <2> QED BY <1>1, <2>2, <2>3 DEF LinesInv
<1>3. CASE ~ShouldRecord(j)
  <2>1. journal' = journal /\ Counted' = Counted
    <3>1. journal' = journal
      BY <1>3 DEF ShowEvent, ApplyEvent
    <3> QED BY <1>1, <3>1, CountedSame
  <2>2. \A i \in skipped + 1 .. Len(events) : events[i] = j => j \in seen
    BY <1>3, LinesAreCurrent DEF ShouldRecord
  <2> QED BY <1>1, <2>1, <2>2 DEF LinesInv
<1> QED BY <1>2, <1>3

LEMMA ProcessKeepsLines ==
  ASSUME Inv, LinesInv, ProcessNextEvent
  PROVE  LinesInv'
<1>1. /\ task = "lines" /\ ShowEvent(Head(batch), NoJob, FALSE) /\ batch' = Tail(batch)
      /\ UNCHANGED <<channelVars, sessionVars, offset>>
  BY DEF ProcessNextEvent
<1>2. batch \in Seq(Recorded) /\ batch # <<>>
  BY <1>1 DEF Inv, DisplayInv, PollInv
<1> DEFINE j == Head(batch)
<1>3. /\ j \in Recorded /\ j = batch[1] /\ Len(batch) \in Nat /\ Len(batch') = Len(batch) - 1
      /\ \A k \in 1 .. Len(batch) - 1 : batch'[k] = batch[k + 1]
  BY <1>1, <1>2, HeadTailProperties, LenProperties
<1>4. /\ UNCHANGED <<events, session, skipped>> /\ Recorded' = Recorded
  BY <1>1 DEF channelVars, sessionVars, Recorded
<1>5. /\ Counted \subseteq Counted'
      /\ seen' \subseteq Recorded /\ \A i \in 1 .. Len(journal') : journal'[i] \in Recorded
      /\ \A i \in skipped + 1 .. Len(events) :
           /\ events[i] \in seen' => events[i] \in Counted'
           /\ events[i] = j => j \in Counted'
  BY <1>1, <1>3, ShowKeepsLines
<1> HIDE DEF j
<1>6. LinesAccounted'
  <2>1. ASSUME NEW i \in skipped + 1 .. offset
        PROVE  \/ events[i] \in Counted'
               \/ \E k \in 1 .. Len(batch') : batch'[k] = events[i]
               \/ Len(events) >= i + LineLimit
    <3>1. i \in skipped + 1 .. Len(events)
      BY LineRanges
    <3>2. CASE \E k \in 1 .. Len(batch) : batch[k] = events[i]
      <4>1. PICK k \in 1 .. Len(batch) : batch[k] = events[i]
        BY <3>2
      <4>2. CASE k = 1
        BY <1>3, <1>5, <3>1, <4>1, <4>2
      <4>3. CASE k # 1
        <5>1. k - 1 \in 1 .. Len(batch') /\ batch'[k - 1] = batch[k]
          BY <1>3, <4>3
        <5> QED BY <4>1, <5>1
      <4> QED BY <4>2, <4>3
    <3>3. \/ events[i] \in Counted
          \/ \E k \in 1 .. Len(batch) : batch[k] = events[i]
          \/ Len(events) >= i + LineLimit
      BY DEF LinesInv, LinesAccounted
    <3> QED BY <1>5, <3>2, <3>3
  <2> QED BY <1>1, <1>4, <2>1 DEF LinesAccounted
<1> QED BY <1>4, <1>5, <1>6 DEF LinesInv

LEMMA LatestKeepsLines ==
  ASSUME Inv, LinesInv, ReadLatest
  PROVE  LinesInv'
<1>1. /\ UNCHANGED <<channelVars, sessionVars, batch, offset>>
      /\ UNCHANGED <<events, session, skipped>> /\ Recorded' = Recorded
  BY DEF ReadLatest, channelVars, sessionVars, Recorded
<1>2. CASE UNCHANGED <<seen, journal>>
  BY <1>1, <1>2, LinesStay
<1>3. CASE /\ latest.job # NoJob /\ latest.job # shown.job
           /\ ShowEvent(latest.job, latest.images, TRUE)
  <2>1. latest.job \in Recorded
    BY <1>3 DEF Inv, ChannelInv
  <2>2. /\ Counted \subseteq Counted'
        /\ seen' \subseteq Recorded /\ \A i \in 1 .. Len(journal') : journal'[i] \in Recorded
        /\ \A i \in skipped + 1 .. Len(events) : events[i] \in seen' => events[i] \in Counted'
    BY <1>1, <1>3, <2>1, ShowKeepsLines
  <2>3. LinesAccounted'
    BY <1>1, <2>2 DEF LinesInv, LinesAccounted
  <2> QED BY <1>1, <2>2, <2>3 DEF LinesInv
<1> QED BY <1>2, <1>3 DEF ReadLatest, RefreshImages, ApplyEvent

LEMMA RestartKeepsLines ==
  ASSUME Inv, LinesInv, Restart
  PROVE  LinesInv'
<1>1. /\ session' \in 1 .. LastStamp + 1
      /\ seen' \subseteq {journal[i] : i \in DOMAIN journal}
      /\ offset' = Len(events) /\ skipped' = Len(events)
      /\ UNCHANGED <<channelVars, journal>>
  BY DEF Restart
<1>2. events' = events /\ Recorded' = Recorded /\ Len(events) \in Nat
      /\ DOMAIN journal = 1 .. Len(journal)
  BY <1>1, LineRanges, LenProperties DEF channelVars, Recorded
<1>3. skipped' + 1 .. Len(events') = {} /\ skipped' + 1 .. offset' = {}
  BY <1>1, <1>2
<1>4. session' = 1 \/ (skipped' > 0 /\ session' <= events'[skipped'] + 1)
  <2>1. CASE events = <<>>
    BY <1>1, <2>1 DEF LastStamp, NoJob
  <2>2. CASE events # <<>>
    <3>1. Len(events) > 0
      BY <1>2, <2>2, EmptySeq DEF Inv, ChannelInv
    <3>2. LastStamp = events[Len(events)] /\ LastStamp \in Nat
      BY <1>2, <2>2, <3>1, LineRanges DEF LastStamp
    <3> QED BY <1>1, <1>2, <3>1, <3>2
  <2> QED BY <2>1, <2>2
<1>5. seen' \subseteq Recorded' /\ \A i \in 1 .. Len(journal') : journal'[i] \in Recorded'
  BY <1>1, <1>2 DEF LinesInv
<1> QED BY <1>3, <1>4, <1>5 DEF LinesInv, LinesAccounted

LEMMA LinesInit == Init => LinesInv
<1> SUFFICES ASSUME Init PROVE LinesInv
  OBVIOUS
<1>1. /\ session = 1 /\ seen = {} /\ journal = <<>> /\ skipped = 0 /\ offset = 0
      /\ events = <<>> /\ Len(events) = 0 /\ Len(journal) = 0
  BY EmptySeq DEF Init, ChannelInit, DisplayInit
<1>2. skipped + 1 .. offset = {} /\ skipped + 1 .. Len(events) = {} /\ 1 .. Len(journal) = {}
  BY <1>1
<1> QED BY <1>1, <1>2 DEF LinesInv, LinesAccounted

LEMMA LinesNext == Inv /\ Inv' /\ LinesInv /\ [Next]_vars => LinesInv'
<1> SUFFICES ASSUME Inv, Inv', LinesInv, [Next]_vars PROVE LinesInv'
  OBVIOUS
<1>1. CASE DetectorGoesOn
  <2>1. ChannelGrows /\ UNCHANGED displayVars
    BY <1>1, DetectorStepKeeps DEF DetectorGoesOn, Inv
  <2> QED BY <2>1, DetectorKeepsLines DEF displayVars
<1>2. CASE TakeJob
  <2>1. PICK v \in Verdicts, seat \in queued \cup {NoSn} : JudgeJob(v, seat)
    BY <1>2 DEF TakeJob
  <2>2. seat \in Nat
    BY <2>1, DisplayAssumption DEF Inv, DisplayInv, TriggerInv, Sns, NoSn
  <2>3. ChannelGrows
    BY <2>1, <2>2, JudgeJobKeeps DEF Inv
  <2> QED BY <1>2, <2>3, DetectorKeepsLines DEF TakeJob
<1>3. CASE Restart
  BY <1>3, RestartKeepsLines
<1>4. CASE ReadNewEvents
  BY <1>4, ReadKeepsLines
<1>5. CASE ProcessNextEvent
  BY <1>5, ProcessKeepsLines
<1>6. CASE ReadLatest
  BY <1>6, LatestKeepsLines
<1>7. CASE \/ \E waitOver, countdownOver \in BOOLEAN : Tick(waitOver, countdownOver)
           \/ HideNgOverlay \/ ManualTrigger \/ FinishManualTrigger
           \/ \E acknowledged, delivered \in BOOLEAN :
                 ExchangeWithController(acknowledged, delivered)
           \/ UNCHANGED vars
  <2>1. UNCHANGED <<events, sessionVars, batch, offset, seen, journal>>
    BY <1>7 DEF Tick, HideNgOverlay, ManualTrigger, FinishManualTrigger,
                ExchangeWithController, vars, displayVars, channelVars, pollVars, resultVars
  <2> QED BY <2>1, LinesStay
<1> QED BY <1>1, <1>2, <1>3, <1>4, <1>5, <1>6, <1>7 DEF Next

LEMMA LinesAlways == Spec => [](Inv /\ LinesInv)
<1>1. Init => Inv /\ LinesInv
  BY InitKeeps, LinesInit
<1>2. Inv /\ LinesInv /\ [Next]_vars => (Inv /\ LinesInv)'
  BY StepKeeps, LinesNext
<1> QED BY <1>1, <1>2, PTL DEF Spec

\* Every line of the session that was read is counted, unless it is about to be
\* processed or more lines than are read at once came after it: neither
\* display_latest.json, which brings results before their lines, nor what a
\* restart remembers ever stands in the way (display_bridge.py 144-168,
\* main_viewmodel.py 312-319, 608-654).
THEOREM NoLineIsMissed == Spec => []LinesAccounted
<1>1. LinesInv => LinesAccounted
  BY DEF LinesInv
<1> QED BY <1>1, LinesAlways, PTL

-----------------------------------------------------------------------------
(***************************************************************************)
(* What eventually happens.  Fairness is stated with the guards of the     *)
(* actions spelled out, since ENABLED is beyond the prover.  That the loop *)
(* over the lines read ends is a hypothesis of its own: it follows from    *)
(* BatchShrinks by induction over the number of lines.                     *)
(***************************************************************************)
TickSome == \E waitOver, countdownOver \in BOOLEAN : Tick(waitOver, countdownOver)
TimeOut == \E countdownOver \in BOOLEAN : Tick(TRUE, countdownOver)
Exchange == \E acknowledged, delivered \in BOOLEAN :
               ExchangeWithController(acknowledged, delivered)

\* The event loop runs the timer's handler, and each of its runs ends.
TimerRuns ==
  /\ []<>(task # "none") \/ []<><<ReadNewEvents>>_vars
  /\ []<>(task # "lines")
  /\ []<>(task # "latest") \/ []<><<ReadLatest>>_vars
  /\ []<>(task # "ticks") \/ []<><<TickSome>>_vars

\* The trigger's thread ends; its signal is taken between two runs of the
\* handler; the clock of a wait that lasts runs out.
TriggerRuns ==
  /\ []<>~(trigger.stage = "submitting" /\ answer = "none") \/ []<><<Exchange>>_vars
  /\ <>[]~(task = "none" /\ answer # "none") \/ []<><<FinishManualTrigger>>_vars
  /\ <>[]~(task = "ticks" /\ trigger.stage = "waiting_result") \/ []<><<TimeOut>>_vars

\* Where a step can lead the timer's handler.
LEMMA HandlerSteps ==
  ASSUME Inv, [Next]_vars
  PROVE  /\ task \in {"none", "lines", "latest", "ticks"}
         /\ task' # task =>
              \/ Restart /\ task' = "none"
              \/ ReadNewEvents /\ task = "none" /\ task' \in {"lines", "latest"}
              \/ task \in {"lines", "latest"} /\ task' = "ticks"
              \/ task = "ticks" /\ task' = "none"
<1>1. task \in {"none", "lines", "latest", "ticks"}
  BY DEF Inv, DisplayInv, PollInv, Tasks
<1>2. CASE Restart
  BY <1>1, <1>2 DEF Restart
<1>3. CASE ReadNewEvents
  BY <1>1, <1>3 DEF ReadNewEvents
<1>4. CASE ProcessNextEvent \/ ReadLatest
  BY <1>1, <1>4 DEF ProcessNextEvent, ReadLatest
<1>5. CASE TickSome
  BY <1>1, <1>5 DEF Tick, TickSome
<1>6. CASE \/ DetectorGoesOn \/ TakeJob \/ UNCHANGED vars
           \/ HideNgOverlay \/ ManualTrigger \/ FinishManualTrigger \/ Exchange
  <2>1. task' = task
    BY <1>6 DEF DetectorGoesOn, TakeJob, HideNgOverlay, ManualTrigger, FinishManualTrigger,
                Exchange, ExchangeWithController, vars, displayVars, pollVars
  <2> QED BY <1>1, <2>1
<1> QED BY <1>2, <1>3, <1>4, <1>5, <1>6 DEF Next, TickSome, Exchange

\* Each pass through the loop over the lines makes them fewer.
LEMMA BatchShrinks ==
  Inv /\ [Next]_vars /\ task = "lines" /\ task' = "lines" =>
    batch' = batch \/ Len(batch') = Len(batch) - 1
<1> SUFFICES ASSUME Inv, [Next]_vars, task = "lines", task' = "lines"
             PROVE  batch' = batch \/ Len(batch') = Len(batch) - 1
  OBVIOUS
<1>1. CASE ProcessNextEvent
  <2>1. batch \in Seq(Recorded) /\ batch # <<>> /\ batch' = Tail(batch)
    BY <1>1 DEF ProcessNextEvent, Inv, DisplayInv, PollInv
  <2> QED BY <2>1, HeadTailProperties
<1>2. CASE \/ Restart \/ ReadNewEvents \/ ReadLatest \/ TickSome
  BY <1>2 DEF Restart, ReadNewEvents, ReadLatest, Tick, TickSome
<1>3. CASE \/ DetectorGoesOn \/ TakeJob \/ UNCHANGED vars
           \/ HideNgOverlay \/ ManualTrigger \/ FinishManualTrigger \/ Exchange
  BY <1>3 DEF DetectorGoesOn, TakeJob, HideNgOverlay, ManualTrigger, FinishManualTrigger,
              Exchange, ExchangeWithController, vars, displayVars, pollVars
<1> QED BY <1>1, <1>2, <1>3 DEF Next, TickSome, Exchange

\* The handler comes back to its start.
LEMMA HandlerReturns == Spec /\ TimerRuns => []<>(task = "none")
<1>1. Inv => task = "none" \/ task = "lines" \/ task = "latest" \/ task = "ticks"
  BY DEF Inv, DisplayInv, PollInv, Tasks
<1>2. Inv /\ task = "lines" /\ [Next]_vars => (task = "lines" \/ task = "ticks" \/ task = "none")'
  BY HandlerSteps
<1>3. Inv /\ task = "latest" /\ [Next]_vars =>
        (task = "latest" \/ task = "ticks" \/ task = "none")'
  BY HandlerSteps
<1>4. Inv /\ task = "ticks" /\ [Next]_vars => (task = "ticks" \/ task = "none")'
  BY HandlerSteps
<1>5. <<ReadLatest>>_vars => (task = "ticks")'
  BY DEF ReadLatest
<1>6. <<TickSome>>_vars => (task = "none")'
  BY DEF TickSome, Tick
<1>7. /\ task = "lines" => ~(task # "lines")
      /\ task = "latest" => ~(task # "latest")
      /\ task = "ticks" => ~(task # "ticks")
  OBVIOUS
<1> QED BY <1>1, <1>2, <1>3, <1>4, <1>5, <1>6, <1>7, Invariance, PTL DEF Spec, TimerRuns

\* Unless the trigger is idle at some time, the handler comes to its ticks.
LEMMA HandlerTicks ==
  Spec /\ TimerRuns => []<>(task = "ticks" \/ trigger.stage = "idle")
<1> DEFINE Idle == trigger.stage = "idle"
<1>1. Inv => task = "none" \/ task = "lines" \/ task = "latest" \/ task = "ticks"
  BY DEF Inv, DisplayInv, PollInv, Tasks
<1>2. Restart => Idle'
  BY DEF Restart, IdleTrigger
<1>3. Inv /\ task = "lines" /\ [Next]_vars => (task = "lines" \/ task = "ticks" \/ Idle)'
  BY <1>2, HandlerSteps
<1>4. Inv /\ task = "latest" /\ [Next]_vars => (task = "latest" \/ task = "ticks" \/ Idle)'
  BY <1>2, HandlerSteps
<1>5. Inv /\ task = "none" /\ [Next]_vars =>
        (task = "none" \/ task = "lines" \/ task = "latest" \/ Idle)'
  BY <1>2, HandlerSteps
<1>6. <<ReadNewEvents>>_vars => (task = "lines" \/ task = "latest")'
  BY DEF ReadNewEvents
<1>7. <<ReadLatest>>_vars => (task = "ticks")'
  BY DEF ReadLatest
<1>8. /\ task = "none" => ~(task # "none")
      /\ task = "lines" => ~(task # "lines")
      /\ task = "latest" => ~(task # "latest")
  OBVIOUS
<1> HIDE DEF Idle
<1>9. Spec /\ TimerRuns => []<>(task = "ticks" \/ Idle)
  BY <1>1, <1>3, <1>4, <1>5, <1>6, <1>7, <1>8, Invariance, PTL DEF Spec, TimerRuns
<1> QED BY <1>9, PTL DEF Idle

\* Where a step can lead the trigger.
LEMMA TriggerSteps ==
  ASSUME Inv, [Next]_vars
  PROVE  /\ trigger.stage \in {"idle", "submitting", "waiting_result"}
         /\ trigger.stage = "submitting" /\ answer = "none" =>
              trigger'.stage = "idle" \/ trigger'.stage = "submitting"
         /\ trigger.stage = "submitting" /\ answer # "none" =>
              \/ trigger'.stage \in {"idle", "waiting_result"}
              \/ trigger'.stage = "submitting" /\ answer' # "none"
         /\ trigger.stage = "waiting_result" =>
              trigger'.stage \in {"idle", "waiting_result"}
<1>1. /\ trigger.stage \in {"idle", "submitting", "waiting_result"}
      /\ answer # "none" => trigger.stage = "submitting"
  BY DEF Inv, DisplayInv, TriggerInv
<1>2. CASE Restart
  BY <1>1, <1>2 DEF Restart, IdleTrigger
<1>3. CASE ProcessNextEvent \/ ReadLatest
  <2>1. \/ trigger' = trigger
        \/ trigger.stage = "waiting_result" /\ trigger' = IdleTrigger
    BY <1>3 DEF ProcessNextEvent, ReadLatest, ShowEvent, RefreshImages, ApplyEvent,
                CompleteManualTriggerWait
  <2>2. answer' = answer
    BY <1>3 DEF ProcessNextEvent, ReadLatest
  <2> QED BY <1>1, <2>1, <2>2 DEF IdleTrigger
<1>4. CASE TickSome
  BY <1>1, <1>4 DEF Tick, TickSome, IdleTrigger
<1>5. CASE ManualTrigger
  BY <1>1, <1>5 DEF ManualTrigger
<1>6. CASE FinishManualTrigger
  <2>1. trigger \in [stage: {"idle", "submitting", "waiting_result"},
                     sn: Sns \cup {NoSn}, since: Jobs \cup {NoJob}]
    BY DEF Inv, DisplayInv, TriggerInv
  <2> QED BY <1>1, <1>6, <2>1 DEF FinishManualTrigger, IdleTrigger
<1>7. CASE Exchange
  BY <1>1, <1>7 DEF Exchange, ExchangeWithController
<1>8. CASE \/ DetectorGoesOn \/ TakeJob \/ UNCHANGED vars
           \/ ReadNewEvents \/ HideNgOverlay
  <2>1. trigger' = trigger /\ answer' = answer
    BY <1>8 DEF DetectorGoesOn, TakeJob, HideNgOverlay, ReadNewEvents,
                vars, displayVars, triggerVars
  <2> QED BY <1>1, <2>1
<1> QED BY <1>2, <1>3, <1>4, <1>5, <1>6, <1>7, <1>8 DEF Next, TickSome, Exchange

\* A manual trigger ends, whatever happens to the connection, to the job and to
\* its result: its thread ends, its signal is taken, and either its result comes
\* or its time is over (main_viewmodel.py 379-443, 775-813).
THEOREM TriggersEnd == Spec /\ TimerRuns /\ TriggerRuns => TriggerEnds
<1> DEFINE Idle == trigger.stage = "idle"
           Sent == trigger.stage = "submitting" /\ answer = "none"
           Back == trigger.stage = "submitting" /\ answer # "none"
           Waits == trigger.stage = "waiting_result"
           Signalled == task = "none" /\ answer # "none"
           Ticking == task = "ticks" /\ Waits
<1>1. Inv => Idle \/ Sent \/ Back \/ Waits
  BY DEF Inv, DisplayInv, TriggerInv
<1>2. Inv /\ Sent /\ [Next]_vars => Idle' \/ Sent' \/ Back'
  BY TriggerSteps
<1>3. Inv /\ Back /\ [Next]_vars => Idle' \/ Back' \/ Waits'
  BY TriggerSteps
<1>4. Inv /\ Waits /\ [Next]_vars => Idle' \/ Waits'
  BY TriggerSteps
<1>5. Inv /\ Sent /\ <<Exchange>>_vars => Back'
  BY DEF Exchange, ExchangeWithController
<1>6. Inv /\ Back /\ <<FinishManualTrigger>>_vars => Idle' \/ Waits'
  BY DEF Inv, DisplayInv, TriggerInv, FinishManualTrigger, IdleTrigger
<1>7. <<TimeOut>>_vars => Idle'
  BY DEF TimeOut, Tick, IdleTrigger
<1>8. /\ Back /\ task = "none" => Signalled
      /\ Waits /\ task = "ticks" => Ticking
      /\ Waits => ~Idle /\ ~Sent /\ ~Back
      /\ Back => ~Idle /\ ~Sent
      /\ Sent => ~Idle
  OBVIOUS
<1>9. TriggerRuns => /\ []<>~Sent \/ []<><<Exchange>>_vars
                     /\ <>[]~Signalled \/ []<><<FinishManualTrigger>>_vars
                     /\ <>[]~Ticking \/ []<><<TimeOut>>_vars
  BY PTL DEF TriggerRuns
<1>10. Spec /\ TimerRuns => []<>(task = "none") /\ []<>(task = "ticks" \/ Idle)
  BY HandlerReturns, HandlerTicks, PTL
<1> HIDE DEF Idle, Sent, Back, Waits, Signalled, Ticking
<1>11. Spec /\ TimerRuns /\ TriggerRuns => []<>Idle
  <2>1. Spec /\ TimerRuns /\ TriggerRuns => (Sent ~> Idle \/ Back)
    BY <1>1, <1>2, <1>5, <1>8, <1>9, Invariance, PTL DEF Spec
  <2>2. Spec /\ TimerRuns /\ TriggerRuns => (Back ~> Idle \/ Waits)
    BY <1>1, <1>3, <1>6, <1>8, <1>9, <1>10, Invariance, PTL DEF Spec
  <2>3. Spec /\ TimerRuns /\ TriggerRuns => (Waits ~> Idle)
    BY <1>1, <1>4, <1>7, <1>8, <1>9, <1>10, Invariance, PTL DEF Spec
  <2> QED BY <1>1, <2>1, <2>2, <2>3, Invariance, PTL
<1> QED BY <1>11, PTL DEF TriggerEnds, Idle

\* The files and what was read of them only grow.
LEMMA FilesGrow ==
  ASSUME Inv, [Next]_vars
  PROVE  /\ Len(events) \in Nat /\ Len(events') \in Nat /\ Len(events) <= Len(events')
         /\ offset \in Nat /\ offset' \in Nat /\ offset <= offset'
<1>1. Inv'
  BY StepKeeps
<1>2. /\ Len(events) \in Nat /\ Len(events') \in Nat /\ offset \in Nat /\ offset' \in Nat
      /\ offset <= Len(events)
  BY <1>1, RecordedPublished DEF Inv, DisplayInv, PollInv
<1>3. CASE DetectorGoesOn
  <2>1. ChannelGrows /\ offset' = offset
    BY <1>3, DetectorStepKeeps DEF DetectorGoesOn, Inv, displayVars, pollVars
  <2> QED BY <1>2, <2>1 DEF ChannelGrows
<1>4. CASE TakeJob
  <2>1. UNCHANGED <<events, offset>>
    BY <1>4 DEF TakeJob, JudgeJob, pollVars
  <2> QED BY <1>2, <2>1
<1>5. CASE ReadNewEvents \/ Restart
  <2>1. events' = events /\ offset' = Len(events)
    BY <1>5 DEF ReadNewEvents, Restart, channelVars
  <2> QED BY <1>2, <2>1
<1>6. CASE \/ ProcessNextEvent \/ ReadLatest \/ TickSome \/ UNCHANGED vars
           \/ HideNgOverlay \/ ManualTrigger \/ FinishManualTrigger \/ Exchange
  <2>1. UNCHANGED <<events, offset>>
    BY <1>6 DEF ProcessNextEvent, ReadLatest, Tick, TickSome, HideNgOverlay, ManualTrigger,
                FinishManualTrigger, Exchange, ExchangeWithController, vars, displayVars,
                channelVars, pollVars
  <2> QED BY <1>2, <2>1
<1> QED BY <1>3, <1>4, <1>5, <1>6 DEF Next, TickSome, Exchange

\* Every line that is appended while the display runs is counted, unless the
\* display is restarted or more lines than it reads at once have come after it
\* (display_bridge.py 144-168, main_viewmodel.py 312-319).
THEOREM EventsAreRecorded == Spec /\ TimerRuns => EventRecorded
<1>1. ASSUME NEW i \in 1 .. MaxJobs
      PROVE  Spec /\ TimerRuns =>
               ((offset < i /\ i <= Len(events))
                  ~> \/ i <= skipped
                     \/ Len(events) >= i + LineLimit
                     \/ i <= Len(events) /\ events[i] \in Counted)
  <2> DEFINE Written == offset < i /\ i <= Len(events)
             Done == \/ i <= skipped
                     \/ Len(events) >= i + LineLimit
                     \/ i <= Len(events) /\ events[i] \in Counted
             Read == i <= offset /\ i <= Len(events) /\ ~Done
             AtStart == task = "none"
             InLines == task = "lines"
             All == Inv /\ LinesInv
  <2>0. i \in Nat
    BY ChannelAssumption
  <2>1. All /\ Read => InLines
    <3> SUFFICES ASSUME Inv, LinesInv, Read PROVE InLines
      OBVIOUS
    <3>1. i \in skipped + 1 .. offset
      BY <2>0, LineRanges
    <3>2. \E k \in 1 .. Len(batch) : batch[k] = events[i]
      BY <3>1 DEF LinesInv, LinesAccounted
    <3>3. batch # <<>>
      BY <3>2, EmptySeq
    <3> QED BY <3>3 DEF Inv, DisplayInv, PollInv
  <2>2. All /\ Written /\ [Next]_vars => Written' \/ Read' \/ Done'
    <3> SUFFICES ASSUME Inv, Written, [Next]_vars, ~Done' PROVE Written' \/ Read'
      OBVIOUS
    <3>1. i <= Len(events')
      BY <2>0, FilesGrow
    <3> QED BY <2>0, <3>1, FilesGrow
  <2>3. All /\ Written /\ AtStart /\ [Next]_vars => (Written' /\ AtStart') \/ Read' \/ Done'
    <3> SUFFICES ASSUME Inv, Written, AtStart, [Next]_vars, ~AtStart' PROVE Read' \/ Done'
      BY <2>2
    <3>1. ReadNewEvents
      BY HandlerSteps
    <3>2. offset' = Len(events) /\ events' = events
      BY <3>1 DEF ReadNewEvents, channelVars
    <3> QED BY <2>0, <3>2
  <2>4. All /\ Read /\ [Next]_vars => Read' \/ Done'
    <3> SUFFICES ASSUME Inv, Read, [Next]_vars PROVE Read' \/ Done'
      OBVIOUS
    <3>1. i <= offset' /\ i <= Len(events')
      BY <2>0, FilesGrow
    <3> QED BY <3>1
  <2>5. <<ReadNewEvents>>_vars => ~AtStart'
    BY DEF ReadNewEvents
  <2>6. /\ AtStart => task = "none" /\ ~InLines
        /\ task = "none" => AtStart
        /\ task # "none" => ~AtStart
    OBVIOUS
  <2>7. Inv /\ LinesInv => All
    OBVIOUS
  <2> HIDE DEF Written, Done, Read, AtStart, InLines, All
  <2>8. Spec => []All
    BY <2>7, Invariance, LinesAlways, PTL
  <2>9. Spec /\ TimerRuns => []<>AtStart /\ ([]<>~AtStart \/ []<><<ReadNewEvents>>_vars)
    BY <2>6, HandlerReturns, PTL DEF TimerRuns
  <2>10. Spec /\ TimerRuns => (Written ~> Read \/ Done)
    BY <2>2, <2>3, <2>5, <2>8, <2>9, PTL DEF Spec
  <2>11. Spec /\ TimerRuns => (Read ~> Done)
    BY <2>1, <2>4, <2>6, <2>8, <2>9, PTL DEF Spec
  <2>12. Spec /\ TimerRuns => (Written ~> Done)
    BY <2>10, <2>11, PTL
  <2> QED BY <2>12, PTL DEF Written, Done
<1> QED BY <1>1 DEF EventRecorded
=============================================================================
