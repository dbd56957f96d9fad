--------------------------- MODULE DisplayChannel ---------------------------
(***************************************************************************)
(* What the detector does with a verdict: it answers the controller        *)
(* through the shared memory, appends the result to display_events.jsonl,  *)
(* replaces display_latest.json, and leaves a thread behind that writes    *)
(* the images of the trace and then refreshes display_latest.json.  The    *)
(* next result may be on its way while that thread is anywhere.            *)
(*                                                                         *)
(* A result is the number of its job, which stands for the identity        *)
(* (sequence_id, trigger_id, timestamp_ms): one thread stamps all results, *)
(* so the numbers are in the order of the time stamps.  Of a line of the   *)
(* jsonl file only the result remains; of display_latest.json the result   *)
(* and whose images its trace shows: the arrays of a job are views of a    *)
(* frame slot that is filled again once the result is out.                 *)
(***************************************************************************)
EXTENDS Naturals, Sequences, FiniteSets

CONSTANTS
    MaxJobs,     \* bound: how many jobs the detector receives
    Verdicts,    \* the decisions, with "NG" among them
    Untraced     \* those the recipe's trace section saves nothing for

ASSUME ChannelAssumption ==
    MaxJobs \in Nat /\ "NG" \in Verdicts /\ Untraced \subseteq Verdicts

VARIABLES
    results,     \* results[j]: the verdict on job j and the seat it names
    job,         \* the job of the detector's thread, and the owner of the
                 \* images in the frame slot its arrays are views of
    stage,       \* where the detector's thread is
    snapshot,    \* whose images were copied for the trace; NoJob without one
    published,   \* the jobs whose result the controller was given
    events,      \* display_events.jsonl: the results in the order appended
    latest,      \* display_latest.json
    completions  \* the trace threads still at work

channelVars ==
    <<results, job, stage, snapshot, published, events, latest, completions>>

Jobs == 1 .. MaxJobs
NoJob == 0

(* build_display_event: of the file remain the job and whose images its    *)
(* trace shows.                                                            *)
LatestFile(j, images) == [job |-> j, images |-> images]
NoLatest == LatestFile(NoJob, NoJob)

Stages == {"waiting", "judged", "published", "appended"}

(* A trace thread: the job, whose images it has to write or has written,   *)
(* and its next step.                                                      *)
Completions ==
    [job: Jobs, images: Jobs, step: {"images", "check", "replace"}]

ChannelTypeOK ==
    /\ \E n \in 0 .. MaxJobs :
          results \in [1 .. n -> [verdict: Verdicts, seat: Nat]]
    /\ job \in 0 .. Len(results) /\ job = Len(results)
    /\ stage \in Stages
    /\ snapshot \in 0 .. Len(results)
    /\ published \subseteq 1 .. Len(results)
    /\ events \in Seq(1 .. Len(results))
    /\ latest \in [job: 0 .. Len(results), images: 0 .. Len(results)]
    /\ completions \subseteq Completions

ChannelInit ==
    /\ results = <<>>
    /\ job = NoJob
    /\ stage = "waiting"
    /\ snapshot = NoJob
    /\ published = {}
    /\ events = <<>>
    /\ latest = NoLatest
    /\ completions = {}

-----------------------------------------------------------------------------
(* The thread of run_forever.                                              *)

(* _snapshot_job_images, for a job with a trace.                           *)
Snapshot(j, verdict) == IF verdict \in Untraced THEN NoJob ELSE j

(* algorithm.process and _write_result_trace: the verdict stands, its      *)
(* result.json is written where the recipe asks for it, and of a traced    *)
(* job the images are copied before the slot is given back.                *)
JudgeJob(verdict, seat) ==
    /\ stage = "waiting"
    /\ Len(results) < MaxJobs
    /\ results' = Append(results, [verdict |-> verdict, seat |-> seat])
    /\ job' = job + 1
    /\ stage' = "judged"
    /\ snapshot' = Snapshot(job', verdict)
    /\ UNCHANGED <<published, events, latest, completions>>

PublishResult ==
    /\ stage = "judged"
    /\ published' = published \cup {job}
    /\ stage' = "published"
    /\ UNCHANGED <<results, job, snapshot, events, latest, completions>>

(* publish_result raises: the exception leaves run_forever, and the        *)
(* service is started again.  shutdown waits for the trace threads, which  *)
(* here finish while the result is judged, or not at all: a process that   *)
(* is killed takes its daemon threads with it.                             *)
PublishFails ==
    /\ stage = "judged"
    /\ stage' = "waiting"
    /\ snapshot' = NoJob
    /\ completions' = {}
    /\ UNCHANGED <<results, job, published, events, latest>>

(* The display written before the controller has its answer.               *)
AppendBeforePublish ==
    /\ stage = "judged"
    /\ events' = Append(events, job)
    /\ stage' = "appended"
    /\ UNCHANGED <<results, job, snapshot, published, latest, completions>>

(* DisplayChannelWriter.write: the line first, the latest result after it. *)
AppendEvent ==
    /\ stage = "published"
    /\ events' = Append(events, job)
    /\ stage' = "appended"
    /\ UNCHANGED <<results, job, snapshot, published, latest, completions>>

(* The display is written: _start_trace_completion leaves a thread with    *)
(* the time stamp of what it wrote.                                        *)
ReplaceLatest ==
    /\ stage = "appended"
    /\ latest' = LatestFile(job, NoJob)
    /\ completions' =
          IF snapshot = NoJob
          THEN completions
          ELSE completions \cup
                 {[job |-> job, images |-> snapshot, step |-> "images"]}
    /\ stage' = "waiting"
    /\ snapshot' = NoJob
    /\ UNCHANGED <<results, job, published, events>>

(* Either write fails: the message goes to stderr, and a trace thread      *)
(* without the time stamp leaves the display alone.                        *)
DisplayWriteFails ==
    /\ stage \in {"published", "appended"}
    /\ stage' = "waiting"
    /\ snapshot' = NoJob
    /\ UNCHANGED <<results, job, published, events, latest, completions>>

-----------------------------------------------------------------------------
(* The trace threads.                                                      *)

(* The images read from the frame slot, whoever owns it by now.            *)
LiveImages(c) == job

(* complete writes the images of the snapshot it was started with.         *)
WrittenImages(c) == c.images

Leaves(c) == completions' = completions \ {c}
Becomes(c, next) == completions' = (completions \ {c}) \cup {next}

CompleteTrace(c) ==
    /\ c.step = "images"
    /\ Becomes(c, [c EXCEPT !.step = "check", !.images = WrittenImages(c)])
    /\ UNCHANGED <<results, job, stage, snapshot, published, events, latest>>

CompletionFails(c) ==
    /\ Leaves(c)
    /\ UNCHANGED <<results, job, stage, snapshot, published, events, latest>>

(* update_latest compares what it reads with its own result ...            *)
MayRefresh(c) == latest.job \in {NoJob, c.job}

CheckLatest(c) ==
    /\ c.step = "check"
    /\ IF MayRefresh(c)
       THEN Becomes(c, [c EXCEPT !.step = "replace"])
       ELSE Leaves(c)
    /\ UNCHANGED <<results, job, stage, snapshot, published, events, latest>>

(* ... and replaces the file in a later step, without a lock.              *)
RefreshLatest(c) ==
    /\ c.step = "replace"
    /\ latest' = LatestFile(c.job, c.images)
    /\ Leaves(c)
    /\ UNCHANGED <<results, job, stage, snapshot, published, events>>

DetectorStep ==
    \/ PublishResult \/ PublishFails \/ AppendEvent
    \/ ReplaceLatest \/ DisplayWriteFails
    \/ \E c \in completions :
          CompleteTrace(c) \/ CompletionFails(c)
            \/ CheckLatest(c) \/ RefreshLatest(c)
=============================================================================
