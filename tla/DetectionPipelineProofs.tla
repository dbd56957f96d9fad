----------------------- MODULE DetectionPipelineProofs -----------------------
(***************************************************************************)
(* Theorems about DetectionPipeline, for all installations, edits, losses, *)
(* disturbances and answers of the networks, and any number of faults.     *)
(***************************************************************************)
EXTENDS DetectionPipeline, TLAPS

\* The steps behind the quality gate, of a job that has no verdict yet.
Gated == {"preprocess", "register", "features", "infer", "fuse", "decide"}

\* A verdict that may leave the pipeline: the controller accepts it, and it
\* passes or rejects a seat only if the job has passed the gate.
Fit(v) ==
  /\ v \in Protocol!Verdict /\ Protocol!Acceptable(v)
  /\ v.decision \in {"OK", "NG"} => GatePasses(job, recipe)

\* The inductive invariant: whatever follows the gate has passed it.
PipelineInv ==
  /\ TypeOK
  /\ stage \in Gated => GatePasses(job, recipe)
  /\ verdict # Absent => Fit(verdict)

-----------------------------------------------------------------------------
(***************************************************************************)
(* The verdicts.                                                           *)
(***************************************************************************)

\* Every verdict for a job that could not be judged is fit to be published.
LEMMA FailuresFit ==
  ASSUME NEW kind
  PROVE  /\ Fit(Handled(kind)) /\ Fit(InternalError) /\ Fit(QualityFailed)
         /\ \A v \in Protocol!Verdict : Fit(Untraced(v))
<1>1. Fit(InternalError) /\ Fit(QualityFailed) /\ Fit(AssetUnavailable(TRUE))
  BY DEF Fit, InternalError, QualityFailed, AssetUnavailable, Protocol!Verdict,
         Protocol!Decisions, Protocol!ErrorCodes, Protocol!Acceptable
<1>2. Handled(kind) \in {InternalError, QualityFailed, AssetUnavailable(TRUE)}
  BY DEF Handled
<1>3. ASSUME NEW v \in Protocol!Verdict
      PROVE  Fit(Untraced(v))
  BY DEF Fit, Untraced, Protocol!Verdict, Protocol!Decisions, Protocol!ErrorCodes,
         Protocol!Acceptable
<1> QED BY <1>1, <1>2, <1>3

\* Whatever the rule engine is given, it decides without contradicting itself.
LEMMA DecisionsFit ==
  ASSUME NEW f, NEW t, GatePasses(job, recipe)
  PROVE  Fit(Decide(f, t))
<1> DEFINE judged(j) == \E i \in DOMAIN f.kept : Judge(f.kept[i], t) = j
           worst == IF judged("NG") THEN "NG" ELSE IF judged("RECHECK") THEN "RECHECK" ELSE "OK"
           unjudged == f.overflow > 0 /\ worst = "OK"
           d == IF unjudged THEN "RECHECK" ELSE worst
           c == IF unjudged THEN "ConfigurationError" ELSE "None"
           any == judged("NG") \/ judged("RECHECK")
<1>1. Decide(f, t) = [decision |-> d, quality |-> TRUE, code |-> c, defects |-> any]
  BY DEF Decide
<1>2. /\ d \in {"OK", "NG", "RECHECK"} /\ c \in {"None", "ConfigurationError"}
      /\ any \in BOOLEAN
      /\ d \in {"OK", "NG"} => c = "None" /\ (any <=> d = "NG")
  OBVIOUS
<1> HIDE DEF d, c, any
<1> QED BY <1>1, <1>2 DEF Fit, Protocol!Verdict, Protocol!Decisions, Protocol!ErrorCodes,
                          Protocol!Acceptable

-----------------------------------------------------------------------------
(***************************************************************************)
(* The inductive invariant.                                                *)
(***************************************************************************)

\* The stages of a job without a verdict, and a step to one of them.
LEMMA ContinueKeeps ==
  ASSUME PipelineInv, verdict = Absent, NEW to \in Stages \ {"stopped", "trace", "done"},
         to \in Gated => GatePasses(job, recipe),
         stage # "stopped", Continue(to), UNCHANGED recipe
  PROVE  PipelineInv'
BY DEF PipelineInv, TypeOK, Continue, Stages, given

\* A step that ends the job with a verdict that is fit.
LEMMA EndKeeps ==
  ASSUME PipelineInv, NEW v, Fit(v), stage # "stopped", EndWith(v), UNCHANGED recipe
  PROVE  PipelineInv'
<1>1. v # Absent
  BY AbsentAssumption DEF Fit
<1>2. /\ stage' = "trace" /\ verdict' = v /\ faults' = faults
      /\ job' = job /\ recipe' = recipe
  BY DEF EndWith, given
<1>3. Fit(v)'
  BY <1>2 DEF Fit
<1> QED BY <1>1, <1>2, <1>3 DEF PipelineInv, TypeOK, Stages, Gated, Fit

LEMMA InitInv == Init => PipelineInv
BY MaxFaultsAssumption DEF Init, PipelineInv, TypeOK, Stages, Gated

LEMMA NextInv == PipelineInv /\ [Next]_vars => PipelineInv'
<1> SUFFICES ASSUME PipelineInv, [Next]_vars PROVE PipelineInv'
  OBVIOUS
<1>0. TypeOK /\ (stage \in Gated => GatePasses(job, recipe))
  BY DEF PipelineInv
<1>1. CASE EditRecipe \/ LoseFile \/ DisturbJob
  <2>1. /\ stage \in {"stopped", "idle"} /\ faults < MaxFaults
        /\ faults' = faults + 1 /\ stage' = stage /\ recipe' = recipe /\ verdict' = verdict
    BY <1>1 DEF EditRecipe, LoseFile, DisturbJob, Fault
  <2>2. faults' \in 0 .. MaxFaults
    BY <2>1, <1>0, MaxFaultsAssumption DEF TypeOK
  <2>3. verdict = Absent /\ stage \notin Gated
    BY <2>1, <1>0 DEF TypeOK, Gated
  <2> QED BY <2>1, <2>2, <2>3, <1>0 DEF PipelineInv, TypeOK
<1>2. CASE StartDetector \/ RefuseRecipes \/ Submit
  <2>1. /\ stage \in {"stopped", "idle"}
        /\ stage' \in {"idle", "recipe"} \/ (stage' = stage /\ recipe' = recipe)
        /\ faults' = faults /\ verdict' = verdict
    BY <1>2 DEF StartDetector, RefuseRecipes, Submit, given
  <2>2. verdict = Absent
    BY <2>1, <1>0 DEF TypeOK
  <2> QED BY <2>1, <2>2, <1>0 DEF PipelineInv, TypeOK, Stages, Gated
<1>3. CASE LoadRecipe
  <2>1. stage = "recipe" /\ recipe' = recipe
    BY <1>3 DEF LoadRecipe
  <2>2. verdict = Absent
    BY <2>1, <1>0 DEF TypeOK
  <2>3. CASE Continue("gate")
    BY <2>1, <2>2, <2>3, ContinueKeeps DEF Stages, Gated
  <2>4. CASE EndWith(InternalError)
    BY <2>1, <2>4, EndKeeps, FailuresFit
  <2> QED BY <1>3, <2>3, <2>4 DEF LoadRecipe
<1>4. CASE CheckQuality
  <2>1. stage = "gate" /\ recipe' = recipe
    BY <1>4 DEF CheckQuality
  <2>2. verdict = Absent
    BY <2>1, <1>0 DEF TypeOK
  <2>3. CASE GatePasses(job, recipe) /\ Continue("preprocess")
    BY <2>1, <2>2, <2>3, ContinueKeeps DEF Stages, Gated
  <2>4. CASE EndWith(QualityFailed)
    BY <2>1, <2>4, EndKeeps, FailuresFit
  <2> QED BY <1>4, <2>3, <2>4 DEF CheckQuality
<1>5. ASSUME stage \in Gated, recipe' = recipe,
             NEW to \in Gated, NEW kind,
             Continue(to) \/ EndWith(Handled(kind)) \/ EndWith(InternalError)
               \/ EndWith(QualityFailed)
      PROVE  PipelineInv'
  <2>1. verdict = Absent /\ GatePasses(job, recipe) /\ stage # "stopped"
    BY <1>5, <1>0 DEF TypeOK, Gated
  <2>2. CASE Continue(to)
    BY <2>1, <2>2, <1>5, ContinueKeeps DEF Stages, Gated
  <2>3. ASSUME NEW v, Fit(v), EndWith(v)
        PROVE  PipelineInv'
    BY <2>1, <2>3, <1>5, EndKeeps
  <2> QED BY <1>5, <2>2, <2>3, FailuresFit
<1>6. CASE Preprocess
  <2> DEFINE bundles == [i \in DOMAIN job.bundles |-> Prepare(job.bundles[i], recipe, site)]
             failed == {i \in DOMAIN bundles : bundles[i].kind # "ok"}
  <2>1. /\ stage = "preprocess" /\ recipe' = recipe
        /\ Continue("register") \/ EndWith(Handled(bundles[Min(failed)].kind))
    BY <1>6 DEF Preprocess
  <2> QED BY <2>1, <1>5 DEF Gated
<1>7. CASE Register
  <2>1. /\ stage = "register" /\ recipe' = recipe
        /\ Continue("features") \/ EndWith(QualityFailed)
    BY <1>7 DEF Register
  <2> QED BY <2>1, <1>5 DEF Gated
<1>8. CASE BuildFeatures
  <2>1. /\ stage = "features" /\ recipe' = recipe
        /\ Continue("infer") \/ EndWith(InternalError)
    BY <1>8 DEF BuildFeatures
  <2> QED BY <2>1, <1>5 DEF Gated
<1>9. CASE InferDefects
  <2> DEFINE answer == Infer(groups, recipe, site, observed')
  <2>1. /\ stage = "infer" /\ recipe' = recipe
        /\ Continue("fuse") \/ EndWith(Handled(answer.kind))
    BY <1>9 DEF InferDefects
  <2> QED BY <2>1, <1>5 DEF Gated
<1>10. CASE FuseCandidates
  <2>1. /\ stage = "fuse" /\ recipe' = recipe
        /\ Continue("decide") \/ EndWith(InternalError)
    BY <1>10 DEF FuseCandidates
  <2> QED BY <2>1, <1>5 DEF Gated
<1>11. CASE DecideVerdict
  <2>1. /\ stage = "decide" /\ recipe' = recipe
        /\ EndWith(Decide(fused, recipe.threshold))
    BY <1>11 DEF DecideVerdict
  <2>2. GatePasses(job, recipe)
    BY <2>1, <1>0 DEF Gated
  <2> QED BY <2>1, <2>2, DecisionsFit, EndKeeps
<1>12. CASE WriteTrace
  <2>1. /\ stage = "trace" /\ stage' = "done" /\ faults' = faults
        /\ recipe' = recipe /\ job' = job
        /\ verdict' = verdict \/ verdict' = Untraced(verdict)
    BY <1>12 DEF WriteTrace, given
  <2>2. verdict # Absent /\ Fit(verdict) /\ verdict \in Protocol!Verdict
    BY <2>1 DEF PipelineInv, TypeOK
  <2>3. Fit(verdict')
    BY <2>1, <2>2, FailuresFit
  <2>4. verdict' # Absent /\ verdict' \in Protocol!Verdict
    BY <2>3, AbsentAssumption DEF Fit
  <2>5. Fit(verdict)'
    BY <2>1, <2>3 DEF Fit
  <2> QED BY <2>1, <2>4, <2>5, <1>0 DEF PipelineInv, TypeOK, Stages, Gated
<1>13. CASE NextJob
  BY <1>13, <1>0 DEF NextJob, PipelineInv, TypeOK, Stages, Gated, given
<1>14. CASE UNCHANGED vars
  BY <1>14 DEF vars, given, PipelineInv, TypeOK, Fit
<1> QED
  BY <1>1, <1>2, <1>3, <1>4, <1>6, <1>7, <1>8, <1>9, <1>10, <1>11, <1>12, <1>13, <1>14
     DEF Next, Process

LEMMA InvAlways == Spec => []PipelineInv
<1> QED BY InitInv, NextInv, PTL DEF Spec

-----------------------------------------------------------------------------
(***************************************************************************)
(* What the gate has seen to.                                              *)
(***************************************************************************)

\* The frame of a required light is at the light's place in RequiredFrames.
LEMMA RequiredPlaced ==
  ASSUME NEW b, NEW r, NEW l \in ToSet(r.quality.required), l \in DOMAIN b.frames
  PROVE  \E i \in DOMAIN RequiredFrames(b, r) :
           r.quality.required[i] = l /\ RequiredFrames(b, r)[i] = b.frames[l]
<1>1. PICK i \in DOMAIN r.quality.required : r.quality.required[i] = l
  BY DEF ToSet
<1> QED BY <1>1 DEF RequiredFrames

\* Two frames that passed the comparison belong to one shot.
LEMMA PairConsistent ==
  ASSUME NEW b, NEW r, NEW required, CaptureOK(b, r, required),
         NEW i \in DOMAIN RequiredFrames(b, r), NEW j \in DOMAIN RequiredFrames(b, r), i # j
  PROVE  LET x == RequiredFrames(b, r)[i]
             y == RequiredFrames(b, r)[j]
         IN  /\ x.shot = y.shot /\ x.robotTime = y.robotTime
             /\ AbsDifference(x.time, y.time) <= r.quality.maxSpan
             /\ x.seq # y.seq
<1> DEFINE fs == RequiredFrames(b, r)
<1>1. /\ Within({fs[k].time : k \in DOMAIN fs}, r.quality.maxSpan)
      /\ \A k, l \in DOMAIN fs : fs[k].seq = fs[l].seq => k = l
      /\ RobotPoseOK(fs, r.quality, required)
  BY DEF CaptureOK
<1>2. fs[i].shot = fs[j].shot /\ fs[i].robotTime = fs[j].robotTime
  BY <1>1 DEF RobotPoseOK
<1>3. /\ fs[i].time - fs[j].time <= r.quality.maxSpan
      /\ fs[j].time - fs[i].time <= r.quality.maxSpan
  BY <1>1 DEF Within
<1> QED BY <1>1, <1>2, <1>3 DEF AbsDifference

\* A job that passes the gate brought one shot of every view.
LEMMA GateMeansOneShot ==
  ASSUME GatePasses(job, recipe), NEW i \in DOMAIN job.bundles,
         NEW k \in ToSet(recipe.quality.required), NEW l \in ToSet(recipe.quality.required),
         k # l
  PROVE  LET a == job.bundles[i].frames[k]
             b == job.bundles[i].frames[l]
         IN  /\ a.shot = b.shot /\ a.robotTime = b.robotTime
             /\ AbsDifference(a.time, b.time) <= recipe.quality.maxSpan
             /\ a.seq # b.seq
<1> DEFINE b == job.bundles[i]
           fs == RequiredFrames(b, recipe)
           required == RequiresRobotPose(job, recipe)
<1>1. BundleOK(b, recipe, required)
  BY DEF GatePasses
<1>2. CaptureOK(b, recipe, required) /\ k \in DOMAIN b.frames /\ l \in DOMAIN b.frames
  BY <1>1 DEF BundleOK
<1>3. PICK m \in DOMAIN fs : recipe.quality.required[m] = k /\ fs[m] = b.frames[k]
  BY <1>2, RequiredPlaced
<1>4. PICK n \in DOMAIN fs : recipe.quality.required[n] = l /\ fs[n] = b.frames[l]
  BY <1>2, RequiredPlaced
<1>5. m # n
  BY <1>3, <1>4
<1> HIDE DEF fs, required, b
<1>6. LET x == fs[m]
          y == fs[n]
      IN  /\ x.shot = y.shot /\ x.robotTime = y.robotTime
          /\ AbsDifference(x.time, y.time) <= recipe.quality.maxSpan
          /\ x.seq # y.seq
  BY <1>2, <1>5, PairConsistent DEF fs
<1> QED BY <1>3, <1>4, <1>6 DEF b

\* A job that passes the gate brought every view under every required light.
LEMMA GateMeansSeen == GatePasses(job, recipe) => SeenInFull
<1> SUFFICES ASSUME GatePasses(job, recipe) PROVE SeenInFull
  OBVIOUS
<1>1. ASSUME NEW view \in Views(recipe)
      PROVE  Seen(view)
  <2>1. ~Missing(view, job)
    BY DEF GatePasses
  <2>2. CASE view \in SeenViews(job)
    <3>1. PICK i \in DOMAIN job.bundles : view = ViewOf(job.bundles[i])
      BY <2>2 DEF SeenViews
    <3>2. PICK n \in DOMAIN recipe.cameras :
            view = <<recipe.cameras[n].camera, recipe.cameras[n].pose>>
      BY DEF Views
    <3>3. CASE job.bundles[i].pose = Absent
      BY <3>1, <3>2, <3>3 DEF Seen, ViewOf, Given
    <3>4. CASE job.bundles[i].pose # Absent
      BY <3>1, <3>2, <3>4 DEF Seen, ViewOf, Given
    <3> QED BY <3>3, <3>4
  <2>3. CASE view \notin SeenViews(job)
    <3>1. IsDefaultView(view) /\ \E seen \in SeenViews(job) : seen[1] = view[1]
      BY <2>1, <2>3 DEF Missing
    <3>2. PICK i \in DOMAIN job.bundles : ViewOf(job.bundles[i])[1] = view[1]
      BY <3>1 DEF SeenViews
    <3>3. job.bundles[i].camera = view[1]
      BY <3>2 DEF ViewOf
    <3> QED BY <3>1, <3>3 DEF Seen, IsDefaultView
  <2> QED BY <2>2, <2>3
<1>2. ASSUME NEW i \in DOMAIN job.bundles, NEW l \in ToSet(recipe.quality.required)
      PROVE  LET frames == job.bundles[i].frames
             IN  /\ l \in DOMAIN frames
                 /\ frames[l].mean \in recipe.quality.minMean .. recipe.quality.maxMean
                 /\ frames[l].bytes >= frames[l].stride * frames[l].height
  <2>1. BundleOK(job.bundles[i], recipe, RequiresRobotPose(job, recipe))
    BY DEF GatePasses
  <2>2. /\ l \in DOMAIN job.bundles[i].frames
        /\ FrameOK(job.bundles[i].frames[l], recipe.quality)
    BY <2>1 DEF BundleOK
  <2> QED BY <2>2 DEF FrameOK
<1> QED BY <1>1, <1>2 DEF SeenInFull

-----------------------------------------------------------------------------
(***************************************************************************)
(* The theorems.                                                           *)
(***************************************************************************)

\* Whatever is edited, disturbed or lost, the pipeline keeps to its types: a job
\* has a verdict exactly from its last stage but one on
\* (pipeline.py 58-196, detector_main.py 187-231).
THEOREM PipelineTypeCorrect == Spec => []TypeOK
BY InvAlways, PTL DEF PipelineInv

\* The controller accepts every verdict the pipeline ends with
\* (rule_engine.py, pipeline.py 130-196, station_controller.cpp's
\* validate_detector_result).
THEOREM VerdictsAreAcceptable == Spec => []VerdictAcceptable
<1>1. PipelineInv => VerdictAcceptable
  BY DEF PipelineInv, TypeOK, VerdictAcceptable, Fit, Stages
<1> QED BY <1>1, InvAlways, PTL

\* The images of every judged view are one exposure series of a robot that stood
\* still (quality_gate.py 81-188).
THEOREM JudgedInOneShot == Spec => []OneShot
<1>1. PipelineInv => OneShot
  <2> SUFFICES ASSUME PipelineInv, Judged PROVE OneShot
    BY DEF OneShot
  <2>1. GatePasses(job, recipe)
    BY DEF Judged, PipelineInv, TypeOK, Fit, Stages
  <2> QED BY <2>1, GateMeansOneShot DEF OneShot
<1> QED BY <1>1, InvAlways, PTL

\* No seat is passed or rejected unless every view of the recipe was seen under
\* every required light, with images that are usable: the first half of
\* JudgedInFull (quality_gate.py 32-57, 59-79, 230-279).
THEOREM JudgedSeatWasSeen == Spec => [](Judged => SeenInFull)
<1>1. PipelineInv => (Judged => SeenInFull)
  BY GateMeansSeen DEF Judged, PipelineInv, TypeOK, Fit, Stages
<1> QED BY <1>1, InvAlways, PTL
=============================================================================
