-------------------------- MODULE PipelineDataProofs --------------------------
(***************************************************************************)
(* Theorems about what DetectionPipeline makes of a job: regions, cubes,   *)
(* feature groups, candidates and the defects that are shown, for all      *)
(* installations, faults and answers of the networks of the right types.   *)
(***************************************************************************)
EXTENDS DetectionPipelineProofs, SequenceFacts

-----------------------------------------------------------------------------
(***************************************************************************)
(* What the pipeline has made so far.                                      *)
(***************************************************************************)

RecipeLoaded == Accepted(document) /\ recipe = RecipeOf(document)

PreparedMade ==
  /\ prepared = [i \in DOMAIN job.bundles |-> Prepare(job.bundles[i], recipe, site)]
  /\ \A i \in DOMAIN prepared : prepared[i].kind = "ok"

CubesMade == cubes = Cubes(prepared, recipe, site) /\ \A i \in DOMAIN cubes : cubes[i].pass

GroupsMade == groups = FeatureGroups(cubes, recipe) /\ groups # Absent

CandidatesMade ==
  /\ observed \in Answers
  /\ LET answer == Infer(groups, recipe, site, observed)
     IN  answer.kind = "ok" /\ candidates = answer.candidates

FusedMade == fused = Fuse(candidates, recipe.fusion) /\ fused # Absent

\* Everything fusion was given is what the steps before it made of the job.
AllMade ==
  /\ RecipeLoaded /\ GatePasses(job, recipe)
  /\ PreparedMade /\ CubesMade /\ GroupsMade /\ CandidatesMade /\ FusedMade

\* The inductive invariant: at each stage, and as long as there is a result of
\* fusion, what has been made is what the code makes of the job.
Reached(stages) == stage \in stages \/ fused # Absent

MadeInv ==
  /\ fused # Absent => stage \in {"decide", "trace", "done"}
  /\ stage # "stopped" => RecipeLoaded
  /\ Reached(Gated) => GatePasses(job, recipe)
  /\ Reached(Gated \ {"preprocess"}) => PreparedMade
  /\ Reached({"features", "infer", "fuse", "decide"}) => CubesMade
  /\ Reached({"infer", "fuse", "decide"}) => GroupsMade
  /\ Reached({"fuse", "decide"}) => CandidatesMade
  /\ Reached({"decide"}) => FusedMade
  /\ (verdict # Absent /\ verdict.decision \in {"OK", "NG"}) =>
       fused # Absent /\ verdict = Decide(fused, recipe.threshold)

\* At the start no stage has left anything behind.
LEMMA MadeInit == Init => MadeInv
BY DEF Init, MadeInv, Reached, Gated

\* What an exception handler answers is never a judgement.
LEMMA FailuresJudgeNot ==
  /\ \A kind : Handled(kind).decision \notin {"OK", "NG"}
  /\ InternalError.decision \notin {"OK", "NG"} /\ QualityFailed.decision \notin {"OK", "NG"}
  /\ \A v \in Protocol!Verdict : Untraced(v).decision \notin {"OK", "NG"}
<1>1. ASSUME NEW v \in Protocol!Verdict
      PROVE  Untraced(v).decision \notin {"OK", "NG"}
  BY DEF Untraced, Protocol!Verdict
<1>2. ASSUME NEW kind
      PROVE  Handled(kind).decision \notin {"OK", "NG"}
  <2>1. Handled(kind) \in {InternalError, QualityFailed, AssetUnavailable(TRUE)}
    BY DEF Handled
  <2> QED BY <2>1 DEF InternalError, QualityFailed, AssetUnavailable
<1> QED BY <1>1, <1>2 DEF InternalError, QualityFailed

\* A step that leaves the recipe, the job and what has been made before alone.
LEMMA MadeKept ==
  ASSUME UNCHANGED <<given, recipe>>
  PROVE  /\ RecipeLoaded' = RecipeLoaded /\ GatePasses(job, recipe)' = GatePasses(job, recipe)
         /\ prepared' = prepared => PreparedMade' = PreparedMade
         /\ UNCHANGED <<prepared, cubes>> => CubesMade' = CubesMade
         /\ UNCHANGED <<cubes, groups>> => GroupsMade' = GroupsMade
         /\ UNCHANGED <<groups, observed, candidates>> => CandidatesMade' = CandidatesMade
         /\ UNCHANGED <<candidates, fused>> => FusedMade' = FusedMade
<1>1. /\ RecipeLoaded' = RecipeLoaded /\ GatePasses(job, recipe)' = GatePasses(job, recipe)
  BY DEF given, RecipeLoaded
<1>2. prepared' = prepared => PreparedMade' = PreparedMade
  BY DEF given, PreparedMade
<1>3. UNCHANGED <<prepared, cubes>> => CubesMade' = CubesMade
  BY DEF given, CubesMade
<1>4. UNCHANGED <<cubes, groups>> => GroupsMade' = GroupsMade
  BY DEF given, GroupsMade
<1>5. UNCHANGED <<groups, observed, candidates>> => CandidatesMade' = CandidatesMade
  <2>1. UNCHANGED groups => Answers' = Answers
    BY DEF Answers
  <2>2. UNCHANGED <<groups, observed, candidates>> =>
          UNCHANGED Infer(groups, recipe, site, observed)
    BY DEF given
  <2> QED BY <2>1, <2>2 DEF CandidatesMade
<1>6. UNCHANGED <<candidates, fused>> => FusedMade' = FusedMade
  BY DEF given, FusedMade
<1> QED BY <1>1, <1>2, <1>3, <1>4, <1>5, <1>6

\* One stage after another leaves behind what the code makes of the job.
LEMMA MadeNext == PipelineInv /\ MadeInv /\ [Next]_vars => MadeInv'
<1> SUFFICES ASSUME PipelineInv, MadeInv, [Next]_vars PROVE MadeInv'
  OBVIOUS
<1> DEFINE made == <<prepared, cubes, groups, observed, candidates, fused>>
<1>0. TypeOK
  BY DEF PipelineInv
<1>1. CASE EditRecipe \/ LoseFile \/ RefuseRecipes \/ StartDetector
  <2>1. /\ stage = "stopped" /\ verdict' = verdict /\ fused' = fused
        /\ stage' = "stopped" \/ (stage' = "idle" /\ StartDetector)
    BY <1>1 DEF EditRecipe, LoseFile, RefuseRecipes, StartDetector, Fault
  <2>2. verdict = Absent /\ fused = Absent
    BY <2>1, <1>0 DEF TypeOK, MadeInv
  <2>3. StartDetector => RecipeLoaded'
    BY DEF StartDetector, RecipeLoaded, given
  <2> QED BY <2>1, <2>2, <2>3 DEF MadeInv, Reached, Gated
<1>2. CASE DisturbJob
  <2>1. /\ stage = "idle" /\ stage' = "idle" /\ UNCHANGED <<document, recipe, verdict, fused>>
    BY <1>2 DEF DisturbJob, Fault
  <2>2. verdict = Absent /\ fused = Absent
    BY <2>1, <1>0 DEF TypeOK, MadeInv
  <2>3. RecipeLoaded'
    BY <2>1 DEF MadeInv, RecipeLoaded
  <2> QED BY <2>1, <2>2, <2>3 DEF MadeInv, Reached, Gated
<1>3. ASSUME UNCHANGED <<given, recipe, fused>>, stage \notin {"stopped", "decide", "trace", "done"},
             verdict' # Absent => verdict'.decision \notin {"OK", "NG"},
             stage' \in {"recipe", "gate", "trace"}
      PROVE  MadeInv'
  <2>1. fused = Absent /\ RecipeLoaded'
    BY <1>3, MadeKept DEF MadeInv
  <2> QED BY <1>3, <2>1 DEF MadeInv, Reached, Gated
<1>4. CASE Submit
  <2>1. stage = "idle" /\ stage' = "recipe" /\ UNCHANGED <<given, recipe, fused, verdict>>
    BY <1>4 DEF Submit
  <2>2. verdict = Absent
    BY <2>1, <1>0 DEF TypeOK
  <2> QED BY <2>1, <2>2, <1>3
<1>5. ASSUME NEW v, v.decision \notin {"OK", "NG"}, EndWith(v), UNCHANGED <<recipe, fused>>,
             stage \notin {"stopped", "decide", "trace", "done"}
      PROVE  MadeInv'
  BY <1>5, <1>3 DEF EndWith
<1>6. CASE LoadRecipe
  <2>1. stage = "recipe" /\ UNCHANGED <<recipe, fused>>
    BY <1>6 DEF LoadRecipe
  <2>2. CASE Continue("gate")
    <3>1. verdict' = Absent
      BY <2>1, <2>2, <1>0 DEF TypeOK, Continue
    <3> QED BY <2>1, <2>2, <3>1, <1>3 DEF Continue
  <2>3. CASE EndWith(InternalError)
    BY <2>1, <2>3, <1>5, FailuresJudgeNot
  <2> QED BY <1>6, <2>2, <2>3 DEF LoadRecipe
<1>7. CASE CheckQuality
  <2>1. stage = "gate" /\ UNCHANGED <<recipe, prepared, cubes, groups, observed, candidates, fused>>
    BY <1>7 DEF CheckQuality
  <2>2. CASE GatePasses(job, recipe) /\ Continue("preprocess")
    <3>1. /\ stage' = "preprocess" /\ verdict' = Absent /\ fused' = Absent
          /\ UNCHANGED <<given, recipe>>
      BY <2>1, <2>2, <1>0 DEF TypeOK, Continue, MadeInv
    <3>2. RecipeLoaded' /\ GatePasses(job, recipe)'
      BY <2>1, <2>2, <3>1, MadeKept DEF MadeInv
    <3> QED BY <3>1, <3>2 DEF MadeInv, Reached, Gated
  <2>3. CASE EndWith(QualityFailed)
    BY <2>1, <2>3, <1>5, FailuresJudgeNot
  <2> QED BY <1>7, <2>2, <2>3 DEF CheckQuality
<1>8. CASE Preprocess
  <2> DEFINE bundles == [i \in DOMAIN job.bundles |-> Prepare(job.bundles[i], recipe, site)]
             failed == {i \in DOMAIN bundles : bundles[i].kind # "ok"}
  <2>1. /\ stage = "preprocess" /\ UNCHANGED <<recipe, fused>>
        /\ \/ failed = {} /\ Continue("register") /\ prepared' = bundles
           \/ EndWith(Handled(bundles[Min(failed)].kind))
    BY <1>8 DEF Preprocess
  <2>2. CASE failed = {} /\ Continue("register") /\ prepared' = bundles
    <3>1. /\ stage' = "register" /\ verdict' = Absent /\ fused' = Absent
          /\ UNCHANGED <<given, recipe>>
      BY <2>1, <2>2, <1>0 DEF TypeOK, Continue, MadeInv
    <3>2. PreparedMade'
      BY <2>2, <3>1 DEF PreparedMade, given
    <3>3. RecipeLoaded' /\ GatePasses(job, recipe)'
      BY <2>1, <3>1, MadeKept DEF MadeInv, Reached, Gated
    <3> QED BY <3>1, <3>2, <3>3 DEF MadeInv, Reached, Gated
  <2>3. CASE EndWith(Handled(bundles[Min(failed)].kind))
    BY <2>1, <2>3, <1>5, FailuresJudgeNot
  <2> QED BY <2>1, <2>2, <2>3
<1>9. CASE Register
  <2>1. /\ stage = "register" /\ UNCHANGED <<recipe, prepared, fused>>
        /\ cubes' = Cubes(prepared, recipe, site)
        /\ \/ Continue("features") /\ \A i \in DOMAIN cubes' : cubes'[i].pass
           \/ EndWith(QualityFailed)
    BY <1>9 DEF Register
  <2>2. CASE Continue("features") /\ \A i \in DOMAIN cubes' : cubes'[i].pass
    <3>1. /\ stage' = "features" /\ verdict' = Absent /\ fused' = Absent
          /\ UNCHANGED <<given, recipe>>
      BY <2>1, <2>2, <1>0 DEF TypeOK, Continue, MadeInv
    <3>2. CubesMade'
      BY <2>1, <2>2, <3>1 DEF CubesMade, given
    <3>3. RecipeLoaded' /\ GatePasses(job, recipe)' /\ PreparedMade'
      BY <2>1, <3>1, MadeKept DEF MadeInv, Reached, Gated
    <3> QED BY <3>1, <3>2, <3>3 DEF MadeInv, Reached, Gated
  <2>3. CASE EndWith(QualityFailed)
    BY <2>1, <2>3, <1>5, FailuresJudgeNot
  <2> QED BY <2>1, <2>2, <2>3
<1>10. CASE BuildFeatures
  <2>1. /\ stage = "features" /\ UNCHANGED <<recipe, prepared, cubes, fused>>
        /\ \/ /\ Continue("infer") /\ groups' = FeatureGroups(cubes, recipe)
              /\ FeatureGroups(cubes, recipe) # Absent
           \/ EndWith(InternalError)
    BY <1>10 DEF BuildFeatures
  <2>2. CASE /\ Continue("infer") /\ groups' = FeatureGroups(cubes, recipe)
             /\ FeatureGroups(cubes, recipe) # Absent
    <3>1. /\ stage' = "infer" /\ verdict' = Absent /\ fused' = Absent
          /\ UNCHANGED <<given, recipe>>
      BY <2>1, <2>2, <1>0 DEF TypeOK, Continue, MadeInv
    <3>2. GroupsMade'
      BY <2>1, <2>2, <3>1 DEF GroupsMade, given
    <3>3. RecipeLoaded' /\ GatePasses(job, recipe)' /\ PreparedMade' /\ CubesMade'
      BY <2>1, <3>1, MadeKept DEF MadeInv, Reached, Gated
    <3> QED BY <3>1, <3>2, <3>3 DEF MadeInv, Reached, Gated
  <2>3. CASE EndWith(InternalError)
    BY <2>1, <2>3, <1>5, FailuresJudgeNot
  <2> QED BY <2>1, <2>2, <2>3
<1>11. CASE InferDefects
  <2> DEFINE answer == Infer(groups, recipe, site, observed')
  <2>1. /\ stage = "infer" /\ UNCHANGED <<recipe, prepared, cubes, groups, fused>>
        /\ observed' \in Answers
        /\ \/ Continue("fuse") /\ answer.kind = "ok" /\ candidates' = answer.candidates
           \/ EndWith(Handled(answer.kind))
    BY <1>11 DEF InferDefects
  <2>2. CASE Continue("fuse") /\ answer.kind = "ok" /\ candidates' = answer.candidates
    <3>1. /\ stage' = "fuse" /\ verdict' = Absent /\ fused' = Absent
          /\ UNCHANGED <<given, recipe>>
      BY <2>1, <2>2, <1>0 DEF TypeOK, Continue, MadeInv
    <3>2. CandidatesMade'
      <4>1. Answers' = Answers
        BY <2>1, <3>1 DEF Answers
      <4>2. Infer(groups, recipe, site, observed)' = answer
        BY <2>1, <3>1 DEF given
      <4> QED BY <2>1, <2>2, <4>1, <4>2 DEF CandidatesMade
    <3>3. RecipeLoaded' /\ GatePasses(job, recipe)' /\ PreparedMade' /\ CubesMade' /\ GroupsMade'
      BY <2>1, <3>1, MadeKept DEF MadeInv, Reached, Gated
    <3> QED BY <3>1, <3>2, <3>3 DEF MadeInv, Reached, Gated
  <2>3. CASE EndWith(Handled(answer.kind))
    BY <2>1, <2>3, <1>5, FailuresJudgeNot
  <2> QED BY <2>1, <2>2, <2>3
<1>12. CASE FuseCandidates
  <2> DEFINE result == Fuse(candidates, recipe.fusion)
  <2>1. /\ stage = "fuse" /\ UNCHANGED <<recipe, prepared, cubes, groups, observed, candidates>>
        /\ \/ result # Absent /\ Continue("decide") /\ fused' = result
           \/ EndWith(InternalError) /\ UNCHANGED fused
    BY <1>12 DEF FuseCandidates
  <2>2. CASE result # Absent /\ Continue("decide") /\ fused' = result
    <3>1. /\ stage' = "decide" /\ verdict' = Absent /\ UNCHANGED <<given, recipe>>
      BY <2>1, <2>2, <1>0 DEF TypeOK, Continue, MadeInv
    <3>2. FusedMade'
      BY <2>1, <2>2, <3>1 DEF FusedMade, given
    <3>3. /\ RecipeLoaded' /\ GatePasses(job, recipe)' /\ PreparedMade' /\ CubesMade' /\ GroupsMade'
          /\ CandidatesMade'
      BY <2>1, <3>1, MadeKept DEF MadeInv, Reached, Gated
    <3> QED BY <3>1, <3>2, <3>3 DEF MadeInv, Reached, Gated
  <2>3. CASE EndWith(InternalError) /\ UNCHANGED fused
    BY <2>1, <2>3, <1>5, FailuresJudgeNot
  <2> QED BY <2>1, <2>2, <2>3
<1>13. ASSUME stage \in {"decide", "trace"}, UNCHANGED <<given, recipe, made>>,
              stage' \in {"trace", "done"},
              (verdict' # Absent /\ verdict'.decision \in {"OK", "NG"}) =>
                fused # Absent /\ verdict' = Decide(fused, recipe.threshold)
       PROVE  MadeInv'
  <2>1. /\ RecipeLoaded' = RecipeLoaded /\ GatePasses(job, recipe)' = GatePasses(job, recipe)
        /\ PreparedMade' = PreparedMade /\ CubesMade' = CubesMade /\ GroupsMade' = GroupsMade
        /\ CandidatesMade' = CandidatesMade /\ FusedMade' = FusedMade
    BY <1>13, MadeKept
  <2>2. RecipeLoaded /\ fused' = fused /\ recipe' = recipe
    BY <1>13 DEF MadeInv
  <2>3. fused # Absent => /\ GatePasses(job, recipe) /\ PreparedMade /\ CubesMade /\ GroupsMade
                          /\ CandidatesMade /\ FusedMade
    BY DEF MadeInv, Reached
  <2> QED BY <1>13, <2>1, <2>2, <2>3 DEF MadeInv, Reached, Gated
<1>14. CASE DecideVerdict
  <2>1. /\ stage = "decide" /\ stage' = "trace" /\ UNCHANGED <<given, recipe, made>>
        /\ verdict' = Decide(fused, recipe.threshold)
    BY <1>14 DEF DecideVerdict, EndWith
  <2>2. fused # Absent
    BY <2>1 DEF MadeInv, Reached, FusedMade
  <2> QED BY <2>1, <2>2, <1>13
<1>15. CASE WriteTrace
  <2>1. /\ stage = "trace" /\ stage' = "done" /\ UNCHANGED <<given, recipe, made>>
        /\ verdict' = verdict \/ verdict' = Untraced(verdict)
    BY <1>15 DEF WriteTrace
  <2>2. verdict \in Protocol!Verdict /\ verdict # Absent
    BY <2>1 DEF PipelineInv, TypeOK, Fit
  <2>3. CASE verdict' = verdict
    BY <2>1, <2>2, <2>3, <1>13 DEF MadeInv
  <2>4. CASE verdict' = Untraced(verdict)
    BY <2>1, <2>2, <2>4, <1>13, FailuresJudgeNot
  <2> QED BY <2>1, <2>3, <2>4
<1>16. CASE NextJob
  <2>1. /\ stage = "done" /\ stage' = "idle" /\ verdict' = Absent /\ fused' = Absent
        /\ UNCHANGED <<given, recipe>>
    BY <1>16 DEF NextJob
  <2>2. RecipeLoaded'
    BY <2>1, MadeKept DEF MadeInv
  <2> QED BY <2>1, <2>2 DEF MadeInv, Reached, Gated
<1>17. CASE UNCHANGED vars
  <2>1. UNCHANGED <<given, recipe, made, stage, verdict>>
    BY <1>17 DEF vars
  <2>2. /\ RecipeLoaded' = RecipeLoaded /\ GatePasses(job, recipe)' = GatePasses(job, recipe)
        /\ PreparedMade' = PreparedMade /\ CubesMade' = CubesMade /\ GroupsMade' = GroupsMade
        /\ CandidatesMade' = CandidatesMade /\ FusedMade' = FusedMade
    BY <2>1, MadeKept
  <2> QED BY <2>1, <2>2 DEF MadeInv, Reached
<1> QED
  BY <1>1, <1>2, <1>4, <1>6, <1>7, <1>8, <1>9, <1>10, <1>11, <1>12, <1>14, <1>15, <1>16, <1>17
     DEF Next, Process

\* The two invariants hold in every reachable state.
LEMMA MadeAlways == Spec => [](PipelineInv /\ MadeInv)
<1>1. Init => PipelineInv /\ MadeInv
  BY InitInv, MadeInit
<1>2. PipelineInv /\ MadeInv /\ [Next]_vars => (PipelineInv /\ MadeInv)'
  BY NextInv, MadeNext
<1> QED BY <1>1, <1>2, PTL DEF Spec

\* A result of fusion, and a judgement, come out of the whole pipeline.
LEMMA FusedMeansMade == MadeInv /\ fused # Absent => AllMade
BY DEF MadeInv, Reached, AllMade

\* A judgement is the rule engine's, on what all stages made of the job.
LEMMA JudgedMeansMade ==
  PipelineInv /\ MadeInv /\ Judged => AllMade /\ verdict = Decide(fused, recipe.threshold)
<1> SUFFICES ASSUME PipelineInv, MadeInv, Judged
             PROVE  AllMade /\ verdict = Decide(fused, recipe.threshold)
  OBVIOUS
<1>1. verdict # Absent /\ verdict.decision \in {"OK", "NG"}
  BY DEF Judged, PipelineInv, TypeOK
<1>2. fused # Absent /\ verdict = Decide(fused, recipe.threshold)
  BY <1>1 DEF MadeInv
<1> QED BY <1>2, FusedMeansMade

-----------------------------------------------------------------------------
(***************************************************************************)
(* What an accepted recipe says of a view.                                 *)
(***************************************************************************)

\* The camera of a view is one of the recipe's.
LEMMA CameraListed ==
  ASSUME NEW r, NEW view, CameraRecipe(r, view) # Absent
  PROVE  \E n \in DOMAIN r.cameras : CameraRecipe(r, view) = r.cameras[n]
<1>1. ASSUME NEW v \in Views(r)
      PROVE  \E n \in DOMAIN r.cameras : CameraAt(r, v) = r.cameras[n]
  <2>1. \E c \in ToSet(r.cameras) : <<c.camera, c.pose>> = v
    BY DEF Views, ToSet
  <2>2. CameraAt(r, v) \in ToSet(r.cameras)
    BY <2>1 DEF CameraAt
  <2> QED BY <2>2 DEF ToSet
<1>2. CASE view \in Views(r)
  BY <1>1, <1>2 DEF CameraRecipe
<1>3. CASE view \notin Views(r) /\ AcceptsDynamicPose(r, view[1])
  <2>1. <<view[1], view[1]>> \in Views(r)
    BY <1>3 DEF AcceptsDynamicPose
  <2>2. CameraRecipe(r, view) = CameraAt(r, <<view[1], view[1]>>)
    BY <1>3 DEF CameraRecipe
  <2> QED BY <1>1, <2>1, <2>2
<1>4. CASE view \notin Views(r) /\ ~AcceptsDynamicPose(r, view[1])
  BY <1>4 DEF CameraRecipe
<1> QED BY <1>2, <1>3, <1>4

\* What the loader has checked of the recipe it made.
LEMMA LoadedChecked ==
  ASSUME RecipeLoaded
  PROVE  /\ CameraChecks(recipe) /\ ModelRefChecks(recipe)
         /\ RegistrationChecks(document.registration)
         /\ recipe.models = Models(document)
         /\ recipe.registration = Registration(document)
         /\ recipe.roi = document.roi
BY DEF RecipeLoaded, Accepted, RecipeOf

\* The models of a region are models of the recipe, and those its camera asks for.
LEMMA KeysKnown ==
  ASSUME RecipeLoaded, DocumentTyped(document), NEW view, NEW roi,
         CameraRecipe(recipe, view) # Absent
  PROVE  LET c == CameraRecipe(recipe, view)
             keys == ModelKeys(recipe, view, roi)
         IN  /\ keys \in Seq(DOMAIN recipe.models)
             /\ \E n \in DOMAIN keys : recipe.models[keys[n]].role = "primary"
             /\ (roi \in DOMAIN c.roiSafetyNets \/ c.safetyNet # Absent) =>
                  \E n \in DOMAIN keys : recipe.models[keys[n]].role = "safety_net"
<1> DEFINE c == CameraRecipe(recipe, view)
           primary == IF roi \in DOMAIN c.roiModels THEN c.roiModels[roi] ELSE c.model
           safetyNet == IF roi \in DOMAIN c.roiSafetyNets THEN c.roiSafetyNets[roi]
                        ELSE c.safetyNet
           keys == ModelKeys(recipe, view, roi)
<1>1. PICK place \in DOMAIN recipe.cameras : c = recipe.cameras[place]
  BY CameraListed
<1>2. ModelRefChecks(recipe) /\ recipe.models = Models(document)
  BY LoadedChecked
<1>3. Absent \notin DOMAIN recipe.models
  BY <1>2 DEF DocumentTyped, Models
<1>4. primary \in DOMAIN recipe.models /\ recipe.models[primary].role = "primary"
  <2>1. primary \in {c.model} \cup Range(c.roiModels)
    BY DEF Range
  <2> QED BY <1>1, <1>2, <2>1 DEF ModelRefChecks
<1>5. safetyNet # Absent =>
        safetyNet \in DOMAIN recipe.models /\ recipe.models[safetyNet].role = "safety_net"
  <2>1. safetyNet # Absent => safetyNet \in ({c.safetyNet} \ {Absent}) \cup Range(c.roiSafetyNets)
    BY DEF Range
  <2> QED BY <1>1, <1>2, <2>1 DEF ModelRefChecks
<1>6. roi \in DOMAIN c.roiSafetyNets => safetyNet # Absent
  <2> SUFFICES ASSUME roi \in DOMAIN c.roiSafetyNets PROVE safetyNet # Absent
    OBVIOUS
  <2>1. safetyNet \in Range(c.roiSafetyNets)
    BY DEF Range
  <2>2. safetyNet \in DOMAIN recipe.models
    BY <1>1, <1>2, <2>1 DEF ModelRefChecks
  <2> QED BY <2>2, <1>3
<1>7. keys = IF safetyNet = Absent THEN <<primary>> ELSE <<primary, safetyNet>>
  BY DEF ModelKeys
<1>8. (roi \in DOMAIN c.roiSafetyNets \/ c.safetyNet # Absent) => safetyNet # Absent
  BY <1>6
<1>9. /\ keys \in Seq(DOMAIN recipe.models)
      /\ 1 \in DOMAIN keys /\ keys[1] = primary
      /\ safetyNet # Absent => 2 \in DOMAIN keys /\ keys[2] = safetyNet
  <2> HIDE DEF primary, safetyNet, keys
  <2>1. CASE safetyNet = Absent
    <3>1. keys = <<primary>>
      BY <2>1, <1>7
    <3> QED BY <2>1, <3>1, <1>4, ShortLists
  <2>2. CASE safetyNet # Absent
    <3>1. keys = <<primary, safetyNet>> /\ safetyNet \in DOMAIN recipe.models
      BY <2>2, <1>5, <1>7
    <3> QED BY <3>1, <1>4, ShortLists
  <2> QED BY <2>1, <2>2
<1>10. /\ \E n \in DOMAIN keys : recipe.models[keys[n]].role = "primary"
       /\ safetyNet # Absent => \E n \in DOMAIN keys : recipe.models[keys[n]].role = "safety_net"
  <2> HIDE DEF primary, safetyNet, keys
  <2> QED BY <1>4, <1>5, <1>9
<1>11. /\ keys \in Seq(DOMAIN recipe.models)
       /\ \E n \in DOMAIN keys : recipe.models[keys[n]].role = "primary"
       /\ (roi \in DOMAIN c.roiSafetyNets \/ c.safetyNet # Absent) =>
            \E n \in DOMAIN keys : recipe.models[keys[n]].role = "safety_net"
  <2> HIDE DEF safetyNet, primary, keys, c
  <2> QED BY <1>8, <1>9, <1>10
<1> QED BY <1>11

-----------------------------------------------------------------------------
(***************************************************************************)
(* Prepared bundles.                                                       *)
(***************************************************************************)

\* A calibration that is loaded has the regions of the template, is the one the
\* camera asks for, and its regions have the types of a template.
LEMMA CalibrationLoaded ==
  ASSUME NEW c, SiteTyped(site), LoadCalibration(site, c) # Absent
  PROVE  /\ c.template \in DOMAIN site.templates
         /\ LoadCalibration(site, c).regions = site.templates[c.template]
         /\ LoadCalibration(site, c).id = c.calibration
         /\ RegionsOK(site.templates[c.template])
         /\ IsFiniteSet(DOMAIN site.templates[c.template])
         /\ \A name \in DOMAIN site.templates[c.template] :
              RegionTyped(site.templates[c.template][name])
<1> DEFINE key == <<c.camera, c.calibration>>
           file == FileAt(site.calibrations, key)
           regions == FileAt(site.templates, c.template)
<1>1. /\ file # Absent /\ regions # Absent /\ file.id = c.calibration /\ RegionsOK(regions)
      /\ LoadCalibration(site, c) = [file EXCEPT !.regions = regions]
  BY DEF LoadCalibration
<1>2. key \in DOMAIN site.calibrations /\ file = site.calibrations[key]
  BY <1>1 DEF FileAt
<1>3. c.template \in DOMAIN site.templates /\ regions = site.templates[c.template]
  BY <1>1 DEF FileAt
<1>4. "id" \in DOMAIN file /\ "regions" \in DOMAIN file
  BY <1>1, <1>2 DEF SiteTyped
<1> HIDE DEF file, regions
<1>5. LoadCalibration(site, c).regions = regions /\ LoadCalibration(site, c).id = file.id
  BY <1>1, <1>4
<1>6. IsFiniteSet(DOMAIN regions) /\ \A name \in DOMAIN regions : RegionTyped(regions[name])
  BY <1>1, <1>3 DEF SiteTyped
<1> QED BY <1>1, <1>3, <1>5, <1>6

\* A region is located for every region of the template, and for no other.
LEMMA LocatedAll ==
  ASSUME NEW b, NEW templates, NEW r, NEW s, Locate(b, templates, r, s).kind = "ok"
  PROVE  DOMAIN Locate(b, templates, r, s).rois = DOMAIN templates
<1>1. ASSUME NEW readings, NEW exact, Located(readings, templates, r.roi, exact) # Absent
      PROVE  DOMAIN Located(readings, templates, r.roi, exact) = DOMAIN templates
  BY <1>1 DEF Located
<1>2. DOMAIN Templates(templates) = DOMAIN templates
  BY DEF Templates
<1>3. \A x : LET answer == IF x = Absent THEN [kind |-> "recheck"] ELSE [kind |-> "ok", rois |-> x]
            IN  answer.kind = "ok" => x # Absent /\ answer.rois = x
  OBVIOUS
<1> QED BY <1>1, <1>2, <1>3 DEF Locate

\* The views a job was accepted with are prepared with the camera's calibration.
LEMMA BundlesPrepared ==
  ASSUME PreparedMade, SiteTyped(site), NEW i \in DOMAIN job.bundles
  PROVE  LET b == job.bundles[i]
             c == CameraRecipe(recipe, ViewOf(b))
             templates == site.templates[c.template]
             located == Locate(b, templates, recipe, site)
         IN  /\ c # Absent /\ LoadCalibration(site, c) # Absent
             /\ \A l \in DOMAIN b.frames : b.frames[l].calibration = c.calibration
             /\ located.kind = "ok" /\ DOMAIN located.rois = DOMAIN templates
             /\ \A l \in DOMAIN b.frames, name \in DOMAIN templates :
                  CanCrop(b.frames[l], located.rois[name])
             /\ i \in DOMAIN prepared
             /\ prepared[i].view = ViewOf(b)
             /\ prepared[i].rois = [name \in DOMAIN templates |->
                                     [l \in DOMAIN b.frames |->
                                        Crop(b.frames[l], located.rois[name])]]
<1> DEFINE b == job.bundles[i]
           c == CameraRecipe(recipe, ViewOf(b))
           calibration == LoadCalibration(site, c)
           templates == site.templates[c.template]
           located == Locate(b, calibration.regions, recipe, site)
           fits == \A l \in DOMAIN b.frames :
                     Supported(b.frames[l]) /\ MatchesCalibration(b.frames[l], calibration)
           cuts == \A l \in DOMAIN b.frames : \A name \in DOMAIN located.rois :
                     CanCrop(b.frames[l], located.rois[name])
           made == [kind |-> "ok", view |-> ViewOf(b), calibration |-> calibration,
                    rois |-> [name \in DOMAIN located.rois |->
                                [l \in DOMAIN b.frames |->
                                   Crop(b.frames[l], located.rois[name])]]]
<1>1. i \in DOMAIN prepared /\ prepared[i] = Prepare(b, recipe, site) /\ prepared[i].kind = "ok"
  BY DEF PreparedMade
<1>2. /\ c # Absent /\ calibration # Absent /\ fits /\ located.kind = "ok" /\ cuts
      /\ prepared[i] = made
  <2> HIDE DEF fits, cuts, located, calibration, c, made
  <2>1. Prepare(b, recipe, site) =
          CASE c = Absent -> [kind |-> "error"]
            [] c # Absent /\ calibration = Absent -> [kind |-> "error"]
            [] c # Absent /\ calibration # Absent /\ ~fits -> [kind |-> "error"]
            [] OTHER -> IF located.kind # "ok" \/ ~cuts
                        THEN [kind |-> IF located.kind # "ok" THEN located.kind ELSE "error"]
                        ELSE made
    BY DEF Prepare, fits, cuts, located, calibration, c, made
  <2> HIDE DEF b
  <2> QED BY <1>1, <2>1
<1>3. calibration.regions = templates /\ calibration.id = c.calibration
  BY <1>2, CalibrationLoaded
<1>4. \A l \in DOMAIN b.frames : b.frames[l].calibration = c.calibration
  BY <1>2, <1>3 DEF MatchesCalibration
<1>5. DOMAIN located.rois = DOMAIN templates
  <2>1. DOMAIN located.rois = DOMAIN calibration.regions
    BY <1>2, LocatedAll
  <2> QED BY <2>1, <1>3
<1>6. located = Locate(b, templates, recipe, site)
  BY <1>3
<1>7. /\ c # Absent /\ calibration # Absent
      /\ \A l \in DOMAIN b.frames : b.frames[l].calibration = c.calibration
      /\ located.kind = "ok" /\ DOMAIN located.rois = DOMAIN templates
      /\ \A l \in DOMAIN b.frames, name \in DOMAIN templates :
           CanCrop(b.frames[l], located.rois[name])
      /\ i \in DOMAIN prepared
      /\ prepared[i].view = ViewOf(b)
      /\ prepared[i].rois = [name \in DOMAIN templates |->
                              [l \in DOMAIN b.frames |-> Crop(b.frames[l], located.rois[name])]]
  <2> HIDE DEF located, calibration, templates, c, b
  <2> QED BY <1>1, <1>2, <1>4, <1>5
<1> HIDE DEF located
<1> QED BY <1>6, <1>7

-----------------------------------------------------------------------------
(***************************************************************************)
(* Cubes and feature groups.                                               *)
(***************************************************************************)

\* There is a cube for each region of each bundle, and no other.
LEMMA CubesOfRegions ==
  ASSUME PreparedMade, CubesMade, SiteTyped(site), JobTyped(job, site)
  PROVE  LET made == {Cube(prepared[p[1]], p[2], recipe, site) :
                        p \in {q \in (DOMAIN job.bundles)
                                       \X UNION {DOMAIN prepared[i].rois : i \in DOMAIN job.bundles} :
                                 q[2] \in DOMAIN prepared[q[1]].rois}}
         IN  cubes \in Seq(made) /\ ToSet(cubes) = made
<1> DEFINE pairs == {q \in (DOMAIN job.bundles)
                            \X UNION {DOMAIN prepared[i].rois : i \in DOMAIN job.bundles} :
                      q[2] \in DOMAIN prepared[q[1]].rois}
           made == {Cube(prepared[p[1]], p[2], recipe, site) : p \in pairs}
           n == Len(job.bundles)
           names(i) == SetToSeq(DOMAIN prepared[i].rois)
           ofBundle(i) == [k \in DOMAIN names(i) |-> Cube(prepared[i], names(i)[k], recipe, site)]
           lists == [i \in DOMAIN prepared |-> ofBundle(i)]
<1>1. n \in Nat /\ DOMAIN job.bundles = 1 .. n /\ DOMAIN prepared = 1 .. n
  <2>1. job.bundles \in Seq(ToSet(job.bundles))
    BY DEF JobTyped, Listed
  <2>2. DOMAIN prepared = DOMAIN job.bundles
    BY DEF PreparedMade
  <2> HIDE DEF n
  <2>3. n \in Nat /\ DOMAIN job.bundles = 1 .. n
    BY <2>1 DEF n
  <2> QED BY <2>2, <2>3
<1>2. cubes = FlattenSeq(lists)
  BY DEF CubesMade, Cubes
<1>3. ASSUME NEW i \in 1 .. n
      PROVE  /\ ofBundle(i) \in Seq(made)
             /\ ToSet(ofBundle(i)) = {Cube(prepared[i], name, recipe, site) :
                                        name \in DOMAIN prepared[i].rois}
  <2> DEFINE S == DOMAIN prepared[i].rois
             m == Cardinality(S)
             cut(name) == Cube(prepared[i], name, recipe, site)
  <2>1. IsFiniteSet(S)
    <3> DEFINE b == job.bundles[i]
               c == CameraRecipe(recipe, ViewOf(b))
    <3>1. i \in DOMAIN job.bundles
      BY <1>1
    <3>2. LoadCalibration(site, c) # Absent /\ S = DOMAIN site.templates[c.template]
      BY <3>1, BundlesPrepared
    <3>3. IsFiniteSet(DOMAIN site.templates[c.template])
      BY <3>2, CalibrationLoaded
    <3> QED BY <3>2, <3>3
  <2> HIDE DEF S
  <2>2. /\ m \in Nat /\ SetToSeq(S) \in [1 .. m -> S]
        /\ \A x \in S : \E k \in 1 .. m : SetToSeq(S)[k] = x
    BY <2>1, SetListed
  <2>3. names(i) = SetToSeq(S)
    BY DEF S
  <2> HIDE DEF names, m, cut
  <2>4. DOMAIN names(i) = 1 .. m
    BY <2>2, <2>3
  <2>5. /\ \A k \in 1 .. m : names(i)[k] \in S
        /\ \A x \in S : \E k \in 1 .. m : names(i)[k] = x
    BY <2>2, <2>3
  <2>6. ofBundle(i) = [k \in 1 .. m |-> cut(names(i)[k])]
    BY <2>4 DEF cut
  <2>7. \A name \in S : cut(name) \in made
    <3> SUFFICES ASSUME NEW name \in S PROVE cut(name) \in made
      OBVIOUS
    <3>1. <<i, name>> \in pairs
      BY <1>1 DEF S
    <3>2. cut(name) = Cube(prepared[<<i, name>>[1]], <<i, name>>[2], recipe, site)
      BY DEF cut
    <3> QED BY <3>1, <3>2
  <2> HIDE DEF made, ofBundle
  <2>8. ofBundle(i) \in [1 .. m -> made]
    BY <2>5, <2>6, <2>7
  <2>9. ofBundle(i) \in Seq(made)
    BY <2>2, <2>8, ListIsSeq
  <2>10. ToSet(ofBundle(i)) = {cut(name) : name \in S}
    BY <2>5, <2>6 DEF ToSet
  <2> QED BY <2>9, <2>10 DEF cut, S
<1> HIDE DEF ofBundle, pairs
<1>4. lists \in [1 .. n -> Seq(made)]
  BY <1>1, <1>3
<1>5. /\ FlattenSeq(lists) \in Seq(made)
      /\ ToSet(FlattenSeq(lists)) = UNION {ToSet(lists[i]) : i \in 1 .. n}
  <2> HIDE DEF lists, made
  <2> QED BY <1>1, <1>4, Flattened
<1>6. UNION {ToSet(lists[i]) : i \in 1 .. n} = made
  <2>1. \A i \in 1 .. n : ToSet(lists[i]) = {Cube(prepared[i], name, recipe, site) :
                                               name \in DOMAIN prepared[i].rois}
    BY <1>1, <1>3
  <2> HIDE DEF lists
  <2>2. UNION {ToSet(lists[i]) : i \in 1 .. n} \subseteq made
    <3> SUFFICES ASSUME NEW i \in 1 .. n, NEW x \in ToSet(lists[i]) PROVE x \in made
      OBVIOUS
    <3>0. PICK name \in DOMAIN prepared[i].rois : x = Cube(prepared[i], name, recipe, site)
      BY <2>1
    <3>1. <<i, name>> \in pairs
      BY <1>1 DEF pairs
    <3>2. Cube(prepared[i], name, recipe, site)
            = Cube(prepared[<<i, name>>[1]], <<i, name>>[2], recipe, site)
      OBVIOUS
    <3> QED BY <3>0, <3>1, <3>2
  <2>3. made \subseteq UNION {ToSet(lists[i]) : i \in 1 .. n}
    <3> SUFFICES ASSUME NEW p \in pairs
                 PROVE  Cube(prepared[p[1]], p[2], recipe, site)
                          \in UNION {ToSet(lists[i]) : i \in 1 .. n}
      OBVIOUS
    <3>1. p[1] \in 1 .. n /\ p[2] \in DOMAIN prepared[p[1]].rois
      BY <1>1 DEF pairs
    <3> QED BY <2>1, <3>1
  <2> QED BY <2>2, <2>3
<1> HIDE DEF lists, made
<1>7. cubes \in Seq(made) /\ ToSet(cubes) = made
  BY <1>2, <1>5, <1>6
<1> QED BY <1>7 DEF made, pairs

\* The groups are those of the cubes, one for each model of the region.
LEMMA GroupsOfCubes ==
  ASSUME GroupsMade, RecipeLoaded, DocumentTyped(document), NEW C, cubes \in Seq(C),
         \A j \in DOMAIN cubes : CameraRecipe(recipe, cubes[j].view) # Absent
  PROVE  /\ \E S : groups \in Seq(S)
         /\ \A k \in DOMAIN groups :
              \E j \in DOMAIN cubes :
                \E m \in DOMAIN ModelKeys(recipe, cubes[j].view, cubes[j].roi) :
                  groups[k] = FeatureGroup(cubes[j], ModelKeys(recipe, cubes[j].view, cubes[j].roi)[m],
                                           recipe)
         /\ \A j \in DOMAIN cubes :
              \A m \in DOMAIN ModelKeys(recipe, cubes[j].view, cubes[j].roi) :
                \E k \in DOMAIN groups :
                  groups[k] = FeatureGroup(cubes[j], ModelKeys(recipe, cubes[j].view, cubes[j].roi)[m],
                                           recipe)
<1> DEFINE n == Len(cubes)
           keys(j) == ModelKeys(recipe, cubes[j].view, cubes[j].roi)
           made(j) == [m \in DOMAIN keys(j) |-> FeatureGroup(cubes[j], keys(j)[m], recipe)]
           lists == [j \in DOMAIN cubes |-> made(j)]
           S == UNION {ToSet(made(j)) : j \in 1 .. n}
<1>1. n \in Nat /\ DOMAIN cubes = 1 .. n
  OBVIOUS
<1>2. groups = FlattenSeq(lists)
  BY DEF GroupsMade, FeatureGroups
<1>3. ASSUME NEW j \in 1 .. n
      PROVE  made(j) \in Seq(S)
  <2>1. keys(j) \in Seq(DOMAIN recipe.models)
    BY <1>1, KeysKnown
  <2> HIDE DEF keys
  <2>2. Len(keys(j)) \in Nat /\ DOMAIN keys(j) = 1 .. Len(keys(j))
    BY <2>1
  <2>3. made(j) = [m \in 1 .. Len(keys(j)) |-> made(j)[m]] /\ DOMAIN made(j) = 1 .. Len(keys(j))
    BY <2>2
  <2> HIDE DEF made
  <2>4. \A m \in 1 .. Len(keys(j)) : made(j)[m] \in S
    BY <2>3 DEF ToSet
  <2>5. made(j) \in [1 .. Len(keys(j)) -> S]
    BY <2>3, <2>4
  <2> QED BY <2>2, <2>5, ListIsSeq
<1> HIDE DEF n, made
<1>4. lists \in [1 .. n -> Seq(S)]
  <2> HIDE DEF S
  <2> QED BY <1>1, <1>3
<1>5. /\ groups \in Seq(S)
      /\ ToSet(groups) = UNION {ToSet(lists[j]) : j \in 1 .. n}
  <2> HIDE DEF lists, S
  <2> QED BY <1>1, <1>2, <1>4, Flattened
<1>6. ToSet(groups) = UNION {ToSet(made(j)) : j \in 1 .. n}
  <2>1. \A j \in 1 .. n : lists[j] = made(j)
    BY <1>1
  <2> HIDE DEF lists
  <2> QED BY <1>5, <2>1
<1>7. ASSUME NEW k \in DOMAIN groups
      PROVE  \E j \in DOMAIN cubes : \E m \in DOMAIN keys(j) :
               groups[k] = FeatureGroup(cubes[j], keys(j)[m], recipe)
  <2>1. PICK j \in 1 .. n : groups[k] \in ToSet(made(j))
    BY <1>6 DEF ToSet
  <2>2. PICK m \in DOMAIN made(j) : groups[k] = made(j)[m]
    BY <2>1 DEF ToSet
  <2> QED BY <1>1, <2>2 DEF made
<1>8. ASSUME NEW j \in DOMAIN cubes, NEW m \in DOMAIN keys(j)
      PROVE  \E k \in DOMAIN groups : groups[k] = FeatureGroup(cubes[j], keys(j)[m], recipe)
  <2>1. made(j)[m] \in ToSet(made(j)) /\ made(j)[m] = FeatureGroup(cubes[j], keys(j)[m], recipe)
    BY DEF made, ToSet
  <2>2. made(j)[m] \in ToSet(groups)
    BY <1>1, <1>6, <2>1
  <2> QED BY <2>1, <2>2 DEF ToSet
<1>9. \E T : groups \in Seq(T)
  BY <1>5
<1> QED BY <1>7, <1>8, <1>9

\* A cube is of the region it was made of, and a group of the cube and its model.
LEMMA CubeNamed ==
  ASSUME NEW bundle, NEW name, NEW r, NEW s
  PROVE  Cube(bundle, name, r, s).view = bundle.view /\ Cube(bundle, name, r, s).roi = name
BY DEF Cube

\* A feature group carries the view, the region and the box of its cube.
LEMMA GroupNamed ==
  ASSUME NEW cube, NEW key, NEW r
  PROVE  /\ FeatureGroup(cube, key, r).view = cube.view /\ FeatureGroup(cube, key, r).roi = cube.roi
         /\ FeatureGroup(cube, key, r).key = key /\ FeatureGroup(cube, key, r).box = cube.box
BY DEF FeatureGroup

\* The cubes one by one: each is of a region of a bundle.
LEMMA CubesMeanRegions ==
  ASSUME RecipeLoaded, PreparedMade, CubesMade, Typed
  PROVE  /\ \E C : cubes \in Seq(C)
         /\ \A j \in DOMAIN cubes :
              \E i \in DOMAIN job.bundles : \E name \in DOMAIN prepared[i].rois :
                cubes[j] = Cube(prepared[i], name, recipe, site)
         /\ \A i \in DOMAIN job.bundles : \A name \in DOMAIN prepared[i].rois :
              \E j \in DOMAIN cubes : cubes[j] = Cube(prepared[i], name, recipe, site)
         /\ \A j \in DOMAIN cubes : CameraRecipe(recipe, cubes[j].view) # Absent
<1> DEFINE pairs == {q \in (DOMAIN job.bundles)
                            \X UNION {DOMAIN prepared[i].rois : i \in DOMAIN job.bundles} :
                      q[2] \in DOMAIN prepared[q[1]].rois}
           made == {Cube(prepared[p[1]], p[2], recipe, site) : p \in pairs}
<1>1. cubes \in Seq(made) /\ ToSet(cubes) = made
  BY CubesOfRegions DEF Typed
<1>2. ASSUME NEW j \in DOMAIN cubes
      PROVE  \E i \in DOMAIN job.bundles : \E name \in DOMAIN prepared[i].rois :
               cubes[j] = Cube(prepared[i], name, recipe, site)
  <2>1. cubes[j] \in made
    BY <1>1 DEF ToSet
  <2>2. PICK p \in pairs : cubes[j] = Cube(prepared[p[1]], p[2], recipe, site)
    BY <2>1
  <2> QED BY <2>2
<1>3. ASSUME NEW i \in DOMAIN job.bundles, NEW name \in DOMAIN prepared[i].rois
      PROVE  \E j \in DOMAIN cubes : cubes[j] = Cube(prepared[i], name, recipe, site)
  <2> DEFINE x == Cube(prepared[i], name, recipe, site)
  <2>1. <<i, name>> \in pairs /\ x = Cube(prepared[<<i, name>>[1]], <<i, name>>[2], recipe, site)
    OBVIOUS
  <2> HIDE DEF pairs, x
  <2>2. x \in made
    BY <2>1
  <2> HIDE DEF made
  <2>3. x \in ToSet(cubes)
    BY <1>1, <2>2
  <2> QED BY <2>3 DEF ToSet, x
<1>4. ASSUME NEW j \in DOMAIN cubes
      PROVE  CameraRecipe(recipe, cubes[j].view) # Absent
  <2>1. PICK i \in DOMAIN job.bundles : \E name \in DOMAIN prepared[i].rois :
          cubes[j] = Cube(prepared[i], name, recipe, site)
    BY <1>2
  <2>2. cubes[j].view = prepared[i].view
    BY <2>1, CubeNamed
  <2>3. prepared[i].view = ViewOf(job.bundles[i]) /\ CameraRecipe(recipe, ViewOf(job.bundles[i])) # Absent
    BY BundlesPrepared DEF Typed
  <2> QED BY <2>2, <2>3
<1> HIDE DEF made
<1>5. \E C : cubes \in Seq(C)
  BY <1>1
<1> QED BY <1>2, <1>3, <1>4, <1>5

-----------------------------------------------------------------------------
(***************************************************************************)
(* Every region of a judged seat was shown to its models.                  *)
(***************************************************************************)

\* When every stage has done its work, every model of the recipe was shown its region.
LEMMA MadeMeansShown == AllMade /\ Typed => ShownInFull
<1> SUFFICES ASSUME AllMade, Typed, NEW i \in DOMAIN job.bundles
             PROVE  LET b == job.bundles[i]
                        c == CameraRecipe(recipe, ViewOf(b))
                    IN  /\ \A l \in ToSet(recipe.quality.required) :
                             b.frames[l].calibration = c.calibration
                        /\ \A name \in DOMAIN site.templates[c.template],
                              role \in {"primary", "safety_net"} :
                             (role = "safety_net" =>
                                name \in DOMAIN c.roiSafetyNets \/ c.safetyNet # Absent)
                               => \E k \in DOMAIN groups :
                                    /\ groups[k].view = ViewOf(b) /\ groups[k].roi = name
                                    /\ recipe.models[groups[k].key].role = role
  BY DEF ShownInFull
<1> DEFINE b == job.bundles[i]
           c == CameraRecipe(recipe, ViewOf(b))
           templates == site.templates[c.template]
<1>1. /\ c # Absent /\ \A l \in DOMAIN b.frames : b.frames[l].calibration = c.calibration
      /\ prepared[i].view = ViewOf(b) /\ DOMAIN prepared[i].rois = DOMAIN templates
  BY BundlesPrepared DEF AllMade, Typed
<1>2. \A l \in ToSet(recipe.quality.required) : l \in DOMAIN b.frames
  BY GateMeansSeen DEF AllMade, SeenInFull
<1>3. ASSUME NEW name \in DOMAIN templates, NEW role \in {"primary", "safety_net"},
             role = "safety_net" => name \in DOMAIN c.roiSafetyNets \/ c.safetyNet # Absent
      PROVE  \E k \in DOMAIN groups : /\ groups[k].view = ViewOf(b) /\ groups[k].roi = name
                                      /\ recipe.models[groups[k].key].role = role
  <2> DEFINE keys == ModelKeys(recipe, ViewOf(b), name)
  <2>1. PICK j \in DOMAIN cubes : cubes[j] = Cube(prepared[i], name, recipe, site)
    BY <1>1, CubesMeanRegions DEF AllMade
  <2>2. cubes[j].view = ViewOf(b) /\ cubes[j].roi = name
    BY <1>1, <2>1, CubeNamed
  <2>3. PICK m \in DOMAIN keys : recipe.models[keys[m]].role = role
    <3>1. /\ \E m \in DOMAIN keys : recipe.models[keys[m]].role = "primary"
          /\ (name \in DOMAIN c.roiSafetyNets \/ c.safetyNet # Absent) =>
               \E m \in DOMAIN keys : recipe.models[keys[m]].role = "safety_net"
      BY <1>1, KeysKnown DEF AllMade, Typed
    <3> HIDE DEF keys, c
    <3> QED BY <1>3, <3>1
  <2>4. PICK k \in DOMAIN groups : groups[k] = FeatureGroup(cubes[j], keys[m], recipe)
    <3>1. \A jj \in DOMAIN cubes :
            \A mm \in DOMAIN ModelKeys(recipe, cubes[jj].view, cubes[jj].roi) :
              \E k \in DOMAIN groups :
                groups[k] = FeatureGroup(cubes[jj], ModelKeys(recipe, cubes[jj].view, cubes[jj].roi)[mm],
                                         recipe)
      BY CubesMeanRegions, GroupsOfCubes DEF AllMade, Typed
    <3> QED BY <2>2, <2>3, <3>1
  <2>5. groups[k].view = ViewOf(b) /\ groups[k].roi = name /\ groups[k].key = keys[m]
    BY <2>2, <2>4, GroupNamed
  <2> QED BY <2>3, <2>5
<1> QED BY <1>1, <1>2, <1>3

\* No seat is passed or rejected unless every view was seen under every required
\* light, and every region of its template shown, on images of the calibration
\* they are mapped with, to the primary model and to the safety net where the
\* recipe asks for one (quality_gate.py 32-57, roi_locator.py 346-527,
\* reflectance_cube.py 46-71, feature_builder.py 41-68).
THEOREM SeatsAreJudgedInFull == Spec /\ []Typed => []JudgedInFull
<1>1. PipelineInv /\ MadeInv /\ Typed => JudgedInFull
  BY JudgedMeansMade, MadeMeansShown, GateMeansSeen DEF JudgedInFull, AllMade
<1> QED BY <1>1, MadeAlways, PTL

-----------------------------------------------------------------------------
(***************************************************************************)
(* Boxes.                                                                  *)
(***************************************************************************)

Quads == Int \X Int \X Int \X Int

\* One box lies in another.
Inside(a, b) == b[1] <= a[1] /\ b[2] <= a[2] /\ a[3] <= b[3] /\ a[4] <= b[4]

\* Clamping to an interval ends inside it.
LEMMA ClampedWithin ==
  ASSUME NEW x \in Int, NEW low \in Int, NEW high \in Int, low <= high
  PROVE  Clamp(x, low, high) \in Int /\ low <= Clamp(x, low, high) /\ Clamp(x, low, high) <= high
<1>1. Min({x, high}) = IF x <= high THEN x ELSE high
  BY LesserOf
<1>2. Max({low, Min({x, high})}) = IF low <= Min({x, high}) THEN Min({x, high}) ELSE low
  BY <1>1, LesserOf
<1> QED BY <1>1, <1>2 DEF Clamp

\* The box around two boxes is the least that both lie in.
LEMMA MergedAround ==
  ASSUME NEW a \in Quads, NEW b \in Quads
  PROVE  /\ MergedBox(a, b) \in Quads
         /\ Inside(a, MergedBox(a, b)) /\ Inside(b, MergedBox(a, b))
         /\ \A c \in Quads : Inside(a, c) /\ Inside(b, c) => Inside(MergedBox(a, b), c)
         /\ Inside(b, a) <=> MergedBox(a, b) = a
<1>1. /\ \A i \in 1 .. 4 : a[i] \in Int /\ b[i] \in Int
      /\ a = <<a[1], a[2], a[3], a[4]>>
  BY DEF Quads
<1>2. MergedBox(a, b) = <<IF a[1] <= b[1] THEN a[1] ELSE b[1],
                          IF a[2] <= b[2] THEN a[2] ELSE b[2],
                          IF a[3] <= b[3] THEN b[3] ELSE a[3],
                          IF a[4] <= b[4] THEN b[4] ELSE a[4]>>
  <2>1. /\ a[1] \in Int /\ a[2] \in Int /\ a[3] \in Int /\ a[4] \in Int
        /\ b[1] \in Int /\ b[2] \in Int /\ b[3] \in Int /\ b[4] \in Int
    BY <1>1
  <2>2. /\ Min({a[1], b[1]}) = IF a[1] <= b[1] THEN a[1] ELSE b[1]
        /\ Min({a[2], b[2]}) = IF a[2] <= b[2] THEN a[2] ELSE b[2]
    BY <2>1, LesserOf
  <2>3. /\ Max({a[3], b[3]}) = IF a[3] <= b[3] THEN b[3] ELSE a[3]
        /\ Max({a[4], b[4]}) = IF a[4] <= b[4] THEN b[4] ELSE a[4]
    BY <2>1, LesserOf
  <2> QED BY <2>2, <2>3 DEF MergedBox
<1> DEFINE m == MergedBox(a, b)
<1>3. /\ m[1] = IF a[1] <= b[1] THEN a[1] ELSE b[1]
      /\ m[2] = IF a[2] <= b[2] THEN a[2] ELSE b[2]
      /\ m[3] = IF a[3] <= b[3] THEN b[3] ELSE a[3]
      /\ m[4] = IF a[4] <= b[4] THEN b[4] ELSE a[4]
      /\ m = <<m[1], m[2], m[3], m[4]>>
  BY <1>2
<1>4. \A i \in 1 .. 4 : m[i] \in Int
  BY <1>1, <1>3
<1>5. m \in Quads
  BY <1>3, <1>4 DEF Quads
<1>6. Inside(a, m) /\ Inside(b, m)
  BY <1>1, <1>3 DEF Inside
<1>7. \A c \in Quads : Inside(a, c) /\ Inside(b, c) => Inside(m, c)
  BY <1>3 DEF Inside
<1>8. Inside(b, a) <=> m = a
  <2>1. ASSUME Inside(b, a) PROVE m = a
    <3>1. m[1] = a[1] /\ m[2] = a[2] /\ m[3] = a[3] /\ m[4] = a[4]
      BY <1>1, <1>3, <2>1 DEF Inside
    <3> QED BY <1>1, <1>3, <3>1
  <2>2. ASSUME m = a PROVE Inside(b, a)
    BY <1>6, <2>2
  <2> QED BY <2>1, <2>2
<1> QED BY <1>5, <1>6, <1>7, <1>8

\* Lying inside is transitive.
LEMMA InsideTwice ==
  ASSUME NEW a \in Quads, NEW b \in Quads, NEW c \in Quads, Inside(a, b), Inside(b, c)
  PROVE  Inside(a, c)
<1>1. \A i \in 1 .. 4 : a[i] \in Int /\ b[i] \in Int /\ c[i] \in Int
  BY DEF Quads
<1> QED BY <1>1 DEF Inside

\* A box that is not upside down.
Upright(b) == b \in Quads /\ b[1] <= b[3] /\ b[2] <= b[4]

\* What is mapped back from a region lies in the region's place.
LEMMA SourceInside ==
  ASSUME NEW group, Upright(group.box),
         group.width \in Int, group.width >= 1, group.height \in Int, group.height >= 1,
         NEW b, \A i \in 1 .. 4 : b[i] \in Int, NEW den \in Int, den > 0
  PROVE  ToSource(b, den, group) \in Quads /\ Inside(ToSource(b, den, group), group.box)
<1> DEFINE along(v, size, span) == IF size = 1 THEN <<v, den>>
                                   ELSE <<v * (span - 1), den * (size - 1)>>
           floor(q) == q[1] \div q[2]
           ceiling(q) == -((-q[1]) \div q[2])
           w == BoxSize(group.box)[1]
           h == BoxSize(group.box)[2]
           g == group.box
<1>1. /\ \A i \in 1 .. 4 : g[i] \in Int
      /\ w \in Int /\ h \in Int /\ g[1] <= g[3] /\ g[2] <= g[4]
      /\ b[1] \in Int /\ b[2] \in Int /\ b[3] \in Int /\ b[4] \in Int
  BY DEF Upright, Quads, BoxSize
<1>2. ASSUME NEW v \in Int, NEW size \in Int, size >= 1, NEW span \in Int
      PROVE  floor(along(v, size, span)) \in Int /\ ceiling(along(v, size, span)) \in Int
  <2>1. CASE size = 1
    BY <2>1
  <2>2. CASE size # 1
    <3> DEFINE p == v * (span - 1)
               q == den * (size - 1)
    <3>1. p \in Int /\ q \in Int /\ q > 0
      <4>1. size - 1 \in Nat /\ size - 1 > 0 /\ den \in Nat
        BY <1>2, <2>2
      <4>2. \A x, y \in Nat : x > 0 /\ y > 0 => x * y \in Nat /\ x * y > 0
        OBVIOUS
      <4> QED BY <4>1, <4>2
    <3> HIDE DEF p, q
    <3>2. p \div q \in Int /\ (-p) \div q \in Int
      BY <3>1
    <3>3. along(v, size, span) = <<p, q>>
      BY <2>2 DEF p, q
    <3> HIDE DEF along
    <3> QED BY <3>2, <3>3
  <2> QED BY <2>1, <2>2
<1> DEFINE x0 == g[1] + floor(along(b[1], group.width, w))
           y0 == g[2] + floor(along(b[2], group.height, h))
           x1 == g[1] + ceiling(along(b[3], group.width, w))
           y1 == g[2] + ceiling(along(b[4], group.height, h))
<1>3. ToSource(b, den, group) = <<Clamp(x0, g[1], g[3]), Clamp(y0, g[2], g[4]),
                                  Clamp(x1, g[1], g[3]), Clamp(y1, g[2], g[4])>>
  BY DEF ToSource
<1>4. x0 \in Int /\ y0 \in Int /\ x1 \in Int /\ y1 \in Int
  <2> HIDE DEF floor, ceiling, along, w, h
  <2>1. /\ floor(along(b[1], group.width, w)) \in Int /\ floor(along(b[2], group.height, h)) \in Int
        /\ ceiling(along(b[3], group.width, w)) \in Int
        /\ ceiling(along(b[4], group.height, h)) \in Int
    <3>1. /\ floor(along(b[1], group.width, w)) \in Int
          /\ ceiling(along(b[3], group.width, w)) \in Int
      BY <1>1, <1>2
    <3>2. /\ floor(along(b[2], group.height, h)) \in Int
          /\ ceiling(along(b[4], group.height, h)) \in Int
      BY <1>1, <1>2
    <3> QED BY <3>1, <3>2
  <2>2. \A i \in 1 .. 4 : g[i] \in Int
    BY <1>1
  <2> QED BY <2>1, <2>2
<1> HIDE DEF x0, y0, x1, y1
<1>5. /\ Clamp(x0, g[1], g[3]) \in Int /\ g[1] <= Clamp(x0, g[1], g[3])
      /\ Clamp(y0, g[2], g[4]) \in Int /\ g[2] <= Clamp(y0, g[2], g[4])
      /\ Clamp(x1, g[1], g[3]) \in Int /\ Clamp(x1, g[1], g[3]) <= g[3]
      /\ Clamp(y1, g[2], g[4]) \in Int /\ Clamp(y1, g[2], g[4]) <= g[4]
  <2>1. g[1] \in Int /\ g[2] \in Int /\ g[3] \in Int /\ g[4] \in Int
    BY <1>1
  <2> HIDE DEF g
  <2> QED BY <1>1, <1>4, <2>1, ClampedWithin
<1> QED BY <1>3, <1>5 DEF Quads, Inside

-----------------------------------------------------------------------------
(***************************************************************************)
(* Where regions are.                                                      *)
(***************************************************************************)

\* A shape is finitely many points, a place a shape and the size it is cut to.
Shape(polygon) ==
  /\ IsFiniteSet(DOMAIN polygon) /\ DOMAIN polygon # {}
  /\ \A i \in DOMAIN polygon : IntPair(polygon[i])

Placed(region) == Shape(region.polygon) /\ IntPair(region.size)

\* The bounding box of a polygon of whole points is upright.
LEMMA BoxOfShape ==
  ASSUME NEW polygon, Shape(polygon)
  PROVE  Upright(Box(polygon))
<1> DEFINE xf == [i \in DOMAIN polygon |-> polygon[i][1]]
           yf == [i \in DOMAIN polygon |-> polygon[i][2]]
           xs == {polygon[i][1] : i \in DOMAIN polygon}
           ys == {polygon[i][2] : i \in DOMAIN polygon}
<1>1. IsFiniteSet({xf[i] : i \in DOMAIN xf}) /\ IsFiniteSet({yf[i] : i \in DOMAIN yf})
  <2>1. IsFiniteSet(DOMAIN xf) /\ IsFiniteSet(DOMAIN yf)
    BY DEF Shape
  <2> HIDE DEF xf, yf
  <2> QED BY <2>1, ValuesFinite
<1>2. /\ {xf[i] : i \in DOMAIN xf} = xs /\ {yf[i] : i \in DOMAIN yf} = ys
      /\ xs \in SUBSET Int /\ ys \in SUBSET Int /\ xs # {} /\ ys # {}
  BY DEF Shape, IntPair
<1>3. Box(polygon) = <<Min(xs), Min(ys), Max(xs), Max(ys)>>
  BY DEF Box
<1> HIDE DEF xs, ys
<1>4. /\ Min(xs) \in Int /\ Max(xs) \in Int /\ Min(xs) <= Max(xs)
      /\ Min(ys) \in Int /\ Max(ys) \in Int /\ Min(ys) <= Max(ys)
  BY <1>1, <1>2, FiniteLeast
<1> QED BY <1>3, <1>4 DEF Upright, Quads

\* The corners of a box of whole numbers are a polygon of whole points.
LEMMA CornersShape ==
  ASSUME NEW b, \A i \in 1 .. 4 : b[i] \in Int
  PROVE  Shape(Corners(b))
<1>1. DOMAIN Corners(b) = 1 .. 4
  BY DEF Corners
<1>2. IsFiniteSet(1 .. 4)
  <2>1. 1 \in Int /\ 4 \in Int
    OBVIOUS
  <2>2. \A a, b1 \in Int : IsFiniteSet(a .. b1)
    BY FS_Interval
  <2> QED BY <2>1, <2>2
<1>3. b[1] \in Int /\ b[2] \in Int /\ b[3] \in Int /\ b[4] \in Int
  OBVIOUS
<1>4. \A i \in 1 .. 4 : IntPair(Corners(b)[i])
  BY <1>3 DEF Corners, IntPair
<1> QED BY <1>1, <1>2, <1>4 DEF Shape

\* A region that can be cut out of an image is at least a pixel wide and high.
LEMMA CropSized ==
  ASSUME NEW f, NEW region, CanCrop(f, region), Placed(region)
  PROVE  /\ region.size[1] \in Int /\ region.size[1] >= 1
         /\ region.size[2] \in Int /\ region.size[2] >= 1
<1> DEFINE b == Box(region.polygon)
<1>1. b[1] \in Int /\ b[2] \in Int /\ b[3] \in Int /\ b[4] \in Int /\ b[1] <= b[3] /\ b[2] <= b[4]
  BY BoxOfShape DEF Placed, Upright, Quads
<1>2. \/ region.size = BoxSize(b)
      \/ region.size[1] >= 2 /\ region.size[2] >= 2
  BY DEF CanCrop, Solvable
<1>3. region.size[1] \in Int /\ region.size[2] \in Int
  BY DEF Placed, IntPair
<1> HIDE DEF b
<1> QED BY <1>1, <1>2, <1>3 DEF BoxSize

\* Of the readings of a region, the best one is among them.
LEMMA LocatedIsReading ==
  ASSUME NEW readings, IsFiniteSet(DOMAIN readings), DOMAIN readings \in SUBSET Int,
         NEW templates, NEW roi, NEW exact,
         \A i \in DOMAIN readings :
           readings[i] # Absent =>
             /\ readings[i].confidence \in Int /\ readings[i].displacement \in Int
             /\ Placed(readings[i]),
         Located(readings, templates, roi, exact) # Absent
  PROVE  \A name \in DOMAIN Located(readings, templates, roi, exact) :
           Placed(Located(readings, templates, roi, exact)[name])
<1> DEFINE good == {i \in DOMAIN readings : /\ readings[i] # Absent
                                            /\ readings[i].confidence >= roi.minConfidence}
           before(x, y) == \/ x.confidence > y.confidence
                           \/ x.confidence = y.confidence /\ x.displacement < y.displacement
           of(name) == {i \in good : readings[i].name = name}
           first(name) == CHOOSE i \in of(name) : \A j \in of(name) \ {i} :
                            \/ before(readings[i], readings[j])
                            \/ ~before(readings[j], readings[i]) /\ i < j
           best(name) == readings[first(name)]
           names == {readings[i].name : i \in good}
<1>1. Located(readings, templates, roi, exact) =
        [name \in names |-> [polygon |-> best(name).polygon, size |-> best(name).size,
                             mask |-> best(name).mask]]
  BY DEF Located
<1>2. ASSUME NEW name \in names
      PROVE  first(name) \in of(name)
  <2> DEFINE S == of(name)
             R == {p \in S \X S : \/ before(readings[p[1]], readings[p[2]])
                                  \/ ~before(readings[p[2]], readings[p[1]]) /\ p[1] < p[2]}
  <2>1. S # {} /\ S \in SUBSET DOMAIN readings
    OBVIOUS
  <2>2. IsFiniteSet(S)
    BY <2>1, FS_Subset
  <2>3. \A i \in S : /\ i \in Int /\ readings[i].confidence \in Int
                     /\ readings[i].displacement \in Int
    OBVIOUS
  <2> DEFINE In(i, j) == \/ before(readings[i], readings[j])
                         \/ ~before(readings[j], readings[i]) /\ i < j
  <2>4. \A i, j \in S : <<i, j>> \in R <=> In(i, j)
    <3> HIDE DEF S, before
    <3> QED OBVIOUS
  <2> HIDE DEF R, S
  <2>5. Orders(R, S)
    <3>1. \A x \in S : ~In(x, x)
      BY <2>3
    <3>2. \A x, y, z \in S : In(x, y) /\ In(y, z) => In(x, z)
      BY <2>3
    <3>3. \A x, y \in S : x # y => In(x, y) \/ In(y, x)
      BY <2>3
    <3> HIDE DEF In
    <3> QED BY <2>4, <3>1, <3>2, <3>3 DEF Orders
  <2>6. \E i \in S : \A j \in S \ {i} : In(i, j)
    <3> HIDE DEF In
    <3>1. PICK i \in S : \A j \in S \ {i} : <<i, j>> \in R
      BY <2>1, <2>2, <2>5, FirstTaken
    <3> QED BY <2>4, <3>1
  <2> QED BY <2>6 DEF S
<1> HIDE DEF first
<1>3. \A name \in names : first(name) \in DOMAIN readings /\ readings[first(name)] # Absent
  BY <1>2
<1> HIDE DEF names, best
<1>4. ASSUME NEW name \in names
      PROVE  Placed([polygon |-> best(name).polygon, size |-> best(name).size,
                       mask |-> best(name).mask])
  <2>1. Placed(best(name))
    BY <1>3 DEF best
  <2> QED BY <2>1 DEF Placed
<1> QED BY <1>1, <1>4

\* Rounding a quotient gives a whole number.
LEMMA RoundedInt ==
  ASSUME NEW a \in Int, NEW b \in Int, b > 0
  PROVE  Rounded(a, b) \in Int
<1>1. a \div b \in Int /\ a % b \in Int
  OBVIOUS
<1> QED BY <1>1 DEF Rounded

\* The greatest of five numbers.
LEMMA GreatestInt ==
  ASSUME NEW a \in Int, NEW b \in Int, NEW c \in Int, NEW d \in Int, NEW e \in Int
  PROVE  Max({a, b, c, d, e}) \in Int
<1> DEFINE f == <<a, b, c, d, e>>
           S == {f[i] : i \in DOMAIN f}
<1>1. DOMAIN f = 1 .. 5
  OBVIOUS
<1>2. IsFiniteSet(1 .. 5)
  <2>1. 1 \in Int /\ 5 \in Int
    OBVIOUS
  <2>2. \A x, y \in Int : IsFiniteSet(x .. y)
    BY FS_Interval
  <2> QED BY <2>1, <2>2
<1>3. {a, b, c, d, e} = S
  <2>1. /\ f[1] = a /\ f[2] = b /\ f[3] = c /\ f[4] = d /\ f[5] = e
        /\ 1 .. 5 = {1, 2, 3, 4, 5}
    OBVIOUS
  <2> HIDE DEF f
  <2> QED BY <1>1, <2>1
<1> HIDE DEF f
<1>4. IsFiniteSet(S)
  BY <1>1, <1>2, ValuesFinite
<1> HIDE DEF S
<1>5. S \in SUBSET Int /\ S # {}
  BY <1>3
<1>6. Max(S) \in S
  BY <1>4, <1>5, FiniteLeast
<1> QED BY <1>3, <1>5, <1>6

\* How far the corners of a box are from those of another.
LEMMA FurthestInt ==
  ASSUME NEW t, \A i \in 1 .. 4 : t[i] \in Int, NEW b, \A i \in 1 .. 4 : b[i] \in Int
  PROVE  Max({t[i] - b[i] : i \in 1 .. 4} \cup {b[i] - t[i] : i \in 1 .. 4}) \in Int
<1> DEFINE f == [i \in 1 .. 4 |-> t[i] - b[i]]
           g == [i \in 1 .. 4 |-> b[i] - t[i]]
           S == {t[i] - b[i] : i \in 1 .. 4}
           T == {b[i] - t[i] : i \in 1 .. 4}
<1>1. IsFiniteSet(1 .. 4)
  <2>1. 1 \in Int /\ 4 \in Int
    OBVIOUS
  <2>2. \A x, y \in Int : IsFiniteSet(x .. y)
    BY FS_Interval
  <2> QED BY <2>1, <2>2
<1>2. S = {f[i] : i \in DOMAIN f} /\ T = {g[i] : i \in DOMAIN g}
  OBVIOUS
<1>3. DOMAIN f = 1 .. 4 /\ DOMAIN g = 1 .. 4
  OBVIOUS
<1>4. S \cup T \in SUBSET Int /\ S \cup T # {}
  OBVIOUS
<1> HIDE DEF f, g, S, T
<1>5. IsFiniteSet(S) /\ IsFiniteSet(T)
  BY <1>1, <1>2, <1>3, ValuesFinite
<1>6. IsFiniteSet(S \cup T)
  BY <1>5, FS_Union
<1>7. Max(S \cup T) \in S \cup T
  BY <1>4, <1>6, FiniteLeast
<1>8. Max(S \cup T) \in Int
  BY <1>4, <1>7
<1> QED BY <1>8 DEF S, T

\* An image there is something of.
Sized(f) == f.width \in Int /\ f.width > 0 /\ f.height \in Int /\ f.height > 0

\* A template is finitely many placed regions.
TemplatePlaced(templates) ==
  \A name \in DOMAIN templates : Placed(templates[name])

\* What is made of a detection is a place, with numbers to compare.
Comparable(reading) ==
  reading.confidence \in Int /\ reading.displacement \in Int /\ Placed(reading)

\* A detected class names a region of the templates, or none.
LEMMA RegionKnown ==
  ASSUME NEW class, NEW templates, NEW roi, RegionOf(class, templates, roi) # Absent
  PROVE  RegionOf(class, templates, roi) \in DOMAIN templates
BY DEF RegionOf

\* A row that is read as a region has what the choice among readings compares.
LEMMA RowsRead ==
  ASSUME NEW row, IntBox(row.box), NEW f, Sized(f), NEW roi,
         NEW templates, TemplatePlaced(templates),
         RowReading(row, f, templates, roi) # Absent
  PROVE  Comparable(RowReading(row, f, templates, roi))
<1> DEFINE name == RegionOf(row.class, templates, roi)
           scaled == <<Rounded(row.box[1] * (f.width - 1), 10),
                       Rounded(row.box[2] * (f.height - 1), 10),
                       Rounded(row.box[3] * (f.width - 1), 10),
                       Rounded(row.box[4] * (f.height - 1), 10)>>
           b == IF roi.bboxFormat = "xyxy_normalized" THEN scaled ELSE row.box
           t == Box(templates[name].polygon)
           d == Max({t[i] - b[i] : i \in 1 .. 4} \cup {b[i] - t[i] : i \in 1 .. 4})
<1>1. /\ Ratio(row.score) /\ name # Absent
      /\ RowReading(row, f, templates, roi) =
           [name |-> name, confidence |-> row.score, polygon |-> Corners(b),
            size |-> templates[name].size, mask |-> Absent, displacement |-> d]
  BY DEF RowReading
<1>2. name \in DOMAIN templates
  BY <1>1, RegionKnown
<1> HIDE DEF name
<1>3. \A i \in 1 .. 4 : b[i] \in Int
  <2>1. \A i \in 1 .. 4 : row.box[i] \in Int
    BY DEF IntBox
  <2>2. /\ row.box[1] * (f.width - 1) \in Int /\ row.box[2] * (f.height - 1) \in Int
        /\ row.box[3] * (f.width - 1) \in Int /\ row.box[4] * (f.height - 1) \in Int
    <3>1. row.box[1] \in Int /\ row.box[2] \in Int /\ row.box[3] \in Int /\ row.box[4] \in Int
      BY <2>1
    <3> QED BY <3>1 DEF Sized
  <2>3. /\ Rounded(row.box[1] * (f.width - 1), 10) \in Int
        /\ Rounded(row.box[2] * (f.height - 1), 10) \in Int
        /\ Rounded(row.box[3] * (f.width - 1), 10) \in Int
        /\ Rounded(row.box[4] * (f.height - 1), 10) \in Int
    <3>1. \A a \in Int : Rounded(a, 10) \in Int
      <4>1. 10 \in Int /\ 10 > 0
        OBVIOUS
      <4> QED BY <4>1, RoundedInt
    <3> DEFINE p == row.box[1] * (f.width - 1)
               q == row.box[2] * (f.height - 1)
               u == row.box[3] * (f.width - 1)
               v == row.box[4] * (f.height - 1)
    <3>2. p \in Int /\ q \in Int /\ u \in Int /\ v \in Int
      BY <2>2
    <3> HIDE DEF p, q, u, v
    <3>3. /\ Rounded(p, 10) \in Int /\ Rounded(q, 10) \in Int
          /\ Rounded(u, 10) \in Int /\ Rounded(v, 10) \in Int
      BY <3>1, <3>2
    <3> QED BY <3>3 DEF p, q, u, v
  <2>4. \A i \in 1 .. 4 : scaled[i] \in Int
    BY <2>3
  <2> HIDE DEF scaled
  <2> QED BY <2>1, <2>4
<1>4. \A i \in 1 .. 4 : t[i] \in Int
  BY <1>2, BoxOfShape DEF TemplatePlaced, Placed, Upright, Quads
<1> HIDE DEF b, t
<1>5. d \in Int
  BY <1>3, <1>4, FurthestInt
<1>6. Shape(Corners(b))
  BY <1>3, CornersShape
<1>7. IntPair(templates[name].size) /\ row.score \in Int
  BY <1>1, <1>2 DEF TemplatePlaced, Placed, Ratio
<1> HIDE DEF d
<1> QED BY <1>1, <1>5, <1>6, <1>7 DEF Comparable, Placed

\* Ratios are in tenths, so this is the rounding the other lemmas meet.
LEMMA TensRounded == \A a \in Int : Rounded(a, 10) \in Int
<1>1. 10 \in Int /\ 10 > 0
  OBVIOUS
<1> QED BY <1>1, RoundedInt

\* The model's input has a size, and the image a scale in it.
Fitted(t) ==
  /\ t.width \in Int /\ t.width > 0 /\ t.height \in Int /\ t.height > 0
  /\ t.num \in Int /\ t.num > 0 /\ t.den \in Int /\ t.den > 0
  /\ t.padX \in Int /\ t.padY \in Int

\* The letterbox of an image has whole numbers and a scale that is not zero.
LEMMA LetterboxFitted ==
  ASSUME NEW f, Sized(f), NEW roi, roi.inputWidth \in Nat, roi.inputHeight \in Nat
  PROVE  Fitted(Letterbox(f, roi))
<1> DEFINE w == IF roi.inputWidth = 0 THEN f.width ELSE roi.inputWidth
           h == IF roi.inputHeight = 0 THEN f.height ELSE roi.inputHeight
           wide == w * f.height <= h * f.width
           num == IF wide THEN w ELSE h
           den == IF wide THEN f.width ELSE f.height
           x == Max({1, Rounded(f.width * num, den)})
           y == Max({1, Rounded(f.height * num, den)})
<1>1. w \in Int /\ w > 0 /\ h \in Int /\ h > 0
  BY DEF Sized
<1>2. f.width \in Int /\ f.width > 0 /\ f.height \in Int /\ f.height > 0
  BY DEF Sized
<1>3. Letterbox(f, roi) = [width |-> w, height |-> h, num |-> num, den |-> den,
                           padX |-> w - x, padY |-> h - y]
  BY DEF Letterbox
<1> HIDE DEF w, h
<1>4. num \in Int /\ num > 0 /\ den \in Int /\ den > 0
  <2> HIDE DEF wide
  <2> QED BY <1>1, <1>2
<1> HIDE DEF num, den
<1>5. f.width * num \in Int /\ f.height * num \in Int
  BY <1>2, <1>4
<1> DEFINE p == f.width * num
           q == f.height * num
<1>6. Rounded(p, den) \in Int /\ Rounded(q, den) \in Int
  <2>1. p \in Int /\ q \in Int
    BY <1>5
  <2> HIDE DEF p, q
  <2> QED BY <1>4, <2>1, RoundedInt
<1>7. x \in Int /\ y \in Int
  <2>1. \A v \in Int : Max({1, v}) \in Int
    <3>1. 1 \in Int
      OBVIOUS
    <3>2. \A v \in Int : Max({1, v}) = IF 1 <= v THEN v ELSE 1
      BY <3>1, LesserOf
    <3> QED BY <3>2
  <2> QED BY <1>6, <2>1
<1> HIDE DEF x, y
<1> QED BY <1>1, <1>3, <1>4, <1>7 DEF Fitted

\* A box mapped back from the model's input has whole coordinates.
LEMMA FromModelInt ==
  ASSUME NEW b, IntBox(b), NEW t, Fitted(t), NEW f, Sized(f)
  PROVE  IntBox(BoxFromModel(b, t, f))
<1>1. ASSUME NEW v \in Int, NEW pad \in Int, NEW size \in Int, size > 0
      PROVE  Clamp(Rounded((2 * v - pad) * t.den, 2 * t.num), 0, size - 1) \in Int
  <2> DEFINE p == (2 * v - pad) * t.den
             q == 2 * t.num
  <2>1. p \in Int /\ q \in Int /\ q > 0
    BY DEF Fitted
  <2> HIDE DEF p, q
  <2>2. Rounded(p, q) \in Int
    BY <2>1, RoundedInt
  <2>3. 0 \in Int /\ size - 1 \in Int /\ 0 <= size - 1
    BY <1>1
  <2>4. Clamp(Rounded(p, q), 0, size - 1) \in Int
    BY <2>2, <2>3, ClampedWithin
  <2> QED BY <2>4 DEF p, q
<1>2. b[1] \in Int /\ b[2] \in Int /\ b[3] \in Int /\ b[4] \in Int
  BY DEF IntBox
<1> DEFINE x(v) == Clamp(Rounded((2 * v - t.padX) * t.den, 2 * t.num), 0, f.width - 1)
           y(v) == Clamp(Rounded((2 * v - t.padY) * t.den, 2 * t.num), 0, f.height - 1)
<1>3. /\ f.width \in Int /\ f.width > 0 /\ f.height \in Int /\ f.height > 0
      /\ t.padX \in Int /\ t.padY \in Int
  BY DEF Sized, Fitted
<1>4. x(b[1]) \in Int /\ x(b[3]) \in Int
  BY <1>1, <1>2, <1>3
<1>5. y(b[2]) \in Int /\ y(b[4]) \in Int
  BY <1>1, <1>2, <1>3
<1>6. BoxFromModel(b, t, f) = <<x(b[1]), y(b[2]), x(b[3]), y(b[4])>>
  BY DEF BoxFromModel
<1> HIDE DEF x, y
<1> QED BY <1>4, <1>5, <1>6 DEF IntBox

\* A grid of cells and the box of those that are set, if any is.
MaskTyped(mask) ==
  /\ IntPair(mask.grid) /\ mask.grid[1] > 0 /\ mask.grid[2] > 0
  /\ mask.cells = Absent \/ IntBox(mask.cells)

\* The part of a mask inside a box is a mask.
LEMMA MaskCropped ==
  ASSUME NEW mask, MaskTyped(mask), NEW b, IntBox(b), NEW t, Fitted(t)
  PROVE  MaskTyped(CropMask(mask, b, t))
<1> DEFINE low(v, cells, size) ==
             Clamp((Clamp(v, 0, size - 1) * cells) \div size, 0, cells - 1)
           high(v, cells, size) == -((-(Clamp(v, 0, size - 1) + 1) * cells) \div size) - 1
           x0 == low(b[1], mask.grid[1], t.width)
           y0 == low(b[2], mask.grid[2], t.height)
           hx == high(b[3], mask.grid[1], t.width)
           hy == high(b[4], mask.grid[2], t.height)
           x1 == Clamp(hx, x0, mask.grid[1] - 1)
           y1 == Clamp(hy, y0, mask.grid[2] - 1)
           set == mask.cells
           inside == <<Max({set[1], x0}) - x0, Max({set[2], y0}) - y0,
                       Min({set[3], x1}) - x0, Min({set[4], y1}) - y0>>
<1>1. ASSUME NEW v \in Int, NEW cells \in Int, cells > 0, NEW size \in Int, size > 0
      PROVE  /\ low(v, cells, size) \in Int /\ low(v, cells, size) <= cells - 1
             /\ high(v, cells, size) \in Int
  <2> DEFINE c == Clamp(v, 0, size - 1)
  <2>1. c \in Int
    <3>1. 0 \in Int /\ size - 1 \in Int /\ 0 <= size - 1
      BY <1>1
    <3> QED BY <3>1, ClampedWithin
  <2> HIDE DEF c
  <2> DEFINE p == c * cells
             q == -(c + 1) * cells
  <2>2. p \in Int /\ q \in Int
    BY <2>1
  <2> HIDE DEF p, q
  <2>3. p \div size \in Int /\ -(q \div size) - 1 \in Int
    BY <1>1, <2>2
  <2>4. 0 \in Int /\ cells - 1 \in Int /\ 0 <= cells - 1
    BY <1>1
  <2>5. Clamp(p \div size, 0, cells - 1) \in Int /\ Clamp(p \div size, 0, cells - 1) <= cells - 1
    <3> DEFINE d == p \div size
    <3>1. d \in Int
      BY <2>3
    <3> HIDE DEF d
    <3>2. Clamp(d, 0, cells - 1) \in Int /\ Clamp(d, 0, cells - 1) <= cells - 1
      BY <2>4, <3>1, ClampedWithin
    <3> QED BY <3>2 DEF d
  <2> QED BY <2>3, <2>5 DEF c, p, q
<1>2. /\ mask.grid[1] \in Int /\ mask.grid[1] > 0 /\ mask.grid[2] \in Int /\ mask.grid[2] > 0
      /\ b[1] \in Int /\ b[2] \in Int /\ b[3] \in Int /\ b[4] \in Int
      /\ t.width \in Int /\ t.width > 0 /\ t.height \in Int /\ t.height > 0
  BY DEF MaskTyped, IntPair, IntBox, Fitted
<1>3. CropMask(mask, b, t) =
        [grid |-> <<x1 - x0 + 1, y1 - y0 + 1>>,
         cells |-> IF set = Absent THEN Absent
                   ELSE IF inside[1] <= inside[3] /\ inside[2] <= inside[4]
                        THEN inside ELSE Absent]
  BY DEF CropMask
<1> HIDE DEF low, high
<1>4. /\ x0 \in Int /\ x0 <= mask.grid[1] - 1 /\ y0 \in Int /\ y0 <= mask.grid[2] - 1
  BY <1>1, <1>2
<1>5. hx \in Int /\ hy \in Int
  BY <1>1, <1>2
<1> HIDE DEF x0, y0, hx, hy
<1>6. x1 \in Int /\ x0 <= x1 /\ y1 \in Int /\ y0 <= y1
  <2>1. mask.grid[1] - 1 \in Int /\ mask.grid[2] - 1 \in Int
    BY <1>2
  <2>2. x1 \in Int /\ x0 <= x1
    BY <1>4, <1>5, <2>1, ClampedWithin
  <2>3. y1 \in Int /\ y0 <= y1
    BY <1>4, <1>5, <2>1, ClampedWithin
  <2> QED BY <2>2, <2>3
<1> HIDE DEF x1, y1
<1>7. set # Absent => IntBox(inside)
  <2> SUFFICES ASSUME set # Absent PROVE IntBox(inside)
    OBVIOUS
  <2>1. set[1] \in Int /\ set[2] \in Int /\ set[3] \in Int /\ set[4] \in Int
    BY DEF MaskTyped, IntBox
  <2> HIDE DEF set
  <2>2. /\ Max({set[1], x0}) \in Int /\ Max({set[2], y0}) \in Int
        /\ Min({set[3], x1}) \in Int /\ Min({set[4], y1}) \in Int
    <3>1. \A u, v \in Int : Max({u, v}) \in Int /\ Min({u, v}) \in Int
      <4>1. \A u, v \in Int : /\ Min({u, v}) = IF u <= v THEN u ELSE v
                              /\ Max({u, v}) = IF u <= v THEN v ELSE u
        BY LesserOf
      <4> QED BY <4>1
    <3> QED BY <1>4, <1>6, <2>1, <3>1
  <2>3. /\ inside[1] \in Int /\ inside[2] \in Int /\ inside[3] \in Int /\ inside[4] \in Int
    BY <1>4, <2>2
  <2> HIDE DEF inside
  <2> QED BY <2>3 DEF IntBox
<1> HIDE DEF inside, set
<1>8. /\ x1 - x0 + 1 \in Int /\ x1 - x0 + 1 > 0 /\ y1 - y0 + 1 \in Int /\ y1 - y0 + 1 > 0
  BY <1>4, <1>6
<1> QED BY <1>3, <1>7, <1>8 DEF MaskTyped, IntPair

\* The same for a segmentation candidate, mapped back from the letterbox.
LEMMA MasksRead ==
  ASSUME NEW box, IntBox(box), NEW score, NEW class, NEW mask, MaskTyped(mask),
         NEW maskBox, IntBox(maskBox), NEW f, Sized(f), NEW roi, NEW t, Fitted(t),
         NEW templates, TemplatePlaced(templates),
         NEW c, c = [box |-> box, score |-> score, class |-> class, mask |-> mask,
                     maskBox |-> maskBox],
         MaskReading(MapCandidate(c, t, f, roi), f, templates, roi) # Absent
  PROVE  Comparable(MaskReading(MapCandidate(c, t, f, roi), f, templates, roi))
<1> DEFINE m == MapCandidate(c, t, f, roi)
           name == RegionOf(m.class, templates, roi)
           set == m.mask.cells
           grid == m.mask.grid
           span == <<Max({1, BoxSize(m.maskBox)[1]}), Max({1, BoxSize(m.maskBox)[2]})>>
           edge(low, cell, i) == Rounded(low * grid[i] + cell * span[i], grid[i])
           b == <<Clamp(edge(m.maskBox[1], set[1], 1), 0, f.width - 1),
                  Clamp(edge(m.maskBox[2], set[2], 2), 0, f.height - 1),
                  Clamp(edge(m.maskBox[1], set[3] + 1, 1) - 1, 0, f.width - 1),
                  Clamp(edge(m.maskBox[2], set[4] + 1, 2) - 1, 0, f.height - 1)>>
           q == Box(templates[name].polygon)
           d == Max({q[1] - b[1], q[2] - b[2], b[3] - q[3], b[4] - q[4], 0})
<1>1. IntBox(m.maskBox) /\ MaskTyped(m.mask)
  <2> DEFINE proto == roi.decode = "ultralytics_yolo_seg" /\ UsesProtoCanvas(c, t)
             mb == BoxFromModel(IF proto THEN c.box ELSE c.maskBox, t, f)
             mm == IF proto THEN CropMask(c.mask, c.box, t) ELSE c.mask
  <2>1. m.maskBox = mb /\ m.mask = mm
    BY DEF MapCandidate
  <2>2. c.box = box /\ c.mask = mask /\ c.maskBox = maskBox
    OBVIOUS
  <2> HIDE DEF m, proto
  <2>3. IntBox(mb)
    <3>1. IntBox(BoxFromModel(box, t, f)) /\ IntBox(BoxFromModel(maskBox, t, f))
      BY FromModelInt
    <3> QED BY <2>2, <3>1
  <2>4. MaskTyped(mm)
    BY <2>2, MaskCropped
  <2> QED BY <2>1, <2>3, <2>4
<1> HIDE DEF m
<1>2. /\ Ratio(m.score) /\ name # Absent /\ set # Absent
      /\ MaskReading(m, f, templates, roi) =
           [name |-> name, confidence |-> m.score, polygon |-> Corners(b), size |-> BoxSize(b),
            mask |-> ErodedMask(BoxSize(b)), displacement |-> d]
  <2> DEFINE area == Area(set) * span[1] * span[2]
             cells == grid[1] * grid[2]
             whole == f.width * f.height * cells
             fit == /\ area >= roi.minMaskArea * cells
                    /\ 10 * area \in roi.minMaskRatio * whole .. roi.maxMaskRatio * whole
             made == [name |-> name, confidence |-> m.score, polygon |-> Corners(b),
                      size |-> BoxSize(b), mask |-> ErodedMask(BoxSize(b)), displacement |-> d]
  <2>1. MaskReading(m, f, templates, roi) # Absent
    BY DEF m
  <2>2. MaskReading(m, f, templates, roi) =
          IF Ratio(m.score) /\ name # Absent /\ set # Absent /\ fit THEN made ELSE Absent
    BY DEF MaskReading
  <2> HIDE DEF fit, made, name, set
  <2>3. /\ Ratio(m.score) /\ name # Absent /\ set # Absent
        /\ MaskReading(m, f, templates, roi) = made
    BY <2>1, <2>2
  <2> QED BY <2>3 DEF made
<1>3. name \in DOMAIN templates
  BY <1>2, RegionKnown
<1> HIDE DEF name
<1>4. /\ grid[1] \in Int /\ grid[1] > 0 /\ grid[2] \in Int /\ grid[2] > 0
      /\ set[1] \in Int /\ set[2] \in Int /\ set[3] \in Int /\ set[4] \in Int
      /\ m.maskBox[1] \in Int /\ m.maskBox[2] \in Int
      /\ m.maskBox[3] \in Int /\ m.maskBox[4] \in Int
  BY <1>1, <1>2 DEF MaskTyped, IntPair, IntBox
<1>5. span[1] \in Int /\ span[2] \in Int
  <2>1. BoxSize(m.maskBox)[1] \in Int /\ BoxSize(m.maskBox)[2] \in Int
    BY <1>4 DEF BoxSize
  <2>2. \A v \in Int : Max({1, v}) \in Int
    <3>1. 1 \in Int
      OBVIOUS
    <3>2. \A v \in Int : Max({1, v}) = IF 1 <= v THEN v ELSE 1
      BY <3>1, LesserOf
    <3> QED BY <3>2
  <2> QED BY <2>1, <2>2
<1> HIDE DEF set, grid, span
<1>6. ASSUME NEW low \in Int, NEW cell \in Int, NEW i \in {1, 2}
      PROVE  edge(low, cell, i) \in Int
  <2> DEFINE p == low * grid[i] + cell * span[i]
             g == grid[i]
  <2>1. g \in Int /\ g > 0 /\ span[i] \in Int
    BY <1>4, <1>5
  <2>2. p \in Int
    BY <2>1
  <2> HIDE DEF p, g
  <2>3. Rounded(p, g) \in Int
    BY <2>1, <2>2, RoundedInt
  <2> QED BY <2>3 DEF p, g
<1>7. /\ edge(m.maskBox[1], set[1], 1) \in Int /\ edge(m.maskBox[2], set[2], 2) \in Int
      /\ edge(m.maskBox[1], set[3] + 1, 1) - 1 \in Int
      /\ edge(m.maskBox[2], set[4] + 1, 2) - 1 \in Int
  <2>1. set[3] + 1 \in Int /\ set[4] + 1 \in Int
    BY <1>4
  <2>2. edge(m.maskBox[1], set[1], 1) \in Int
    BY <1>4, <1>6
  <2>3. edge(m.maskBox[2], set[2], 2) \in Int
    BY <1>4, <1>6
  <2>4. edge(m.maskBox[1], set[3] + 1, 1) \in Int
    BY <1>4, <1>6, <2>1
  <2>5. edge(m.maskBox[2], set[4] + 1, 2) \in Int
    BY <1>4, <1>6, <2>1
  <2> HIDE DEF edge
  <2> QED BY <2>2, <2>3, <2>4, <2>5
<1> HIDE DEF edge
<1>8. b[1] \in Int /\ b[2] \in Int /\ b[3] \in Int /\ b[4] \in Int
  <2>1. \A v, size \in Int : size > 0 => Clamp(v, 0, size - 1) \in Int
    <3>1. \A size \in Int : size > 0 => 0 \in Int /\ size - 1 \in Int /\ 0 <= size - 1
      OBVIOUS
    <3> QED BY <3>1, ClampedWithin
  <2>2. f.width \in Int /\ f.width > 0 /\ f.height \in Int /\ f.height > 0
    BY DEF Sized
  <2> QED BY <1>7, <2>1, <2>2
<1>9. \A i \in 1 .. 4 : b[i] \in Int
  BY <1>8
<1> HIDE DEF b
<1>10. \A i \in 1 .. 4 : q[i] \in Int
  BY <1>3, BoxOfShape DEF TemplatePlaced, Placed, Upright, Quads
<1> HIDE DEF q
<1>11. d \in Int
  <2> DEFINE d1 == q[1] - b[1]
             d2 == q[2] - b[2]
             d3 == b[3] - q[3]
             d4 == b[4] - q[4]
  <2>1. d1 \in Int /\ d2 \in Int /\ d3 \in Int /\ d4 \in Int /\ 0 \in Int
    BY <1>8, <1>10
  <2> HIDE DEF d1, d2, d3, d4
  <2>2. Max({d1, d2, d3, d4, 0}) \in Int
    BY <2>1, GreatestInt
  <2> QED BY <2>2 DEF d1, d2, d3, d4
<1>12. Shape(Corners(b)) /\ IntPair(BoxSize(b))
  BY <1>8, <1>9, CornersShape DEF BoxSize, IntPair
<1> HIDE DEF d
<1>13. m.score \in Int
  BY <1>2 DEF Ratio
<1>14. Comparable(MaskReading(m, f, templates, roi))
  BY <1>2, <1>11, <1>12, <1>13 DEF Comparable, Placed
<1> QED BY <1>14 DEF m

\* A table of finitely many rows.
Table(rows) ==
  /\ IsFiniteSet(DOMAIN rows) /\ DOMAIN rows \in SUBSET Int
  /\ \E n \in Nat : DOMAIN rows = 1 .. n

\* A list is a table: its places are the numbers up to its length.
LEMMA ListedTable ==
  ASSUME NEW rows, Listed(rows)
  PROVE  /\ Table(rows) /\ Len(rows) \in Nat /\ DOMAIN rows = 1 .. Len(rows)
         /\ \A i \in DOMAIN rows : rows[i] \in ToSet(rows)
<1>1. Len(rows) \in Nat /\ DOMAIN rows = 1 .. Len(rows)
  BY LenProperties DEF Listed
<1>2. IsFiniteSet(1 .. Len(rows))
  <2>1. \A x, y \in Int : IsFiniteSet(x .. y)
    BY FS_Interval
  <2> QED BY <1>1, <2>1
<1>3. Table(rows)
  <2>1. DOMAIN rows \in SUBSET Int
    BY <1>1
  <2> QED BY <1>1, <1>2, <2>1 DEF Table
<1>4. \A i \in DOMAIN rows : rows[i] \in ToSet(rows)
  BY DEF ToSet
<1> QED BY <1>1, <1>3, <1>4

\* The rows at a set of places are a table of exactly those rows.
LEMMA PlacesTable ==
  ASSUME NEW rows, Table(rows), NEW P \in SUBSET DOMAIN rows
  PROVE  /\ Table(At(rows, P))
         /\ \A k \in DOMAIN At(rows, P) : \E i \in P : At(rows, P)[k] = rows[i]
         /\ \A i \in P : \E k \in DOMAIN At(rows, P) : At(rows, P)[k] = rows[i]
<1>1. P \in SUBSET Int /\ IsFiniteSet(P)
  BY FS_Subset DEF Table
<1> DEFINE n == Cardinality(P)
<1>2. /\ n \in Nat /\ DOMAIN At(rows, P) = 1 .. n
      /\ \A k \in 1 .. n : \E i \in P : At(rows, P)[k] = rows[i]
      /\ \A i \in P : \E k \in 1 .. n : At(rows, P)[k] = rows[i]
  BY <1>1, AtPlaces
<1>3. IsFiniteSet(1 .. n) /\ 1 .. n \in SUBSET Int
  <2>1. \A x, y \in Int : IsFiniteSet(x .. y)
    BY FS_Interval
  <2> QED BY <1>2, <2>1
<1> QED BY <1>2, <1>3 DEF Table

\* Filtering by the threshold keeps exactly the rows that reach it.
LEMMA ConfidentTable ==
  ASSUME NEW rows, Table(rows), NEW threshold
  PROVE  /\ Table(Confident(rows, threshold))
         /\ \A k \in DOMAIN Confident(rows, threshold) :
              \E i \in DOMAIN rows : /\ Confident(rows, threshold)[k] = rows[i]
                                     /\ rows[i].score >= threshold
         /\ \A i \in DOMAIN rows : rows[i].score >= threshold =>
              \E k \in DOMAIN Confident(rows, threshold) : Confident(rows, threshold)[k] = rows[i]
<1> DEFINE P == {i \in DOMAIN rows : rows[i].score >= threshold}
<1>1. P \in SUBSET DOMAIN rows /\ Confident(rows, threshold) = At(rows, P)
  BY DEF Confident
<1>2. \A i : i \in P <=> i \in DOMAIN rows /\ rows[i].score >= threshold
  OBVIOUS
<1> HIDE DEF P
<1> QED BY <1>1, <1>2, PlacesTable

\* Regions the calibration accepts have polygons of whole points.
LEMMA TemplatePlaces ==
  ASSUME NEW templates, RegionsOK(templates),
         \A name \in DOMAIN templates : RegionTyped(templates[name])
  PROVE  TemplatePlaced(templates)
<1> SUFFICES ASSUME NEW name \in DOMAIN templates PROVE Placed(templates[name])
  BY DEF TemplatePlaced
<1> DEFINE polygon == templates[name].polygon
<1>1. Listed(polygon) /\ IntPair(templates[name].size) /\ \A p \in ToSet(polygon) : IntPair(p)
  BY DEF RegionTyped
<1>2. Len(polygon) >= 3
  BY DEF RegionsOK
<1> HIDE DEF polygon
<1>3. /\ Table(polygon) /\ Len(polygon) \in Nat /\ DOMAIN polygon = 1 .. Len(polygon)
      /\ \A i \in DOMAIN polygon : polygon[i] \in ToSet(polygon)
  BY <1>1, ListedTable
<1>4. IsFiniteSet(DOMAIN polygon) /\ DOMAIN polygon # {}
  <2>1. 1 \in 1 .. Len(polygon)
    BY <1>2, <1>3
  <2> QED BY <1>3, <2>1 DEF Table
<1>5. Shape(polygon)
  BY <1>1, <1>3, <1>4 DEF Shape
<1> QED BY <1>1, <1>5 DEF Placed, polygon

\* The stand-in region model answers with one row for each region.
LEMMA FakeTable ==
  ASSUME NEW templates, TemplatePlaced(templates), NEW roi, Listed(roi.classes)
  PROVE  /\ Table(FakeRows(templates, roi))
         /\ \A i \in DOMAIN FakeRows(templates, roi) : IntBox(FakeRows(templates, roi)[i].box)
<1> DEFINE P == {i \in DOMAIN roi.classes : roi.classes[i] \in DOMAIN templates}
           known == At(roi.classes, P)
           class(name) == (CHOOSE i \in DOMAIN roi.classes : roi.classes[i] = name) - 1
           rows == FakeRows(templates, roi)
<1>1. rows = [i \in DOMAIN known |-> [box |-> Box(templates[known[i]].polygon), score |-> 10,
                                      class |-> class(known[i]), nan |-> {}]]
  BY DEF FakeRows
<1>2. Table(roi.classes)
  BY ListedTable
<1>3. P \in SUBSET DOMAIN roi.classes /\ \A i \in P : roi.classes[i] \in DOMAIN templates
  OBVIOUS
<1> HIDE DEF P, rows, class
<1>4. Table(known) /\ \A k \in DOMAIN known : \E i \in P : known[k] = roi.classes[i]
  BY <1>2, <1>3, PlacesTable
<1>5. \A k \in DOMAIN known : known[k] \in DOMAIN templates
  BY <1>3, <1>4
<1> HIDE DEF known
<1>6. \A name \in DOMAIN templates : IntBox(Box(templates[name].polygon))
  <2>1. \A name \in DOMAIN templates : Upright(Box(templates[name].polygon))
    BY BoxOfShape DEF TemplatePlaced, Placed
  <2>2. \A q \in Quads : IntBox(q)
    BY DEF Quads, IntBox
  <2> QED BY <2>1, <2>2 DEF Upright
<1>7. DOMAIN rows = DOMAIN known
  BY <1>1
<1>8. \A i \in DOMAIN known : rows[i].box = Box(templates[known[i]].polygon)
  BY <1>1
<1>9. Table(rows) /\ \A i \in DOMAIN rows : IntBox(rows[i].box)
  BY <1>4, <1>5, <1>6, <1>7, <1>8 DEF Table
<1> QED BY <1>9 DEF rows

\* What a model located regions with is a table of rows with boxes and masks.
OutputTyped(output) == Listed(output.rows) /\ \A row \in ToSet(output.rows) : RowTyped(row)

\* Decoding rows gives rows with whole boxes.
LEMMA RowsDecoded ==
  ASSUME NEW output, OutputTyped(output), NEW threshold, NEW decode,
         DecodeRows(output, threshold, decode) # Absent
  PROVE  /\ Table(DecodeRows(output, threshold, decode))
         /\ \A i \in DOMAIN DecodeRows(output, threshold, decode) :
              IntBox(DecodeRows(output, threshold, decode)[i].box)
<1>1. /\ Table(output.rows) /\ \A i \in DOMAIN output.rows : IntBox(output.rows[i].box)
  BY ListedTable DEF OutputTyped, RowTyped
<1>2. /\ Table(Confident(output.rows, threshold))
      /\ \A i \in DOMAIN Confident(output.rows, threshold) :
           IntBox(Confident(output.rows, threshold)[i].box)
  BY <1>1, ConfidentTable
<1>3. DecodeRows(output, threshold, decode) \in {output.rows, Confident(output.rows, threshold)}
  BY DEF DecodeRows
<1> QED BY <1>1, <1>2, <1>3

\* Decoding masks gives the network's rows, each with the box its mask belongs to.
LEMMA MasksDecoded ==
  ASSUME NEW output, OutputTyped(output), NEW threshold, NEW decode,
         DecodeMasks(output, threshold, decode) # Absent
  PROVE  /\ Table(DecodeMasks(output, threshold, decode))
         /\ \A i \in DOMAIN DecodeMasks(output, threshold, decode) :
              \E row, maskBox :
                /\ RowTyped(row) /\ IntBox(maskBox)
                /\ DecodeMasks(output, threshold, decode)[i] =
                     [box |-> row.box, score |-> row.score, class |-> row.class,
                      mask |-> row.mask, maskBox |-> maskBox]
<1> DEFINE kept == Confident(output.rows, threshold)
           maskBox(row) == IF decode = "segmentation_rows" THEN row.box
                           ELSE <<0, 0, row.mask.grid[1] - 1, row.mask.grid[2] - 1>>
           masks == DecodeMasks(output, threshold, decode)
<1>1. masks = [i \in DOMAIN kept |->
                 [box |-> kept[i].box, score |-> kept[i].score, class |-> kept[i].class,
                  mask |-> kept[i].mask, maskBox |-> maskBox(kept[i])]]
  BY DEF DecodeMasks
<1>2. Table(output.rows) /\ \A i \in DOMAIN output.rows : RowTyped(output.rows[i])
  BY ListedTable DEF OutputTyped
<1>3. Table(kept) /\ \A i \in DOMAIN kept : RowTyped(kept[i])
  BY <1>2, ConfidentTable
<1>4. ASSUME NEW row, RowTyped(row)
      PROVE  IntBox(maskBox(row))
  <2>1. row.mask.grid[1] - 1 \in Int /\ row.mask.grid[2] - 1 \in Int /\ IntBox(row.box)
    BY <1>4 DEF RowTyped, IntPair
  <2>2. IntBox(<<0, 0, row.mask.grid[1] - 1, row.mask.grid[2] - 1>>)
    BY <2>1 DEF IntBox
  <2> QED BY <2>1, <2>2
<1> HIDE DEF masks, kept, maskBox
<1>5. DOMAIN masks = DOMAIN kept
  BY <1>1
<1>6. ASSUME NEW i \in DOMAIN masks
      PROVE  /\ RowTyped(kept[i]) /\ IntBox(maskBox(kept[i]))
             /\ masks[i] = [box |-> kept[i].box, score |-> kept[i].score, class |-> kept[i].class,
                            mask |-> kept[i].mask, maskBox |-> maskBox(kept[i])]
  BY <1>1, <1>3, <1>4, <1>5
<1>7. /\ Table(masks)
      /\ \A i \in DOMAIN masks :
           \E row, box : /\ RowTyped(row) /\ IntBox(box)
                         /\ masks[i] = [box |-> row.box, score |-> row.score, class |-> row.class,
                                        mask |-> row.mask, maskBox |-> box]
  BY <1>3, <1>5, <1>6 DEF Table
<1> QED BY <1>7 DEF masks

\* A seat that was located has all its regions at some place.
LEMMA PlacesFound ==
  ASSUME NEW b, \A l \in DOMAIN b.frames : Sized(b.frames[l]),
         NEW templates, TemplatePlaced(templates),
         NEW r, Listed(r.roi.classes), r.roi.inputWidth \in Nat, r.roi.inputHeight \in Nat,
         NEW s, OutputTyped(s.roiOutput[b.camera]),
         Locate(b, templates, r, s).kind = "ok"
  PROVE  \A name \in DOMAIN Locate(b, templates, r, s).rois :
           Placed(Locate(b, templates, r, s).rois[name])
<1> DEFINE roi == r.roi
           dome == b.frames[DomeLight(r)]
           t == Letterbox(dome, roi)
           output == s.roiOutput[b.camera]
           rows == IF roi.backend = "fake_yolo" THEN FakeRows(templates, roi)
                   ELSE DecodeRows(output, roi.minConfidence, roi.decode)
           masks == DecodeMasks(output, roi.minConfidence, roi.decode)
           rowReadings == [i \in DOMAIN rows |-> RowReading(rows[i], dome, templates, roi)]
           maskReadings == [i \in DOMAIN masks |->
                              MaskReading(MapCandidate(masks[i], t, dome, roi),
                                          dome, templates, roi)]
           detected == Located(rowReadings, templates, roi, TRUE)
           segmented == Located(maskReadings, templates, roi, FALSE)
           found == Locate(b, templates, r, s)
<1>1. /\ DomeLight(r) \in DOMAIN b.frames /\ Sized(dome)
      /\ \/ found.rois = Templates(templates)
         \/ masks # Absent /\ segmented # Absent /\ found.rois = segmented
         \/ rows # Absent /\ detected # Absent /\ found.rois = detected
  <2> DEFINE answer(x) == IF x = Absent THEN [kind |-> "recheck"] ELSE [kind |-> "ok", rois |-> x]
             model == roi.backend \in {"onnx_yolo", "onnx_yolo_seg"}
             T == Templates(templates)
  <2>1. found =
          CASE DomeLight(r) \notin DOMAIN b.frames -> [kind |-> "recheck"]
            [] DomeLight(r) \in DOMAIN b.frames /\ roi.backend = "template" -> answer(T)
            [] DomeLight(r) \in DOMAIN b.frames /\ model /\ ~s.roiModel -> [kind |-> "asset"]
            [] DomeLight(r) \in DOMAIN b.frames /\ roi.backend = "onnx_yolo_seg" /\ s.roiModel ->
                 IF masks = Absent THEN [kind |-> "error"] ELSE answer(segmented)
            [] OTHER -> IF rows = Absent THEN [kind |-> "error"] ELSE answer(detected)
    BY DEF Locate
  <2>2. found.kind = "ok"
    OBVIOUS
  <2> HIDE DEF found, T, masks, rows, segmented, detected, model
  <2>3. /\ DomeLight(r) \in DOMAIN b.frames
        /\ \/ found = answer(T)
           \/ masks # Absent /\ found = answer(segmented)
           \/ rows # Absent /\ found = answer(detected)
    BY <2>1, <2>2
  <2>4. \A x : answer(x).kind = "ok" => x # Absent /\ answer(x).rois = x
    OBVIOUS
  <2> HIDE DEF answer
  <2> QED BY <2>2, <2>3, <2>4 DEF T
<1>2. CASE found.rois = Templates(templates)
  <2>1. \A name \in DOMAIN templates : Placed(Templates(templates)[name])
    BY DEF Templates, TemplatePlaced, Placed
  <2>2. DOMAIN Templates(templates) = DOMAIN templates
    BY DEF Templates
  <2> QED BY <1>2, <2>1, <2>2
<1>3. CASE masks # Absent /\ segmented # Absent /\ found.rois = segmented
  <2>1. /\ Table(masks)
        /\ \A i \in DOMAIN masks :
             \E row, box : /\ RowTyped(row) /\ IntBox(box)
                           /\ masks[i] = [box |-> row.box, score |-> row.score, class |-> row.class,
                                          mask |-> row.mask, maskBox |-> box]
    BY <1>3, MasksDecoded
  <2>2. Fitted(t)
    BY <1>1, LetterboxFitted
  <2> HIDE DEF masks, t, dome, roi
  <2>3. ASSUME NEW i \in DOMAIN maskReadings, maskReadings[i] # Absent
        PROVE  Comparable(maskReadings[i])
    <3>1. i \in DOMAIN masks
      OBVIOUS
    <3>2. maskReadings[i] = MaskReading(MapCandidate(masks[i], t, dome, roi), dome, templates, roi)
      BY <3>1
    <3>3. PICK row, box : /\ RowTyped(row) /\ IntBox(box)
                          /\ masks[i] = [box |-> row.box, score |-> row.score, class |-> row.class,
                                         mask |-> row.mask, maskBox |-> box]
      BY <2>1, <3>1
    <3>4. IntBox(row.box) /\ MaskTyped(row.mask)
      BY <3>3 DEF RowTyped, MaskTyped
    <3> HIDE DEF maskReadings
    <3>5. MaskReading(MapCandidate(masks[i], t, dome, roi), dome, templates, roi) # Absent
      BY <2>3, <3>2
    <3> QED BY <1>1, <2>2, <3>2, <3>3, <3>4, <3>5, MasksRead
  <2>4. IsFiniteSet(DOMAIN maskReadings) /\ DOMAIN maskReadings \in SUBSET Int
    BY <2>1 DEF Table
  <2> HIDE DEF maskReadings
  <2>5. \A name \in DOMAIN segmented : Placed(segmented[name])
    BY <1>3, <2>3, <2>4, LocatedIsReading DEF Comparable
  <2> QED BY <1>3, <2>5
<1>4. CASE rows # Absent /\ detected # Absent /\ found.rois = detected
  <2>1. Table(rows) /\ \A i \in DOMAIN rows : IntBox(rows[i].box)
    BY <1>4, RowsDecoded, FakeTable
  <2> HIDE DEF rows, dome, roi
  <2>3. ASSUME NEW i \in DOMAIN rowReadings, rowReadings[i] # Absent
        PROVE  Comparable(rowReadings[i])
    <3>1. i \in DOMAIN rows
      OBVIOUS
    <3>2. rowReadings[i] = RowReading(rows[i], dome, templates, roi)
      BY <3>1
    <3> HIDE DEF rowReadings
    <3> QED BY <1>1, <2>1, <2>3, <3>1, <3>2, RowsRead
  <2>4. IsFiniteSet(DOMAIN rowReadings) /\ DOMAIN rowReadings \in SUBSET Int
    BY <2>1 DEF Table
  <2> HIDE DEF rowReadings
  <2>5. \A name \in DOMAIN detected : Placed(detected[name])
    BY <1>4, <2>3, <2>4, LocatedIsReading DEF Comparable
  <2> QED BY <1>4, <2>5
<1> QED BY <1>1, <1>2, <1>3, <1>4

-----------------------------------------------------------------------------
(***************************************************************************)
(* What the models are shown.                                              *)
(***************************************************************************)

\* A cut-out has a place in its image and is at least a pixel wide and high.
CutOut(f) ==
  /\ {"width", "height", "offset", "box"} \subseteq DOMAIN f /\ Upright(f.box)
  /\ f.width \in Int /\ f.width >= 1 /\ f.height \in Int /\ f.height >= 1

\* A crop has the size of its region's box and keeps the displacement.
LEMMA CropCutOut ==
  ASSUME NEW f, NEW region, CanCrop(f, region), Placed(region)
  PROVE  /\ CutOut(Crop(f, region)) /\ Crop(f, region).box = Box(region.polygon)
         /\ Crop(f, region).offset = f.offset
<1> DEFINE x == Crop(f, region)
<1>1. /\ x.width = region.size[1] /\ x.height = region.size[2] /\ x.box = Box(region.polygon)
      /\ x.offset = f.offset /\ {"width", "height", "offset", "box"} \subseteq DOMAIN x
  BY DEF Crop
<1> HIDE DEF x
<1>2. Upright(Box(region.polygon))
  BY BoxOfShape DEF Placed
<1>3. CutOut(x) /\ x.box = Box(region.polygon) /\ x.offset = f.offset
  BY <1>1, <1>2, CropSized DEF CutOut
<1> QED BY <1>3 DEF x

\* Moving a crop takes the shift off its displacement and keeps its size.
LEMMA TranslatedCutOut ==
  ASSUME NEW f, CutOut(f), NEW shift
  PROVE  /\ CutOut(Translate(f, shift))
         /\ Translate(f, shift).offset = <<f.offset[1] - shift[1], f.offset[2] - shift[2]>>
<1> DEFINE x == Translate(f, shift)
<1>1. /\ DOMAIN x = DOMAIN f /\ x.width = f.width /\ x.height = f.height /\ x.box = f.box
      /\ x.offset = <<f.offset[1] - shift[1], f.offset[2] - shift[2]>>
  BY DEF Translate, CutOut
<1> HIDE DEF x
<1>2. CutOut(x)
  BY <1>1 DEF CutOut
<1> QED BY <1>1, <1>2 DEF x

\* Registration moves cut-outs, or leaves them as they are.
LEMMA ReportedFrames ==
  ASSUME NEW frames, \A l \in DOMAIN frames : CutOut(frames[l]),
         NEW base, NEW lights, NEW r, NEW s
  PROVE  \A l \in DOMAIN frames : CutOut(EccReport(frames, base, lights, r, s).frames[l])
<1> DEFINE moving == (ToSet(lights) \cap DOMAIN frames) \ {base}
           found == [l \in moving |-> Align(frames[base], frames[l], r.registration, s)]
           moved == [l \in DOMAIN frames |-> IF l \in moving THEN Translate(frames[l], found[l].shift)
                                             ELSE frames[l]]
           report == EccReport(frames, base, lights, r, s)
<1>1. report.frames = frames \/ report.frames = moved
  BY DEF EccReport
<1> HIDE DEF report, moving, found
<1>2. \A l \in DOMAIN frames : CutOut(moved[l])
  BY TranslatedCutOut
<1> HIDE DEF moved
<1>3. \A l \in DOMAIN frames : CutOut(report.frames[l])
  BY <1>1, <1>2
<1> QED BY <1>3 DEF report

\* The frames of a cube are moved crops of the bundle's, of lights it has.
LEMMA CubeShown ==
  ASSUME NEW bundle, NEW name, NEW r, NEW s,
         DOMAIN bundle.rois[name] # {},
         \A l \in DOMAIN bundle.rois[name] : CutOut(bundle.rois[name][l])
  PROVE  LET cube == Cube(bundle, name, r, s)
         IN  /\ DOMAIN cube.frames \subseteq DOMAIN bundle.rois[name]
             /\ \A l \in DOMAIN cube.frames : CutOut(cube.frames[l])
             /\ Upright(cube.box)
<1> DEFINE c == CameraRecipe(r, bundle.view)
           frames == bundle.rois[name]
           base == IF c.base \in DOMAIN frames THEN c.base ELSE r.registration.fallback
           ecc == EccReport(frames, base, c.lightOrder, r, s)
           fixed == FixedReport(frames, base, c.lightOrder, bundle.calibration, r.quality)
           report == IF r.registration.method = "ecc" THEN ecc ELSE fixed
           lights == ToSet(c.lightOrder) \cap DOMAIN frames
           shown == IF base \in DOMAIN frames THEN base ELSE CHOOSE l \in DOMAIN frames : TRUE
           cube == Cube(bundle, name, r, s)
<1>1. cube = [view |-> bundle.view, roi |-> name, base |-> base,
              frames |-> [l \in lights |-> report.frames[l]],
              box |-> frames[shown].box, pass |-> report.pass]
  BY DEF Cube
<1>2. shown \in DOMAIN frames
  OBVIOUS
<1>3. (\A l \in DOMAIN frames : CutOut(ecc.frames[l])) /\ fixed.frames = frames
  <2>1. \A l \in DOMAIN frames : CutOut(frames[l])
    OBVIOUS
  <2> HIDE DEF frames, base, c
  <2>2. \A l \in DOMAIN frames : CutOut(ecc.frames[l])
    BY <2>1, ReportedFrames
  <2>3. fixed.frames = frames
    BY DEF FixedReport
  <2> QED BY <2>2, <2>3
<1>4. lights \subseteq DOMAIN frames
  OBVIOUS
<1> HIDE DEF cube, ecc, fixed, frames, lights, shown
<1>5. \A l \in DOMAIN frames : CutOut(report.frames[l])
  BY <1>3 DEF frames
<1> HIDE DEF report
<1>6. /\ DOMAIN cube.frames = lights /\ \A l \in lights : cube.frames[l] = report.frames[l]
      /\ cube.box = frames[shown].box
  BY <1>1
<1>7. CutOut(frames[shown])
  BY <1>2 DEF frames
<1>8. /\ DOMAIN cube.frames \subseteq DOMAIN frames
      /\ \A l \in DOMAIN cube.frames : CutOut(cube.frames[l])
      /\ Upright(cube.box)
  BY <1>4, <1>5, <1>6, <1>7 DEF CutOut
<1> QED BY <1>8 DEF cube, frames

\* The images behind the gate have a size.
LEMMA FramesSized ==
  ASSUME GatePasses(job, recipe), JobTyped(job, site), NEW i \in DOMAIN job.bundles
  PROVE  \A l \in DOMAIN job.bundles[i].frames :
           Sized(job.bundles[i].frames[l]) /\ IntPair(job.bundles[i].frames[l].offset)
<1> DEFINE b == job.bundles[i]
<1> SUFFICES ASSUME NEW l \in DOMAIN b.frames
             PROVE  Sized(b.frames[l]) /\ IntPair(b.frames[l].offset)
  OBVIOUS
<1>1. FrameOK(b.frames[l], recipe.quality)
  BY DEF GatePasses, BundleOK
<1>2. b.frames[l].width > 0 /\ b.frames[l].height > 0
  BY <1>1 DEF FrameOK, FrameMetaOK
<1>3. /\ IntPair(b.frames[l].offset) /\ b.frames[l].width \in Int /\ b.frames[l].height \in Int
  BY DEF JobTyped
<1> QED BY <1>2, <1>3 DEF Sized

\* Without the image under the dome light no region is located.
LEMMA DomeSeen ==
  ASSUME NEW b, NEW templates, NEW r, NEW s, DomeLight(r) \notin DOMAIN b.frames
  PROVE  Locate(b, templates, r, s).kind # "ok"
BY DEF Locate

\* What was cut out of a bundle's images.
LEMMA RegionsCutOut ==
  ASSUME AllMade, Typed, NEW i \in DOMAIN job.bundles, NEW name \in DOMAIN prepared[i].rois
  PROVE  LET frames == job.bundles[i].frames
             cuts == prepared[i].rois[name]
         IN  /\ DOMAIN cuts = DOMAIN frames /\ DOMAIN frames # {}
             /\ \A l \in DOMAIN frames : CutOut(cuts[l]) /\ cuts[l].offset = frames[l].offset
<1> DEFINE b == job.bundles[i]
           c == CameraRecipe(recipe, ViewOf(b))
           templates == site.templates[c.template]
           located == Locate(b, templates, recipe, site)
           cuts == prepared[i].rois[name]
<1>1. /\ LoadCalibration(site, c) # Absent /\ located.kind = "ok"
      /\ DOMAIN located.rois = DOMAIN templates
      /\ \A l \in DOMAIN b.frames, n \in DOMAIN templates : CanCrop(b.frames[l], located.rois[n])
      /\ prepared[i].rois = [n \in DOMAIN templates |->
                               [l \in DOMAIN b.frames |-> Crop(b.frames[l], located.rois[n])]]
  BY BundlesPrepared DEF AllMade, Typed
<1>2. \A l \in DOMAIN b.frames : Sized(b.frames[l])
  BY FramesSized DEF AllMade, Typed
<1>3. TemplatePlaced(templates)
  <2>1. RegionsOK(templates) /\ \A n \in DOMAIN templates : RegionTyped(templates[n])
    BY <1>1, CalibrationLoaded DEF Typed
  <2> QED BY <2>1, TemplatePlaces
<1>4. /\ Listed(recipe.roi.classes) /\ recipe.roi.inputWidth \in Nat
      /\ recipe.roi.inputHeight \in Nat
  BY LoadedChecked DEF AllMade, Typed, DocumentTyped
<1>5. OutputTyped(site.roiOutput[b.camera])
  BY DEF Typed, SiteTyped, JobTyped, OutputTyped
<1>6. name \in DOMAIN templates /\ cuts = [l \in DOMAIN b.frames |-> Crop(b.frames[l], located.rois[name])]
  BY <1>1
<1>7. DomeLight(recipe) \in DOMAIN b.frames
  <2> SUFFICES ASSUME DomeLight(recipe) \notin DOMAIN b.frames PROVE located.kind # "ok"
    BY <1>1
  <2> HIDE DEF templates, b
  <2> QED BY DomeSeen
<1>8. Placed(located.rois[name])
  BY <1>1, <1>2, <1>3, <1>4, <1>5, <1>6, PlacesFound
<1> HIDE DEF located, templates, b, cuts
<1>9. \A l \in DOMAIN b.frames : CutOut(cuts[l]) /\ cuts[l].offset = b.frames[l].offset
  <2>1. \A l \in DOMAIN b.frames : CanCrop(b.frames[l], located.rois[name])
    BY <1>1, <1>6
  <2>2. \A l \in DOMAIN b.frames : cuts[l] = Crop(b.frames[l], located.rois[name])
    BY <1>6
  <2> QED BY <1>8, <2>1, <2>2, CropCutOut
<1>10. DOMAIN cuts = DOMAIN b.frames
  BY <1>6
<1> QED BY <1>7, <1>9, <1>10 DEF b, cuts

\* A view is photographed in one bundle, and a region of it is one cube.
LEMMA OneBundle ==
  ASSUME GatePasses(job, recipe), NEW i \in DOMAIN job.bundles, NEW j \in DOMAIN job.bundles,
         ViewOf(job.bundles[i]) = ViewOf(job.bundles[j])
  PROVE  i = j
BY DEF GatePasses

\* Every cube is registered from crops of one of the job's bundles.
LEMMA CubesShown ==
  ASSUME AllMade, Typed, NEW j \in DOMAIN cubes
  PROVE  \E i \in DOMAIN job.bundles : \E name \in DOMAIN prepared[i].rois :
           /\ cubes[j] = Cube(prepared[i], name, recipe, site)
           /\ cubes[j].view = ViewOf(job.bundles[i]) /\ cubes[j].roi = name
           /\ DOMAIN cubes[j].frames \subseteq DOMAIN job.bundles[i].frames
           /\ \A l \in DOMAIN cubes[j].frames : CutOut(cubes[j].frames[l])
           /\ Upright(cubes[j].box)
<1>1. PICK i \in DOMAIN job.bundles : \E name \in DOMAIN prepared[i].rois :
        cubes[j] = Cube(prepared[i], name, recipe, site)
  BY CubesMeanRegions DEF AllMade
<1>2. PICK name \in DOMAIN prepared[i].rois : cubes[j] = Cube(prepared[i], name, recipe, site)
  BY <1>1
<1>3. prepared[i].view = ViewOf(job.bundles[i])
  BY BundlesPrepared DEF AllMade, Typed
<1>4. /\ DOMAIN prepared[i].rois[name] = DOMAIN job.bundles[i].frames
      /\ DOMAIN prepared[i].rois[name] # {}
      /\ \A l \in DOMAIN prepared[i].rois[name] : CutOut(prepared[i].rois[name][l])
  BY RegionsCutOut
<1>5. /\ DOMAIN cubes[j].frames \subseteq DOMAIN job.bundles[i].frames
      /\ \A l \in DOMAIN cubes[j].frames : CutOut(cubes[j].frames[l])
      /\ Upright(cubes[j].box)
  BY <1>2, <1>4, CubeShown
<1> QED BY <1>2, <1>3, <1>5, CubeNamed

\* A model is shown something, at a place.
GroupTyped(g) ==
  /\ Upright(g.box)
  /\ g.width \in Int /\ g.width >= 1 /\ g.height \in Int /\ g.height >= 1

\* Every feature group shows a cube, in lights of that cube's bundle.
LEMMA GroupsShown ==
  ASSUME AllMade, Typed, NEW k \in DOMAIN groups
  PROVE  \E j \in DOMAIN cubes : \E i \in DOMAIN job.bundles :
           /\ groups[k].view = cubes[j].view /\ groups[k].roi = cubes[j].roi
           /\ groups[k].box = cubes[j].box
           /\ groups[k].view = ViewOf(job.bundles[i])
           /\ groups[k].evidence \subseteq DOMAIN job.bundles[i].frames
           /\ GroupTyped(groups[k])
<1>1. PICK j \in DOMAIN cubes : \E m \in DOMAIN ModelKeys(recipe, cubes[j].view, cubes[j].roi) :
        groups[k] = FeatureGroup(cubes[j], ModelKeys(recipe, cubes[j].view, cubes[j].roi)[m], recipe)
  BY GroupsOfCubes, CubesMeanRegions DEF AllMade, Typed
<1> DEFINE keys == ModelKeys(recipe, cubes[j].view, cubes[j].roi)
<1>2. PICK m \in DOMAIN keys : groups[k] = FeatureGroup(cubes[j], keys[m], recipe)
  BY <1>1
<1>3. PICK i \in DOMAIN job.bundles :
        /\ cubes[j].view = ViewOf(job.bundles[i])
        /\ DOMAIN cubes[j].frames \subseteq DOMAIN job.bundles[i].frames
        /\ \A l \in DOMAIN cubes[j].frames : CutOut(cubes[j].frames[l])
        /\ Upright(cubes[j].box)
  BY CubesShown
<1> DEFINE channels == recipe.models[keys[m]].channels
           f == cubes[j].frames[CHOOSE l \in DOMAIN cubes[j].frames : TRUE]
<1>4. /\ DOMAIN cubes[j].frames # {}
      /\ \A channel \in ToSet(channels) : CanBuild(channel, cubes[j])
  <2> DEFINE all == UNION {ToSet(recipe.models[keys[n]].channels) : n \in DOMAIN keys}
  <2>1. DOMAIN cubes[j].frames # {} /\ \A channel \in all : CanBuild(channel, cubes[j])
    BY DEF AllMade, GroupsMade, FeatureGroups
  <2>2. ToSet(channels) \subseteq all
    OBVIOUS
  <2> QED BY <2>1, <2>2
<1>5. groups[k].evidence \subseteq DOMAIN cubes[j].frames
  <2>1. groups[k].evidence = UNION {SpecLights(ChannelSpec(channels[n])) : n \in DOMAIN channels}
    BY <1>2 DEF FeatureGroup
  <2>2. ASSUME NEW n \in DOMAIN channels
        PROVE  SpecLights(ChannelSpec(channels[n])) \subseteq DOMAIN cubes[j].frames
    <3>1. CanBuild(channels[n], cubes[j])
      BY <1>4 DEF ToSet
    <3> QED BY <3>1 DEF CanBuild
  <2> QED BY <2>1, <2>2
<1>6. CutOut(f)
  BY <1>3, <1>4
<1>7. groups[k].width = f.width /\ groups[k].height = f.height
  BY <1>2 DEF FeatureGroup
<1>8. /\ groups[k].view = cubes[j].view /\ groups[k].roi = cubes[j].roi
      /\ groups[k].box = cubes[j].box
  BY <1>2, GroupNamed
<1> HIDE DEF f, channels
<1>9. GroupTyped(groups[k])
  BY <1>3, <1>6, <1>7, <1>8 DEF GroupTyped, CutOut
<1> QED BY <1>3, <1>5, <1>8, <1>9

\* What the models of one region of one view are shown has one box.
LEMMA GroupsAgree ==
  ASSUME AllMade, Typed, NEW k \in DOMAIN groups, NEW n \in DOMAIN groups,
         groups[k].view = groups[n].view, groups[k].roi = groups[n].roi
  PROVE  groups[k].box = groups[n].box
<1>1. PICK j \in DOMAIN cubes : /\ groups[k].view = cubes[j].view /\ groups[k].roi = cubes[j].roi
                                /\ groups[k].box = cubes[j].box
  BY GroupsShown
<1>2. PICK q \in DOMAIN cubes : /\ groups[n].view = cubes[q].view /\ groups[n].roi = cubes[q].roi
                                /\ groups[n].box = cubes[q].box
  BY GroupsShown
<1>3. cubes[j] = cubes[q]
  <2>1. PICK i \in DOMAIN job.bundles : \E name \in DOMAIN prepared[i].rois :
          /\ cubes[j] = Cube(prepared[i], name, recipe, site)
          /\ cubes[j].view = ViewOf(job.bundles[i]) /\ cubes[j].roi = name
    BY CubesShown
  <2>2. PICK p \in DOMAIN job.bundles : \E name \in DOMAIN prepared[p].rois :
          /\ cubes[q] = Cube(prepared[p], name, recipe, site)
          /\ cubes[q].view = ViewOf(job.bundles[p]) /\ cubes[q].roi = name
    BY CubesShown
  <2>3. i = p
    BY <1>1, <1>2, <2>1, <2>2, OneBundle DEF AllMade
  <2>4. cubes[j].roi = cubes[q].roi
    BY <1>1, <1>2
  <2> QED BY <2>1, <2>2, <2>3, <2>4
<1> QED BY <1>1, <1>2, <1>3

-----------------------------------------------------------------------------
(***************************************************************************)
(* What the models find.                                                   *)
(***************************************************************************)

\* Something found in what a group shows, where the group shows it, to be judged
\* by a level.
Found(c, g, level) ==
  /\ {"view", "roi", "score", "box", "area", "evidence", "recheck"} \subseteq DOMAIN c
  /\ c.recheck = level
  /\ c.view = g.view /\ c.roi = g.roi /\ c.evidence = g.evidence
  /\ c.box \in Quads /\ Inside(c.box, g.box)

\* What a run answers that ends well.
Finds(answer, g, level) ==
  answer.kind = "ok" =>
    Listed(answer.candidates) /\ \A i \in DOMAIN answer.candidates : Found(answer.candidates[i], g, level)

\* A candidate with a box inside its group's is one of that group.
LEMMA CandidateFound ==
  ASSUME NEW g, NEW score, NEW b \in Quads, Inside(b, g.box), NEW thresholds
  PROVE  Found(Candidate(g, score, b, thresholds), g, thresholds.recheck)
BY DEF Found, Candidate

\* Lists of at most one candidate.
LEMMA FewListed ==
  /\ Listed(<<>>) /\ DOMAIN <<>> = {}
  /\ \A x : Listed(<<x>>) /\ DOMAIN <<x>> = {1} /\ <<x>>[1] = x
<1>1. ASSUME NEW x
      PROVE  Listed(<<x>>) /\ DOMAIN <<x>> = {1} /\ <<x>>[1] = x
  <2>1. x \in ToSet(<<x>>)
    <3>1. 1 \in DOMAIN <<x>> /\ <<x>>[1] = x
      OBVIOUS
    <3> QED BY <3>1 DEF ToSet
  <2>2. <<x>> \in Seq(ToSet(<<x>>))
    <3> DEFINE S == ToSet(<<x>>)
    <3>1. x \in S
      BY <2>1
    <3> HIDE DEF S
    <3>2. <<x>> \in Seq(S)
      BY <3>1
    <3> QED BY <3>2 DEF S
  <2>3. DOMAIN <<x>> = {1}
    OBVIOUS
  <2> QED BY <2>2, <2>3 DEF Listed
<1>2. Listed(<<>>) /\ DOMAIN <<>> = {}
  BY DEF Listed
<1> QED BY <1>1, <1>2

\* A function on 1 .. n is a list of its values.
LEMMA TableListed ==
  ASSUME NEW n \in Nat, NEW f, f = [i \in 1 .. n |-> f[i]]
  PROVE  Listed(f)
<1> DEFINE S == ToSet(f)
<1>1. DOMAIN f = 1 .. n
  BY Zenon
<1>2. \A i \in 1 .. n : f[i] \in S
  BY <1>1 DEF ToSet
<1> HIDE DEF S
<1>3. f \in [1 .. n -> S]
  BY <1>2
<1>4. f \in Seq(S)
  BY <1>3, ListIsSeq
<1> QED BY <1>4 DEF S, Listed

\* The stand-in model reports the box of the region, or nothing.
LEMMA FakeFinds ==
  ASSUME NEW m, NEW g, GroupTyped(g), NEW answer
  PROVE  Finds(RunFake(m, g, answer), g, Absent)
<1> DEFINE x == Min({8, g.width}) - 1
           y == Min({8, g.height}) - 1
           b == ToSource(<<0, 0, x, y>>, 1, g)
           one(score) == <<Candidate(g, score, b, RecipeThresholds)>>
           run == RunFake(m, g, answer)
<1>1. x \in Int /\ y \in Int
  <2>1. \A v \in Int : Min({8, v}) \in Int
    <3>1. 8 \in Int
      OBVIOUS
    <3>2. \A v \in Int : Min({8, v}) = IF 8 <= v THEN 8 ELSE v
      BY <3>1, LesserOf
    <3> QED BY <3>2
  <2> QED BY <2>1 DEF GroupTyped
<1>2. b \in Quads /\ Inside(b, g.box)
  <2> DEFINE q == <<0, 0, x, y>>
  <2> HIDE DEF x, y
  <2>1. \A i \in 1 .. 4 : q[i] \in Int
    BY <1>1
  <2>2. 1 \in Int /\ 1 > 0
    OBVIOUS
  <2> HIDE DEF q
  <2>3. ToSource(q, 1, g) \in Quads /\ Inside(ToSource(q, 1, g), g.box)
    BY <2>1, <2>2, SourceInside DEF GroupTyped
  <2> QED BY <2>3 DEF q
<1> HIDE DEF x, y, b
<1>3. \A score : Found(Candidate(g, score, b, RecipeThresholds), g, Absent)
  BY <1>2, CandidateFound DEF RecipeThresholds
<1>4. run.candidates = <<>> \/ \E score : run.candidates = one(score)
  BY DEF RunFake, b, x, y
<1> HIDE DEF run
<1>5. Finds(run, g, Absent)
  <2>1. CASE run.candidates = <<>>
    BY <2>1, FewListed DEF Finds
  <2>2. CASE \E score : run.candidates = one(score)
    <3>1. PICK score : run.candidates = one(score)
      BY <2>2
    <3>2. PICK c : run.candidates = <<c>> /\ Found(c, g, Absent)
      BY <1>3, <3>1
    <3>3. Listed(run.candidates) /\ \A i \in DOMAIN run.candidates : Found(run.candidates[i], g, Absent)
      BY <3>2, FewListed
    <3> QED BY <3>3 DEF Finds
  <2> QED BY <1>4, <2>1, <2>2
<1> QED BY <1>5 DEF run

\* The detector's boxes are clipped to the region's.
LEMMA OnnxFinds ==
  ASSUME NEW m, NEW g, GroupTyped(g), NEW output, Listed(output.rows)
  PROVE  Finds(RunOnnx(m, g, output), g, Absent)
<1> DEFINE rows == DecodeRows(output, m.scoreThreshold, m.decode)
           kept == Confident(rows, m.scoreThreshold)
           run == RunOnnx(m, g, output)
           found(i) == Candidate(g, kept[i].score, DetectionBox(kept[i], m, g), RecipeThresholds)
<1> SUFFICES ASSUME run.kind = "ok"
             PROVE  /\ Listed(run.candidates)
                    /\ \A i \in DOMAIN run.candidates : Found(run.candidates[i], g, Absent)
  BY DEF Finds
<1>1. /\ rows # Absent /\ \A i \in DOMAIN kept : DetectionOK(kept[i], m, g)
      /\ run.candidates = [i \in DOMAIN kept |-> found(i)]
  <2> DEFINE sound == /\ \A i \in DOMAIN rows : "score" \notin rows[i].nan /\ Ratio(rows[i].score)
                      /\ \A i \in DOMAIN kept : DetectionOK(kept[i], m, g)
             made == [i \in DOMAIN kept |-> found(i)]
  <2>1. run = IF m.decode = "none" \/ rows = Absent \/ ~sound THEN [kind |-> "error"]
              ELSE [kind |-> "ok", candidates |-> made]
    BY DEF RunOnnx
  <2>2. run.kind = "ok"
    OBVIOUS
  <2> HIDE DEF run, made, rows, kept
  <2>3. rows # Absent /\ sound /\ run.candidates = made
    <3> HIDE DEF sound
    <3> QED BY <2>1, <2>2
  <2> QED BY <2>3 DEF made
<1>2. Table(kept)
  <2>1. Table(output.rows)
    BY ListedTable
  <2>2. rows \in {output.rows, Confident(output.rows, m.scoreThreshold)}
    BY <1>1 DEF DecodeRows
  <2>3. Table(rows)
    BY <2>1, <2>2, ConfidentTable
  <2> HIDE DEF rows
  <2> QED BY <2>3, ConfidentTable
<1> HIDE DEF kept, rows, run
<1>3. ASSUME NEW i \in DOMAIN kept
      PROVE  Found(found(i), g, Absent)
  <2> DEFINE row == kept[i]
             w == g.width - 1
             h == g.height - 1
             p == <<row.box[1] * w, row.box[2] * h, row.box[3] * w, row.box[4] * h>>
  <2>1. DetectionOK(row, m, g)
    BY <1>1
  <2> HIDE DEF row
  <2>2. w \in Int /\ h \in Int
    BY DEF GroupTyped
  <2>3. /\ row.box[1] \in Int /\ row.box[2] \in Int /\ row.box[3] \in Int /\ row.box[4] \in Int
    BY <2>1, <2>2 DEF DetectionOK, Ratio
  <2>4. \A n \in 1 .. 4 : row.box[n] \in Int
    BY <2>3
  <2>5. \A n \in 1 .. 4 : p[n] \in Int
    <3> HIDE DEF w, h
    <3>1. /\ row.box[1] * w \in Int /\ row.box[2] * h \in Int
          /\ row.box[3] * w \in Int /\ row.box[4] * h \in Int
      BY <2>2, <2>3
    <3> QED BY <3>1
  <2>6. DetectionBox(row, m, g) = IF m.bboxFormat = "xyxy_normalized" THEN ToSource(p, 10, g)
                                  ELSE ToSource(row.box, 1, g)
    BY DEF DetectionBox
  <2> HIDE DEF p
  <2>7. 1 \in Int /\ 1 > 0 /\ 10 \in Int /\ 10 > 0
    OBVIOUS
  <2>8. ToSource(p, 10, g) \in Quads /\ Inside(ToSource(p, 10, g), g.box)
    BY <2>5, <2>7, SourceInside DEF GroupTyped
  <2>9. ToSource(row.box, 1, g) \in Quads /\ Inside(ToSource(row.box, 1, g), g.box)
    BY <2>4, <2>7, SourceInside DEF GroupTyped
  <2>10. DetectionBox(row, m, g) \in Quads /\ Inside(DetectionBox(row, m, g), g.box)
    BY <2>6, <2>8, <2>9
  <2> QED BY <2>10, CandidateFound DEF row, RecipeThresholds
<1>4. Listed(run.candidates)
  <2>1. PICK n \in Nat : DOMAIN kept = 1 .. n
    BY <1>2 DEF Table
  <2> HIDE DEF found
  <2>2. run.candidates = [i \in 1 .. n |-> run.candidates[i]]
    BY <1>1, <2>1
  <2> QED BY <2>2, TableListed
<1> HIDE DEF found
<1> QED BY <1>1, <1>3, <1>4

\* A finite set of candidates, listed in some order.
LEMMA SetFinds ==
  ASSUME NEW g, NEW level, NEW S, IsFiniteSet(S), \A c \in S : Found(c, g, level)
  PROVE  /\ Listed(SetToSeq(S))
         /\ \A i \in DOMAIN SetToSeq(S) : Found(SetToSeq(S)[i], g, level)
<1> DEFINE n == Cardinality(S)
           f == SetToSeq(S)
<1>1. n \in Nat /\ f \in [1 .. n -> S]
  BY SetListed
<1> HIDE DEF n, f
<1>2. f = [i \in 1 .. n |-> f[i]] /\ DOMAIN f = 1 .. n /\ \A i \in 1 .. n : f[i] \in S
  BY <1>1
<1>3. Listed(f) /\ \A i \in DOMAIN f : Found(f[i], g, level)
  BY <1>1, <1>2, TableListed
<1> QED BY <1>3 DEF f

\* A grid of patches.
Grid(cells) ==
  /\ IsFiniteSet(cells) /\ cells # {}
  /\ \A c \in cells : IntPair(c) /\ c[1] > 0 /\ c[2] > 0

\* A grid of cells has a first and a last row and column, all positive.
LEMMA GridBounds ==
  ASSUME NEW cells, Grid(cells)
  PROVE  \A i \in {1, 2} : LET values == {c[i] : c \in cells}
                           IN  /\ Min(values) \in Int /\ Min(values) > 0
                               /\ Max(values) \in Int /\ Max(values) > 0
<1> SUFFICES ASSUME NEW i \in {1, 2}
             PROVE  LET values == {c[i] : c \in cells}
                    IN  /\ Min(values) \in Int /\ Min(values) > 0
                        /\ Max(values) \in Int /\ Max(values) > 0
  OBVIOUS
<1> DEFINE f == [c \in cells |-> c[i]]
           values == {c[i] : c \in cells}
<1>1. values = {f[c] : c \in DOMAIN f} /\ DOMAIN f = cells
  OBVIOUS
<1> HIDE DEF f
<1>2. IsFiniteSet(values)
  BY <1>1, ValuesFinite DEF Grid
<1>3. values \in SUBSET Int /\ values # {} /\ \A v \in values : v > 0
  BY DEF Grid, IntPair
<1> HIDE DEF values
<1>4. /\ Min(values) \in values /\ Max(values) \in values
  BY <1>2, <1>3, FiniteLeast
<1>5. /\ Min(values) \in Int /\ Min(values) > 0 /\ Max(values) \in Int /\ Max(values) > 0
  BY <1>3, <1>4
<1> QED BY <1>5 DEF values

\* The components of an anomaly map are finitely many boxes inside the region.
LEMMA AnomaliesInside ==
  ASSUME NEW map, Grid(DOMAIN map), NEW recheck, NEW m, NEW g, GroupTyped(g)
  PROVE  /\ IsFiniteSet(AnomalyBoxes(map, recheck, m, g))
         /\ \A x \in AnomalyBoxes(map, recheck, m, g) :
              x.box \in Quads /\ Inside(x.box, g.box)
<1> DEFINE peak == Max(Range(map))
           threshold == Max({recheck * m.minRatio, peak * m.relative})
           rows == Max({c[1] : c \in DOMAIN map})
           columns == Max({c[2] : c \in DOMAIN map})
           cells == {c \in DOMAIN map : 10 * map[c] >= threshold}
           parts == Components(cells)
           inRegion(C) == <<(Min({c[2] : c \in C}) - 1) * g.width * rows,
                            (Min({c[1] : c \in C}) - 1) * g.height * columns,
                            Max({c[2] : c \in C}) * g.width * rows,
                            Max({c[1] : c \in C}) * g.height * columns>>
           den == rows * columns
           box(C) == ToSource(inRegion(C), den, g)
           score(C) == Max({map[c] : c \in C})
           f == [C \in parts |-> [score |-> score(C), box |-> box(C)]]
<1>1. AnomalyBoxes(map, recheck, m, g) = {[score |-> score(C), box |-> box(C)] : C \in parts}
  BY DEF AnomalyBoxes
<1>2. cells \in SUBSET DOMAIN map
  OBVIOUS
<1> HIDE DEF cells
<1>3. /\ parts \in SUBSET SUBSET cells /\ {} \notin parts
  BY DEF Components
<1> HIDE DEF parts
<1>4. IsFiniteSet(parts)
  <2>1. IsFiniteSet(cells)
    BY <1>2, FS_Subset DEF Grid
  <2>2. IsFiniteSet(SUBSET cells)
    BY <2>1, FS_SUBSET
  <2> QED BY <1>3, <2>2, FS_Subset
<1>5. rows \in Int /\ rows > 0 /\ columns \in Int /\ columns > 0
  BY GridBounds
<1>6. ASSUME NEW C \in parts
      PROVE  /\ Min({c[1] : c \in C}) \in Int /\ Max({c[1] : c \in C}) \in Int
             /\ Min({c[2] : c \in C}) \in Int /\ Max({c[2] : c \in C}) \in Int
  <2>1. C \in SUBSET DOMAIN map /\ C # {}
    BY <1>2, <1>3
  <2>2. Grid(C)
    BY <2>1, FS_Subset DEF Grid
  <2> QED BY <2>2, GridBounds
<1> HIDE DEF rows, columns, score
<1>7. ASSUME NEW C \in parts
      PROVE  box(C) \in Quads /\ Inside(box(C), g.box)
  <2>1. \A i \in 1 .. 4 : inRegion(C)[i] \in Int
    <3> DEFINE a == Min({c[2] : c \in C})
               b == Min({c[1] : c \in C})
               d == Max({c[2] : c \in C})
               e == Max({c[1] : c \in C})
               w == g.width
               h == g.height
    <3>1. a \in Int /\ b \in Int /\ d \in Int /\ e \in Int /\ w \in Int /\ h \in Int
      BY <1>6 DEF GroupTyped
    <3>2. inRegion(C) = <<(a - 1) * w * rows, (b - 1) * h * columns, d * w * rows, e * h * columns>>
      OBVIOUS
    <3> HIDE DEF a, b, d, e, w, h, inRegion
    <3>3. /\ (a - 1) * w * rows \in Int /\ (b - 1) * h * columns \in Int
          /\ d * w * rows \in Int /\ e * h * columns \in Int
      BY <1>5, <3>1
    <3> QED BY <3>2, <3>3
  <2>2. den \in Int /\ den > 0
    <3>1. \A x, y \in Int : x > 0 /\ y > 0 => x * y \in Int /\ x * y > 0
      OBVIOUS
    <3> QED BY <1>5, <3>1
  <2> HIDE DEF inRegion, den
  <2> QED BY <2>1, <2>2, SourceInside DEF GroupTyped
<1> HIDE DEF box
<1>8. /\ DOMAIN f = parts
      /\ {[score |-> score(C), box |-> box(C)] : C \in parts} = {f[C] : C \in DOMAIN f}
  OBVIOUS
<1> HIDE DEF f
<1>9. IsFiniteSet({f[C] : C \in DOMAIN f})
  BY <1>4, <1>8, ValuesFinite
<1> QED BY <1>1, <1>7, <1>8, <1>9

\* So the candidates of the patch model lie inside the region.
LEMMA PatchesFind ==
  ASSUME NEW m, NEW assets, NEW g, GroupTyped(g), NEW o, Grid(DOMAIN o.distances)
  PROVE  Finds(RunPatchCore(m, assets, g, o), g, assets.bank.thresholds.recheck)
<1> DEFINE problem == FirstFailure(AllConditions(m, assets))
           bank == assets.bank
           distances == Distances(o.distances, m, assets)
           finite == Absent \notin Range(distances)
           map == [cell \in DOMAIN distances |-> CalibratedScore(distances[cell], bank)]
           peak == Max(Range(map))
           boxes == AnomalyBoxes(map, bank.thresholds.recheck, m, g)
           spatial == {Candidate(g, x.score, x.box, bank.thresholds) : x \in boxes}
           globally == {Candidate(g, peak, g.box, bank.thresholds)}
           unsure == Candidate(g, Absent, g.box, bank.thresholds)
           level == bank.thresholds.recheck
           run == RunPatchCore(m, assets, g, o)
<1> SUFFICES ASSUME run.kind = "ok"
             PROVE  /\ Listed(run.candidates)
                    /\ \A i \in DOMAIN run.candidates : Found(run.candidates[i], g, level)
  BY DEF Finds
<1>1. \/ run.candidates = <<>> \/ run.candidates = <<unsure>>
      \/ run.candidates = SetToSeq(spatial) \/ run.candidates = SetToSeq(globally)
  <2> DEFINE some == IF peak < bank.thresholds.recheck THEN <<>>
                     ELSE SetToSeq(IF m.spatial THEN spatial ELSE globally)
  <2>1. run = CASE problem # "ok" -> [kind |-> problem]
                [] problem = "ok" /\ ~finite /\ m.spatial -> [kind |-> "error"]
                [] problem = "ok" /\ ~finite /\ ~m.spatial ->
                     [kind |-> "ok", candidates |-> <<unsure>>]
                [] OTHER -> [kind |-> "ok", candidates |-> some]
    BY DEF RunPatchCore
  <2>2. some \in {<<>>, SetToSeq(spatial), SetToSeq(globally)}
    OBVIOUS
  <2>3. run.kind = "ok"
    OBVIOUS
  <2> HIDE DEF run, problem, finite, unsure, some, spatial, globally
  <2>4. run.candidates \in {<<unsure>>, some}
    BY <2>1, <2>3
  <2> QED BY <2>2, <2>4
<1>2. DOMAIN map = DOMAIN o.distances
  BY DEF Distances, IndexedDistances
<1> HIDE DEF map, run, peak
<1>3. g.box \in Quads /\ Inside(g.box, g.box)
  BY DEF GroupTyped, Upright, Quads, Inside
<1>4. /\ IsFiniteSet(boxes) /\ \A x \in boxes : x.box \in Quads /\ Inside(x.box, g.box)
  BY <1>2, AnomaliesInside
<1> HIDE DEF boxes
<1>5. IsFiniteSet(spatial) /\ \A c \in spatial : Found(c, g, level)
  <2> DEFINE f == [x \in boxes |-> Candidate(g, x.score, x.box, bank.thresholds)]
  <2>1. DOMAIN f = boxes /\ spatial = {f[x] : x \in DOMAIN f}
    OBVIOUS
  <2> HIDE DEF f
  <2>2. IsFiniteSet(spatial)
    BY <1>4, <2>1, ValuesFinite
  <2>3. \A c \in spatial : Found(c, g, level)
    BY <1>4, CandidateFound
  <2> QED BY <2>2, <2>3
<1>6. Found(unsure, g, level) /\ IsFiniteSet(globally) /\ \A c \in globally : Found(c, g, level)
  <2>1. \A score : Found(Candidate(g, score, g.box, bank.thresholds), g, level)
    BY <1>3, CandidateFound
  <2>2. IsFiniteSet(globally)
    BY FS_Singleton
  <2> QED BY <2>1, <2>2
<1> HIDE DEF spatial, globally, unsure, level
<1>7. CASE run.candidates = <<unsure>>
  BY <1>6, <1>7, FewListed
<1>8. \A S \in {spatial, globally} : Listed(SetToSeq(S)) /\ \A i \in DOMAIN SetToSeq(S) :
                                      Found(SetToSeq(S)[i], g, level)
  BY <1>5, <1>6, SetFinds
<1> QED BY <1>1, <1>7, <1>8, FewListed

\* Conditions tried in turn, each with a complaint of its own.
Complaints(cs) == Listed(cs) /\ \A i \in DOMAIN cs : cs[i][2] \in {"asset", "error"}

Passed(cs) == \A i \in DOMAIN cs : cs[i][1]

\* One check is a list of checks.
LEMMA OneComplaint ==
  ASSUME NEW A, NEW x \in {"asset", "error"}
  PROVE  Complaints(<<<<A, x>>>>)
<1> DEFINE c == <<A, x>>
<1>1. c[2] = x
  OBVIOUS
<1> HIDE DEF c
<1>2. Listed(<<c>>) /\ DOMAIN <<c>> = {1} /\ <<c>>[1] = c
  BY FewListed
<1>3. Complaints(<<c>>)
  BY <1>1, <1>2 DEF Complaints
<1> QED BY <1>3 DEF c

\* A list of one check is passed if the check is.
LEMMA OnePassed ==
  ASSUME NEW c, Passed(<<c>>)
  PROVE  c[1]
<1>1. DOMAIN <<c>> = {1} /\ <<c>>[1] = c
  BY FewListed
<1> QED BY <1>1 DEF Passed

\* Two lists of checks are passed together if each is.
LEMMA MoreComplaints ==
  ASSUME NEW s, Complaints(s), NEW t, Complaints(t)
  PROVE  Complaints(s \o t) /\ (Passed(s \o t) => Passed(s) /\ Passed(t))
<1> DEFINE S == ToSet(s) \cup ToSet(t)
           u == s \o t
<1>1. s \in Seq(S) /\ t \in Seq(S)
  <2>1. s \in Seq(ToSet(s)) /\ t \in Seq(ToSet(t))
    BY DEF Complaints, Listed
  <2> QED BY <2>1
<1>2. ToSet(s) = {s[i] : i \in DOMAIN s} /\ ToSet(t) = {t[i] : i \in DOMAIN t}
  BY DEF ToSet
<1> HIDE DEF S
<1>3. /\ u \in Seq(S) /\ Len(u) = Len(s) + Len(t)
      /\ DOMAIN s = 1 .. Len(s) /\ DOMAIN t = 1 .. Len(t) /\ DOMAIN u = 1 .. Len(u)
      /\ Len(s) \in Nat /\ Len(t) \in Nat
      /\ \A i \in 1 .. Len(u) : u[i] = IF i <= Len(s) THEN s[i] ELSE t[i - Len(s)]
  BY <1>1, LenProperties
<1> HIDE DEF u
<1>4. \A i \in DOMAIN s : i \in DOMAIN u /\ u[i] = s[i]
  BY <1>3
<1>5. \A i \in DOMAIN t : Len(s) + i \in DOMAIN u /\ u[Len(s) + i] = t[i]
  BY <1>3
<1>6. \A i \in DOMAIN u : (\E j \in DOMAIN s : u[i] = s[j]) \/ (\E j \in DOMAIN t : u[i] = t[j])
  <2> SUFFICES ASSUME NEW i \in DOMAIN u
               PROVE  (\E j \in DOMAIN s : u[i] = s[j]) \/ (\E j \in DOMAIN t : u[i] = t[j])
    OBVIOUS
  <2>1. CASE i <= Len(s)
    BY <1>3, <2>1
  <2>2. CASE ~(i <= Len(s))
    <3>1. i - Len(s) \in DOMAIN t
      BY <1>3, <2>2
    <3> QED BY <1>3, <2>2, <3>1
  <2> QED BY <2>1, <2>2
<1>7. Listed(u)
  <2>1. u = [i \in 1 .. Len(u) |-> u[i]] /\ Len(u) \in Nat
    BY <1>3
  <2> QED BY <2>1, TableListed
<1>8. Complaints(u)
  BY <1>6, <1>7 DEF Complaints
<1>9. Passed(u) => Passed(s) /\ Passed(t)
  BY <1>4, <1>5 DEF Passed
<1> QED BY <1>8, <1>9 DEF u

\* If no check is the first to fail, all are passed.
LEMMA NoComplaint ==
  ASSUME NEW cs, Complaints(cs), FirstFailure(cs) = "ok"
  PROVE  Passed(cs)
<1> DEFINE failed == {i \in DOMAIN cs : ~cs[i][1]}
<1>1. DOMAIN cs = 1 .. Len(cs) /\ Len(cs) \in Nat
  BY ListedTable DEF Complaints
<1>2. failed \in SUBSET (1 .. Len(cs)) /\ failed \in SUBSET Int
  BY <1>1
<1>3. IsFiniteSet(failed)
  <2>1. \A x, y \in Int : IsFiniteSet(x .. y)
    BY FS_Interval
  <2>2. IsFiniteSet(1 .. Len(cs))
    BY <1>1, <2>1
  <2> HIDE DEF failed
  <2> QED BY <1>2, <2>2, FS_Subset
<1>4. FirstFailure(cs) = IF failed = {} THEN "ok" ELSE cs[Min(failed)][2]
  BY DEF FirstFailure
<1>5. failed = {}
  <2> SUFFICES ASSUME failed # {} PROVE FALSE
    OBVIOUS
  <2>1. Min(failed) \in failed
    <3> HIDE DEF failed
    <3> QED BY <1>2, <1>3, FiniteLeast
  <2>2. Min(failed) \in DOMAIN cs
    BY <2>1
  <2> HIDE DEF failed
  <2> QED BY <1>4, <2>2 DEF Complaints
<1> QED BY <1>5 DEF Passed

\* A bank that passes all conditions has levels and is calibrated.
LEMMA BankUsable ==
  ASSUME NEW m, NEW assets, FirstFailure(AllConditions(m, assets)) = "ok"
  PROVE  LET bank == assets.bank
         IN  /\ bank # Absent /\ bank.mean # Absent /\ bank.p99 # Absent
             /\ Ratio(bank.thresholds.recheck) /\ Ratio(bank.thresholds.ng)
<1> DEFINE bank == assets.bank
           a == EmbeddingConditions(m, assets)
           b == PcaConditions(m, assets)
           c == BankConditions(bank)
           d == VectorConditions(bank)
           e == ThresholdOrder(bank)
           f == ScoreConditions(bank)
           h == ThresholdsThere(bank)
           there == bank # Absent
           A1 == m.embedding = "onnx_wideresnet50" => assets.network
           A2 == assets.dimensionFits
           B1 == m.pca => assets.pca # Absent
           B2 == m.pca /\ assets.pca # Absent => assets.pca.valid /\ assets.pca.versionFits
           C2 == there => bank.valid
           D1 == there => bank.vectors # Absent
           D2 == there /\ bank.vectors # Absent => bank.vectors.sound
           E1 == there /\ bank.thresholds # Absent =>
                   /\ Ratio(bank.thresholds.recheck) /\ Ratio(bank.thresholds.ng)
                   /\ bank.thresholds.recheck <= bank.thresholds.ng
           F1 == there => bank.fits /\ bank.mean # Absent /\ bank.p99 # Absent
           H1 == there => bank.thresholds # Absent
           one(A, x) == <<<<A, x>>>>
<1>1. /\ a = one(A1, "asset") \o one(A2, "error") /\ b = one(B1, "asset") \o one(B2, "error")
      /\ c = one(there, "asset") \o one(C2, "error") /\ d = one(D1, "asset") \o one(D2, "error")
      /\ e = one(E1, "error") /\ f = one(F1, "error") /\ h = one(H1, "asset")
  <2>1. a = one(A1, "asset") \o one(A2, "error")
    BY DEF EmbeddingConditions, SessionConditions
  <2>2. b = one(B1, "asset") \o one(B2, "error")
    BY DEF PcaConditions
  <2>3. c = one(there, "asset") \o one(C2, "error")
    BY DEF BankConditions
  <2>4. d = one(D1, "asset") \o one(D2, "error")
    BY DEF VectorConditions
  <2>5. e = one(E1, "error") /\ f = one(F1, "error") /\ h = one(H1, "asset")
    BY DEF ThresholdOrder, ScoreConditions, ThresholdsThere
  <2> QED BY <2>1, <2>2, <2>3, <2>4, <2>5
<1>2. AllConditions(m, assets) = (((((a \o b) \o c) \o d) \o e) \o f) \o h
  BY DEF AllConditions
<1> HIDE DEF a, b, c, d, e, f, h, A1, A2, B1, B2, C2, D1, D2, E1, F1, H1, there
<1>3. /\ Complaints(one(A1, "asset")) /\ Complaints(one(A2, "error"))
      /\ Complaints(one(B1, "asset")) /\ Complaints(one(B2, "error"))
      /\ Complaints(one(C2, "error")) /\ Complaints(one(D1, "asset")) /\ Complaints(one(D2, "error"))
  BY OneComplaint
<1>4. /\ Complaints(one(there, "asset")) /\ (Passed(one(there, "asset")) => there)
      /\ Complaints(one(E1, "error")) /\ (Passed(one(E1, "error")) => E1)
      /\ Complaints(one(F1, "error")) /\ (Passed(one(F1, "error")) => F1)
      /\ Complaints(one(H1, "asset")) /\ (Passed(one(H1, "asset")) => H1)
  <2>1. /\ Complaints(one(there, "asset")) /\ Complaints(one(E1, "error"))
        /\ Complaints(one(F1, "error")) /\ Complaints(one(H1, "asset"))
    BY OneComplaint
  <2>2. Passed(one(there, "asset")) => there
    <3> DEFINE z == <<there, "asset">>
    <3>1. z[1] = there
      OBVIOUS
    <3> HIDE DEF z
    <3>2. Passed(<<z>>) => z[1]
      BY OnePassed
    <3>3. Passed(<<z>>) => there
      BY <3>1, <3>2
    <3> QED BY <3>3 DEF z
  <2>3. Passed(one(E1, "error")) => E1
    <3> DEFINE z == <<E1, "error">>
    <3>1. z[1] = E1
      OBVIOUS
    <3> HIDE DEF z
    <3>2. Passed(<<z>>) => z[1]
      BY OnePassed
    <3>3. Passed(<<z>>) => E1
      BY <3>1, <3>2
    <3> QED BY <3>3 DEF z
  <2>4. Passed(one(F1, "error")) => F1
    <3> DEFINE z == <<F1, "error">>
    <3>1. z[1] = F1
      OBVIOUS
    <3> HIDE DEF z
    <3>2. Passed(<<z>>) => z[1]
      BY OnePassed
    <3>3. Passed(<<z>>) => F1
      BY <3>1, <3>2
    <3> QED BY <3>3 DEF z
  <2>5. Passed(one(H1, "asset")) => H1
    <3> DEFINE z == <<H1, "asset">>
    <3>1. z[1] = H1
      OBVIOUS
    <3> HIDE DEF z
    <3>2. Passed(<<z>>) => z[1]
      BY OnePassed
    <3>3. Passed(<<z>>) => H1
      BY <3>1, <3>2
    <3> QED BY <3>3 DEF z
  <2> QED BY <2>1, <2>2, <2>3, <2>4, <2>5
<1> HIDE DEF one
<1>5. /\ Complaints(a) /\ Complaints(b) /\ Complaints(c) /\ Complaints(d)
      /\ (Passed(c) => there)
  BY <1>1, <1>3, <1>4, MoreComplaints
<1>6. /\ Complaints(e) /\ (Passed(e) => E1) /\ Complaints(f) /\ (Passed(f) => F1)
      /\ Complaints(h) /\ (Passed(h) => H1)
  BY <1>1, <1>4
<1> DEFINE ab == a \o b
           abc == ab \o c
           abcd == abc \o d
           abcde == abcd \o e
           most == abcde \o f
           all == most \o h
<1>7. /\ Complaints(ab)
  BY <1>5, MoreComplaints
<1> HIDE DEF ab
<1>8. Complaints(abc) /\ (Passed(abc) => there)
  BY <1>5, <1>7, MoreComplaints
<1> HIDE DEF abc
<1>9. Complaints(abcd) /\ (Passed(abcd) => there)
  BY <1>5, <1>8, MoreComplaints
<1> HIDE DEF abcd
<1>10. Complaints(abcde) /\ (Passed(abcde) => there /\ E1)
  BY <1>6, <1>9, MoreComplaints
<1> HIDE DEF abcde
<1>11. Complaints(most) /\ (Passed(most) => there /\ E1 /\ F1)
  BY <1>6, <1>10, MoreComplaints
<1> HIDE DEF most
<1>12. Complaints(all) /\ (Passed(all) => there /\ E1 /\ F1 /\ H1)
  BY <1>6, <1>11, MoreComplaints
<1>13. FirstFailure(all) = "ok"
  BY <1>2 DEF all, most, abcde, abcd, abc, ab
<1> HIDE DEF all
<1>14. there /\ E1 /\ F1 /\ H1
  BY <1>12, <1>13, NoComplaint
<1> QED BY <1>14 DEF there, E1, F1, H1

\* Every group is for a model of the recipe, and the recipe was checked.
LEMMA GroupsKeyed ==
  ASSUME RecipeLoaded, PreparedMade, CubesMade, GroupsMade, Typed
  PROVE  /\ \E S : groups \in Seq(S)
         /\ \A k \in DOMAIN groups : /\ groups[k].key \in DOMAIN recipe.models
                                     /\ ModelChecks(recipe.models[groups[k].key])
<1>1. \E S : groups \in Seq(S)
  BY GroupsOfCubes, CubesMeanRegions DEF Typed
<1>2. ASSUME NEW k \in DOMAIN groups
      PROVE  groups[k].key \in DOMAIN recipe.models
  <2> DEFINE key == groups[k].key
  <2>1. PICK j \in DOMAIN cubes : \E n \in DOMAIN ModelKeys(recipe, cubes[j].view, cubes[j].roi) :
          groups[k] = FeatureGroup(cubes[j], ModelKeys(recipe, cubes[j].view, cubes[j].roi)[n], recipe)
    BY GroupsOfCubes, CubesMeanRegions DEF Typed
  <2> DEFINE keys == ModelKeys(recipe, cubes[j].view, cubes[j].roi)
  <2>2. PICK n \in DOMAIN keys : groups[k] = FeatureGroup(cubes[j], keys[n], recipe)
    BY <2>1
  <2>3. keys \in Seq(DOMAIN recipe.models)
    BY CubesMeanRegions, KeysKnown DEF Typed
  <2> HIDE DEF keys
  <2>4. keys[n] \in DOMAIN recipe.models
    <3>1. DOMAIN keys = 1 .. Len(keys)
      BY <2>3, LenProperties
    <3> QED BY <2>3, <3>1
  <2>5. key = keys[n]
    BY <2>2, GroupNamed
  <2> QED BY <2>4, <2>5
<1>3. Accepted(document) /\ recipe.models = Models(document)
  BY LoadedChecked DEF RecipeLoaded
<1>4. \A key \in DOMAIN recipe.models : ModelChecks(recipe.models[key])
  BY <1>3 DEF Accepted
<1> QED BY <1>1, <1>2, <1>4

\* Each group was shown to a model of the recipe, and the model answered something
\* of its type.
LEMMA AnsweredTyped ==
  ASSUME AllMade, Typed, NEW k \in DOMAIN groups
  PROVE  /\ groups[k].key \in DOMAIN recipe.models
         /\ ModelChecks(recipe.models[groups[k].key])
         /\ AnswerTyped(observed[k], recipe.models[groups[k].key])
<1> DEFINE key == groups[k].key
<1>1. key \in DOMAIN recipe.models
  BY GroupsKeyed DEF AllMade
<1>2. Accepted(document) /\ recipe.models = Models(document)
  BY LoadedChecked DEF AllMade, RecipeLoaded
<1>3. ModelChecks(recipe.models[key])
  BY GroupsKeyed DEF AllMade
<1>4. observed[k] \in Observations(recipe.models[key])
  <2> DEFINE keys == {groups[i].key : i \in DOMAIN groups}
             possible == UNION {Observations(recipe.models[q]) : q \in keys}
             sensible(f) == \A q \in keys : f[q] \in Observations(recipe.models[q])
  <2>1. observed \in {[i \in DOMAIN groups |-> f[groups[i].key]] :
                        f \in {g \in [keys -> possible] : sensible(g)}}
    BY DEF AllMade, CandidatesMade, Answers
  <2>2. PICK f : sensible(f) /\ observed = [i \in DOMAIN groups |-> f[groups[i].key]]
    BY <2>1
  <2>3. key \in keys /\ observed[k] = f[key]
    BY <2>2
  <2> QED BY <2>2, <2>3
<1>5. AnswerTyped(observed[k], recipe.models[key])
  BY <1>1, <1>2, <1>4 DEF Typed, DocumentTyped
<1> QED BY <1>1, <1>3, <1>5

\* What the model of a group answers, and the level its findings carry.
Answer(k) == RunModel(groups[k], recipe, site, observed[k])

Carried(k) ==
  IF recipe.models[groups[k].key].backend = "patchcore_knn"
  THEN site.assets[groups[k].key].bank.thresholds.recheck
  ELSE Absent

\* Whatever its backend, a model's candidates lie inside the region it was shown.
LEMMA ModelFinds ==
  ASSUME AllMade, Typed, NEW k \in DOMAIN groups
  PROVE  Finds(Answer(k), groups[k], Carried(k))
<1> DEFINE g == groups[k]
           m == recipe.models[g.key]
           assets == site.assets[g.key]
           o == observed[k]
           run == RunModel(g, recipe, site, o)
           level == Carried(k)
<1>1. m.backend \in {"fake", "onnx", "patchcore_knn"} /\ AnswerTyped(o, m)
  BY AnsweredTyped DEF ModelChecks
<1>2. GroupTyped(g)
  BY GroupsShown
<1>3. run = CASE m.backend = "fake" -> RunFake(m, g, o)
              [] m.backend = "onnx" -> IF assets.network THEN RunOnnx(m, g, o)
                                       ELSE [kind |-> "asset"]
              [] m.backend = "patchcore_knn" -> RunPatchCore(m, assets, g, o)
  BY DEF RunModel
<1>0. level = IF m.backend = "patchcore_knn" THEN assets.bank.thresholds.recheck ELSE Absent
  BY DEF Carried
<1>7. run = Answer(k)
  BY DEF Answer
<1> HIDE DEF run, m, g, o, assets, level
<1>4. CASE m.backend = "fake"
  <2>1. Finds(run, g, level)
    BY <1>0, <1>2, <1>3, <1>4, FakeFinds
  <2> QED BY <1>7, <2>1 DEF g, level
<1>5. CASE m.backend = "onnx"
  <2>1. Listed(o.rows)
    BY <1>1, <1>5 DEF AnswerTyped
  <2>2. Finds([kind |-> "asset"], g, level)
    BY DEF Finds
  <2>3. Finds(run, g, level)
    BY <1>0, <1>2, <1>3, <1>5, <2>1, <2>2, OnnxFinds
  <2> QED BY <1>7, <2>3 DEF g, level
<1>6. CASE m.backend = "patchcore_knn"
  <2>1. Grid(DOMAIN o.distances)
    BY <1>1, <1>6 DEF AnswerTyped, Grid
  <2>2. Finds(run, g, level)
    BY <1>0, <1>2, <1>3, <1>6, <2>1, PatchesFind
  <2> QED BY <1>7, <2>2 DEF g, level
<1> QED BY <1>1, <1>4, <1>5, <1>6

\* The level is a number.
LEMMA LevelsKnown ==
  ASSUME AllMade, Typed, NEW k \in DOMAIN groups, Answer(k).kind = "ok"
  PROVE  /\ RecheckLevel(k) = Given(Carried(k), recipe.threshold.recheck)
         /\ RecheckLevel(k) \in 0 .. 10
<1> DEFINE m == recipe.models[groups[k].key]
           bank == site.assets[groups[k].key].bank
<1>1. CASE m.backend # "patchcore_knn"
  <2>1. recipe.threshold.recheck \in 0 .. 10
    BY DEF AllMade, RecipeLoaded, Accepted, ThresholdChecks, Ratio, RecipeOf
  <2> QED BY <1>1, <2>1 DEF RecheckLevel, Carried, Given
<1>2. CASE m.backend = "patchcore_knn"
  <2>1. bank.thresholds.recheck \in 0 .. 10
    <3>1. FirstFailure(AllConditions(m, site.assets[groups[k].key])) = "ok"
      BY <1>2 DEF Answer, RunModel, RunPatchCore
    <3> QED BY <3>1, BankUsable DEF Ratio
  <2>2. bank.thresholds.recheck # Absent
    BY <2>1, AbsentIsNoNumber
  <2> QED BY <1>2, <2>1, <2>2 DEF RecheckLevel, Carried, Given
<1> QED BY <1>1, <1>2

\* The candidates are what the models found.
LEMMA CandidatesFound ==
  ASSUME AllMade, Typed
  PROVE  /\ Listed(candidates)
         /\ \A i \in DOMAIN candidates : \E k \in DOMAIN groups :
              /\ Answer(k).kind = "ok" /\ Found(candidates[i], groups[k], Carried(k))
              /\ \E n \in DOMAIN Answer(k).candidates : candidates[i] = Answer(k).candidates[n]
         /\ \A k \in DOMAIN groups :
              /\ Answer(k).kind = "ok"
              /\ \A n \in DOMAIN Answer(k).candidates :
                   \E i \in DOMAIN candidates : candidates[i] = Answer(k).candidates[n]
<1> DEFINE answer == [k \in DOMAIN groups |-> RunModel(groups[k], recipe, site, observed[k])]
           failed == {k \in DOMAIN groups : answer[k].kind # "ok"}
           lists == [k \in DOMAIN answer |-> answer[k].candidates]
<1>1. PICK S : groups \in Seq(S)
  BY GroupsOfCubes, CubesMeanRegions DEF AllMade, Typed
<1>2. Len(groups) \in Nat /\ DOMAIN groups = 1 .. Len(groups)
  BY <1>1, LenProperties
<1>3. \A k \in DOMAIN groups : /\ answer[k] = Answer(k)
                               /\ Finds(answer[k], groups[k], Carried(k))
  <2> SUFFICES ASSUME NEW k \in DOMAIN groups
               PROVE  answer[k] = Answer(k) /\ Finds(answer[k], groups[k], Carried(k))
    OBVIOUS
  <2>1. answer[k] = Answer(k)
    BY DEF Answer
  <2> HIDE DEF answer
  <2> QED BY <2>1, ModelFinds
<1>4. failed = {} /\ candidates = FlattenSeq(lists)
  <2>1. /\ Infer(groups, recipe, site, observed) =
             IF failed # {} THEN answer[Min(failed)]
             ELSE [kind |-> "ok", candidates |-> FlattenSeq(lists)]
        /\ Infer(groups, recipe, site, observed).kind = "ok"
        /\ candidates = Infer(groups, recipe, site, observed).candidates
    BY DEF Infer, AllMade, CandidatesMade
  <2>2. failed # {} => answer[Min(failed)].kind # "ok"
    <3> SUFFICES ASSUME failed # {} PROVE answer[Min(failed)].kind # "ok"
      OBVIOUS
    <3>1. failed \in SUBSET Int /\ failed \in SUBSET (1 .. Len(groups))
      BY <1>2
    <3>2. IsFiniteSet(failed)
      <4>1. \A x, y \in Int : IsFiniteSet(x .. y)
        BY FS_Interval
      <4>2. IsFiniteSet(1 .. Len(groups))
        BY <1>2, <4>1
      <4> HIDE DEF failed
      <4> QED BY <3>1, <4>2, FS_Subset
    <3>3. Min(failed) \in failed
      <4> HIDE DEF failed
      <4> QED BY <3>1, <3>2, FiniteLeast
    <3> QED BY <3>3
  <2> HIDE DEF answer, lists, failed
  <2> QED BY <2>1, <2>2
<1>5. \A k \in 1 .. Len(groups) : /\ answer[k].kind = "ok"
                                  /\ lists[k] = answer[k].candidates /\ Listed(lists[k])
                                  /\ \A i \in DOMAIN lists[k] : Found(lists[k][i], groups[k], Carried(k))
  <2> SUFFICES ASSUME NEW k \in 1 .. Len(groups)
               PROVE  /\ answer[k].kind = "ok"
                      /\ lists[k] = answer[k].candidates /\ Listed(lists[k])
                      /\ \A i \in DOMAIN lists[k] : Found(lists[k][i], groups[k], Carried(k))
    OBVIOUS
  <2>1. k \in DOMAIN groups /\ answer[k].kind = "ok" /\ lists[k] = answer[k].candidates
    BY <1>2, <1>4
  <2> HIDE DEF answer, lists
  <2> QED BY <1>3, <2>1 DEF Finds
<1>6. lists = [k \in 1 .. Len(groups) |-> lists[k]]
  BY <1>2
<1> HIDE DEF lists, answer, failed
<1> DEFINE all == UNION {ToSet(lists[k]) : k \in 1 .. Len(groups)}
<1>7. lists \in [1 .. Len(groups) -> Seq(all)]
  <2>1. ASSUME NEW k \in 1 .. Len(groups)
        PROVE  lists[k] \in Seq(all)
    <3>1. lists[k] \in Seq(ToSet(lists[k])) /\ ToSet(lists[k]) \subseteq all
      BY <1>5 DEF Listed
    <3> QED BY <3>1
  <2> QED BY <1>6, <2>1
<1>8. candidates \in Seq(all) /\ ToSet(candidates) = all
  <2> HIDE DEF all
  <2>1. FlattenSeq(lists) \in Seq(all)
    BY <1>2, <1>7, Flattened
  <2>2. ToSet(FlattenSeq(lists)) = UNION {ToSet(lists[k]) : k \in 1 .. Len(groups)}
    BY <1>2, <1>7, Flattened
  <2> QED BY <1>4, <2>1, <2>2 DEF all
<1>9. ASSUME NEW i \in DOMAIN candidates
      PROVE  \E k \in DOMAIN groups :
               /\ Answer(k).kind = "ok" /\ Found(candidates[i], groups[k], Carried(k))
               /\ \E n \in DOMAIN Answer(k).candidates : candidates[i] = Answer(k).candidates[n]
  <2>1. candidates[i] \in all
    BY <1>8 DEF ToSet
  <2>2. PICK k \in 1 .. Len(groups) : candidates[i] \in ToSet(lists[k])
    BY <2>1
  <2>3. PICK n \in DOMAIN lists[k] : candidates[i] = lists[k][n]
    BY <2>2 DEF ToSet
  <2> QED BY <1>2, <1>3, <1>5, <2>3
<1>10. Listed(candidates)
  BY <1>8 DEF Listed
<1>11. ASSUME NEW k \in DOMAIN groups
       PROVE  /\ Answer(k).kind = "ok"
              /\ \A n \in DOMAIN Answer(k).candidates :
                   \E i \in DOMAIN candidates : candidates[i] = Answer(k).candidates[n]
  <2>1. /\ k \in 1 .. Len(groups) /\ Answer(k).kind = "ok"
        /\ lists[k] = Answer(k).candidates
    BY <1>2, <1>3, <1>5
  <2>2. ASSUME NEW n \in DOMAIN lists[k]
        PROVE  \E i \in DOMAIN candidates : candidates[i] = lists[k][n]
    <3>1. lists[k][n] \in ToSet(lists[k])
      BY DEF ToSet
    <3>2. lists[k][n] \in all
      BY <2>1, <3>1
    <3> HIDE DEF all
    <3> QED BY <1>8, <3>2 DEF ToSet
  <2> QED BY <2>1, <2>2
<1> QED BY <1>9, <1>10, <1>11

-----------------------------------------------------------------------------
(***************************************************************************)
(* What fusion keeps.                                                      *)
(***************************************************************************)

\* The level from which a defect is looked at.
LevelOf(c) == Given(c.recheck, recipe.threshold.recheck)

\* A defect of some region that was shown to a model, inside it, seen under lights
\* of the bundle the region comes from, judged by the level of a model that looked
\* at the region, and as bad as some candidate that is rejected from the same level.
Claimed(c) ==
  /\ {"view", "roi", "score", "box", "area", "evidence", "recheck"} \subseteq DOMAIN c
  /\ c.box \in Quads /\ c.score \in Int
  /\ \E k \in DOMAIN groups :
       /\ groups[k].view = c.view /\ groups[k].roi = c.roi
       /\ RecheckLevel(k) = LevelOf(c) /\ RecheckLevel(k) \in Int
  /\ \E k \in DOMAIN groups :
       /\ groups[k].view = c.view /\ groups[k].roi = c.roi
       /\ groups[k].box \in Quads /\ Inside(c.box, groups[k].box)
       /\ c.evidence \subseteq
            DOMAIN (CHOOSE b \in ToSet(job.bundles) : ViewOf(b) = groups[k].view).frames
  /\ \E i \in DOMAIN candidates : c.score = candidates[i].score /\ c.ng = candidates[i].ng

\* So every candidate handed to fusion is claimed by its region.
LEMMA FoundClaimed ==
  ASSUME AllMade, Typed, NEW i \in DOMAIN candidates
  PROVE  Claimed(candidates[i])
<1> DEFINE c == candidates[i]
<1>1. PICK k \in DOMAIN groups : Answer(k).kind = "ok" /\ Found(c, groups[k], Carried(k))
  BY CandidatesFound
<1>2. PICK n \in DOMAIN job.bundles :
        /\ groups[k].view = ViewOf(job.bundles[n])
        /\ groups[k].evidence \subseteq DOMAIN job.bundles[n].frames
        /\ GroupTyped(groups[k])
  BY GroupsShown
<1> DEFINE b == CHOOSE b \in ToSet(job.bundles) : ViewOf(b) = groups[k].view
<1>3. b = job.bundles[n]
  <2>1. job.bundles[n] \in ToSet(job.bundles)
    BY DEF ToSet
  <2>2. b \in ToSet(job.bundles) /\ ViewOf(b) = groups[k].view
    BY <1>2, <2>1
  <2>3. PICK p \in DOMAIN job.bundles : b = job.bundles[p]
    BY <2>2 DEF ToSet
  <2>4. p = n
    BY <1>2, <2>2, <2>3, OneBundle DEF AllMade
  <2> QED BY <2>3, <2>4
<1>6. RecheckLevel(k) = LevelOf(c) /\ RecheckLevel(k) \in Int
  BY <1>1, LevelsKnown DEF Found, LevelOf
<1>7. c.score \in Int
  BY DEF AllMade, FusedMade, Fuse, CandidateOK, Ratio
<1>8. \E q \in DOMAIN candidates : c.score = candidates[q].score /\ c.ng = candidates[q].ng
  OBVIOUS
<1> HIDE DEF b, c
<1>4. /\ groups[k].box \in Quads /\ c.evidence \subseteq DOMAIN b.frames
  BY <1>1, <1>2, <1>3 DEF GroupTyped, Upright, Found
<1>5. Claimed(c)
  BY <1>1, <1>4, <1>6, <1>7, <1>8 DEF Claimed, Found, b
<1> QED BY <1>5 DEF c

\* Two defects of one region merge into one of it, around both.
LEMMA MergedClaimed ==
  ASSUME AllMade, Typed, NEW a, Claimed(a), NEW c, Claimed(c), a.view = c.view, a.roi = c.roi
  PROVE  LET m == Merge(a, c)
         IN  /\ Claimed(m) /\ m.view = a.view /\ m.roi = a.roi
             /\ Inside(a.box, m.box) /\ Inside(c.box, m.box)
             /\ a.score <= m.score /\ c.score <= m.score
<1> DEFINE keeper == IF a.score >= c.score THEN a ELSE c
           box == MergedBox(a.box, c.box)
           m == Merge(a, c)
<1>1. m = [keeper EXCEPT !.box = box, !.area = Area(box), !.evidence = a.evidence \cup c.evidence]
  BY DEF Merge
<1>2. /\ {"view", "roi", "score", "box", "area", "evidence", "recheck"} \subseteq DOMAIN keeper
      /\ keeper.view = a.view /\ keeper.roi = a.roi
  BY DEF Claimed
<1>12. /\ keeper.score \in Int /\ a.score <= keeper.score /\ c.score <= keeper.score
  BY DEF Claimed
<1>13. PICK l \in DOMAIN groups :
         /\ groups[l].view = keeper.view /\ groups[l].roi = keeper.roi
         /\ RecheckLevel(l) = LevelOf(keeper) /\ RecheckLevel(l) \in Int
  <2>1. Claimed(keeper)
    OBVIOUS
  <2> HIDE DEF keeper
  <2> QED BY <2>1 DEF Claimed
<1>14. PICK i \in DOMAIN candidates :
         keeper.score = candidates[i].score /\ keeper.ng = candidates[i].ng
  <2>1. Claimed(keeper)
    OBVIOUS
  <2> HIDE DEF keeper
  <2> QED BY <2>1 DEF Claimed
<1> HIDE DEF m, keeper, box
<1>3. /\ DOMAIN m = DOMAIN keeper /\ m.view = keeper.view /\ m.roi = keeper.roi /\ m.box = box
      /\ m.evidence = a.evidence \cup c.evidence
      /\ m.score = keeper.score /\ m.recheck = keeper.recheck /\ m.ng = keeper.ng
  BY <1>1, <1>2
<1>4. a.box \in Quads /\ c.box \in Quads
  BY DEF Claimed
<1>5. /\ box \in Quads /\ Inside(a.box, box) /\ Inside(c.box, box)
      /\ \A q \in Quads : Inside(a.box, q) /\ Inside(c.box, q) => Inside(box, q)
  BY <1>4, MergedAround DEF box
<1>6. PICK k \in DOMAIN groups :
        /\ groups[k].view = a.view /\ groups[k].roi = a.roi
        /\ groups[k].box \in Quads /\ Inside(a.box, groups[k].box)
        /\ a.evidence \subseteq
             DOMAIN (CHOOSE b \in ToSet(job.bundles) : ViewOf(b) = groups[k].view).frames
  BY DEF Claimed
<1>7. PICK n \in DOMAIN groups :
        /\ groups[n].view = c.view /\ groups[n].roi = c.roi
        /\ groups[n].box \in Quads /\ Inside(c.box, groups[n].box)
        /\ c.evidence \subseteq
             DOMAIN (CHOOSE b \in ToSet(job.bundles) : ViewOf(b) = groups[n].view).frames
  BY DEF Claimed
<1>8. groups[k].box = groups[n].box
  BY <1>6, <1>7, GroupsAgree
<1>9. Inside(box, groups[k].box)
  BY <1>5, <1>6, <1>7, <1>8
<1>10. m.evidence \subseteq
         DOMAIN (CHOOSE b \in ToSet(job.bundles) : ViewOf(b) = groups[k].view).frames
  <2>1. groups[n].view = groups[k].view
    BY <1>6, <1>7
  <2> QED BY <1>3, <1>6, <1>7, <2>1
<1>11. Claimed(m)
  <2>1. RecheckLevel(l) = LevelOf(m)
    BY <1>3, <1>13 DEF LevelOf
  <2> QED BY <1>2, <1>3, <1>5, <1>6, <1>9, <1>10, <1>12, <1>13, <1>14, <2>1 DEF Claimed
<1> QED BY <1>2, <1>3, <1>5, <1>11, <1>12 DEF m

\* Candidates are taken in turn, each once.
LEMMA ScoreOrder ==
  ASSUME NEW cs, Listed(cs), \A i \in DOMAIN cs : cs[i].score \in Int
  PROVE  /\ Len(cs) \in Nat /\ DOMAIN ByScore(cs) = 1 .. Len(cs) /\ Len(ByScore(cs)) = Len(cs)
         /\ \A k \in 1 .. Len(cs) : ByScore(cs)[k] \in DOMAIN cs
         /\ \A i \in DOMAIN cs : \E k \in 1 .. Len(cs) : ByScore(cs)[k] = i
<1> DEFINE n == Len(cs)
           S == DOMAIN cs
           before(i, j) == \/ cs[i].score > cs[j].score
                           \/ cs[i].score = cs[j].score /\ i < j
           R == {p \in S \X S : before(p[1], p[2])}
           rank(x) == Cardinality({y \in S : before(y, x)})
           at(k) == CHOOSE x \in S : rank(x) = k - 1
<1>1. n \in Nat /\ S = 1 .. n
  BY ListedTable
<1>2. IsFiniteSet(S) /\ Cardinality(S) = n
  <2>1. /\ IsFiniteSet(1 .. n)
        /\ Cardinality(1 .. n) = IF 1 > n THEN 0 ELSE n - 1 + 1
    BY <1>1, FS_Interval
  <2> QED BY <1>1, <2>1
<1>3. ByScore(cs) = [k \in 1 .. n |-> at(k)]
  BY <1>2 DEF ByScore, Ranked
<1>4. \A i, j \in S : <<i, j>> \in R <=> before(i, j)
  OBVIOUS
<1>5. Orders(R, S)
  <2>1. \A x \in S : x \in Int /\ cs[x].score \in Int
    BY <1>1
  <2> HIDE DEF S
  <2>2. \A x \in S : ~before(x, x)
    BY <2>1
  <2>3. \A x, y, z \in S : before(x, y) /\ before(y, z) => before(x, z)
    BY <2>1
  <2>4. \A x, y \in S : x # y => before(x, y) \/ before(y, x)
    BY <2>1
  <2> HIDE DEF before, R
  <2> QED BY <1>4, <2>2, <2>3, <2>4 DEF Orders
<1>6. \A x \in S : Cardinality(Below(x, R, S)) = rank(x)
  <2> SUFFICES ASSUME NEW x \in S PROVE Below(x, R, S) = {y \in S : before(y, x)}
    OBVIOUS
  <2> HIDE DEF before, R, S
  <2> QED BY <1>4 DEF Below
<1> HIDE DEF before, R, S, n
<1>7. /\ \A x \in S : rank(x) \in 0 .. n - 1
      /\ \A k \in 1 .. n : \E x \in S : rank(x) = k - 1
      /\ \A x, y \in S : rank(x) = rank(y) => x = y
  <2> HIDE DEF rank
  <2>1. /\ \A x \in S : Cardinality(Below(x, R, S)) \in 0 .. n - 1
        /\ \A k \in 1 .. n : \E x \in S : Cardinality(Below(x, R, S)) = k - 1
        /\ \A x, y \in S : Cardinality(Below(x, R, S)) = Cardinality(Below(y, R, S)) => x = y
    BY <1>2, <1>5, RanksTaken
  <2> QED BY <1>6, <2>1
<1> HIDE DEF rank
<1>8. \A k \in 1 .. n : at(k) \in S /\ rank(at(k)) = k - 1
  BY <1>7
<1> HIDE DEF at
<1>9. ASSUME NEW i \in S
      PROVE  \E k \in 1 .. n : at(k) = i
  <2>1. rank(i) + 1 \in 1 .. n /\ (rank(i) + 1) - 1 = rank(i)
    BY <1>1, <1>7
  <2>2. at(rank(i) + 1) = i
    BY <1>7, <1>8, <2>1
  <2> QED BY <2>1, <2>2
<1>10. Len(ByScore(cs)) = n
  <2>1. ByScore(cs) \in [1 .. n -> S]
    BY <1>3, <1>8
  <2> QED BY <1>1, <2>1, ListIsSeq
<1> QED BY <1>1, <1>3, <1>8, <1>9, <1>10 DEF S, n

\* A list of defects holds a candidate that lies in one of its region that is no
\* less bad.
Holds(kept, c) ==
  \E k \in DOMAIN kept :
    /\ kept[k].view = c.view /\ kept[k].roi = c.roi
    /\ Inside(c.box, kept[k].box) /\ c.score <= kept[k].score

\* What fusion has of the n candidates of T it has taken.
Accounted(s, n, T) ==
  /\ s = [kept |-> s.kept, suppressed |-> s.suppressed, overflow |-> s.overflow]
  /\ s.suppressed \in Nat /\ s.overflow \in Nat
  /\ \E m \in Nat : /\ s.kept = [k \in 1 .. m |-> s.kept[k]]
                    /\ m + s.suppressed + s.overflow = n
  /\ \A k \in DOMAIN s.kept : Claimed(s.kept[k])
  /\ s.overflow = 0 => \A c \in T : Holds(s.kept, c)

\* One round: the candidate is merged, kept or counted.
LEMMA RoundAccounts ==
  ASSUME AllMade, Typed, NEW n \in Nat, NEW T, \A x \in T : Claimed(x),
         NEW s, Accounted(s, n, T), NEW c, Claimed(c), NEW fusion
  PROVE  Accounted(Place(s, c, fusion), n + 1, T \cup {c})
<1> DEFINE kept == s.kept
           region == {k \in DOMAIN kept : kept[k].view = c.view /\ kept[k].roi = c.roi}
           over == {k \in region : Overlap(kept[k].box, c.box, fusion.iou)}
           q == Min(over)
           m == Merge(kept[q], c)
           next == Place(s, c, fusion)
<1>1. PICK size \in Nat : /\ kept = [k \in 1 .. size |-> kept[k]]
                          /\ size + s.suppressed + s.overflow = n
  BY DEF Accounted
<1>2. /\ s = [kept |-> kept, suppressed |-> s.suppressed, overflow |-> s.overflow]
      /\ s.suppressed \in Nat /\ s.overflow \in Nat
      /\ \A k \in DOMAIN kept : Claimed(kept[k])
      /\ s.overflow = 0 => \A x \in T : Holds(kept, x)
  BY DEF Accounted
<1>3. DOMAIN kept = 1 .. size
  <2> HIDE DEF kept
  <2> QED BY <1>1, Zenon
<1>4. \A x \in T \cup {c} : x.box \in Quads /\ x.score \in Int
  BY DEF Claimed
<1>5. \/ over # {} /\ next = [s EXCEPT !.kept[q] = m, !.suppressed = @ + 1]
      \/ next = [s EXCEPT !.kept = Append(kept, c)]
      \/ next = [s EXCEPT !.overflow = @ + 1]
  <2> DEFINE some == over # {}
             few == Cardinality(region) < fusion.maxPerRoi
             merged == [s EXCEPT !.kept[q] = m, !.suppressed = @ + 1]
             longer == [s EXCEPT !.kept = Append(kept, c)]
             counted == [s EXCEPT !.overflow = @ + 1]
  <2>1. next = CASE some -> merged
                 [] over = {} /\ few -> longer
                 [] OTHER -> counted
    BY DEF Place
  <2> HIDE DEF next, few, merged, longer, counted, over
  <2>2. (some /\ next = merged) \/ next = longer \/ next = counted
    BY <2>1
  <2> QED BY <2>2 DEF merged, longer, counted
<1>6. CASE over # {} /\ next = [s EXCEPT !.kept[q] = m, !.suppressed = @ + 1]
  <2>1. q \in over
    <3>1. over \in SUBSET (1 .. size) /\ over \in SUBSET Int
      BY <1>3
    <3>2. IsFiniteSet(over)
      <4>1. \A x, y \in Int : IsFiniteSet(x .. y)
        BY FS_Interval
      <4>2. IsFiniteSet(1 .. size)
        BY <4>1
      <4> HIDE DEF over
      <4> QED BY <3>1, <4>2, FS_Subset
    <3> HIDE DEF over
    <3> QED BY <1>6, <3>1, <3>2, FiniteLeast
  <2>2. q \in DOMAIN kept /\ kept[q].view = c.view /\ kept[q].roi = c.roi
    BY <2>1
  <2> HIDE DEF q, over, region
  <2>3. /\ Claimed(m) /\ m.view = kept[q].view /\ m.roi = kept[q].roi
        /\ Inside(kept[q].box, m.box) /\ Inside(c.box, m.box)
        /\ kept[q].score <= m.score /\ c.score <= m.score
    BY <1>2, <2>2, MergedClaimed
  <2> DEFINE new == [kept EXCEPT ![q] = m]
  <2> HIDE DEF m, kept
  <2>4. next = [kept |-> new, suppressed |-> s.suppressed + 1, overflow |-> s.overflow]
    BY <1>2, <1>6 DEF kept
  <2>5. /\ DOMAIN new = DOMAIN kept /\ new[q] = m
        /\ \A k \in DOMAIN kept : k # q => new[k] = kept[k]
    BY <2>2
  <2>6. new = [k \in 1 .. size |-> new[k]]
    BY <1>3, <2>5
  <2> HIDE DEF new, next
  <2>7. /\ next.kept = new /\ next.suppressed = s.suppressed + 1 /\ next.overflow = s.overflow
        /\ next = [kept |-> next.kept, suppressed |-> next.suppressed, overflow |-> next.overflow]
    BY <2>4
  <2>8. \A k \in DOMAIN new : Claimed(new[k])
    BY <1>2, <2>3, <2>5
  <2>9. Holds(new, c)
    BY <2>2, <2>3, <2>5 DEF Holds
  <2>10. ASSUME NEW x \in T, Holds(kept, x)
         PROVE  Holds(new, x)
    <3>1. PICK k \in DOMAIN kept : /\ kept[k].view = x.view /\ kept[k].roi = x.roi
                                   /\ Inside(x.box, kept[k].box)
                                   /\ x.score <= kept[k].score
      BY <2>10 DEF Holds
    <3>2. CASE k # q
      BY <2>5, <3>1, <3>2 DEF Holds
    <3>3. CASE k = q
      <4>1. x.box \in Quads /\ kept[q].box \in Quads /\ m.box \in Quads
        BY <1>2, <1>4, <2>2, <2>3 DEF Claimed
      <4>2. Inside(x.box, m.box)
        BY <2>3, <3>1, <3>3, <4>1, InsideTwice
      <4>3. x.score <= m.score
        <5>1. x.score \in Int /\ kept[q].score \in Int /\ m.score \in Int
          BY <1>2, <1>4, <2>2, <2>3 DEF Claimed
        <5> QED BY <2>3, <3>1, <3>3, <5>1
      <4> QED BY <2>2, <2>3, <2>5, <3>1, <3>3, <4>2, <4>3 DEF Holds
    <3> QED BY <3>2, <3>3
  <2>11. size + (s.suppressed + 1) + s.overflow = n + 1 /\ s.suppressed + 1 \in Nat
    BY <1>1, <1>2
  <2>12. \E z \in Nat : /\ next.kept = [k \in 1 .. z |-> next.kept[k]]
                        /\ z + next.suppressed + next.overflow = n + 1
    <3>1. /\ next.kept = [k \in 1 .. size |-> next.kept[k]]
          /\ size + next.suppressed + next.overflow = n + 1
      BY <2>6, <2>7, <2>11
    <3> QED BY <3>1
  <2>13. next.overflow = 0 => \A x \in T \cup {c} : Holds(next.kept, x)
    BY <1>2, <2>7, <2>9, <2>10
  <2>14. Accounted(next, n + 1, T \cup {c})
    BY <1>2, <2>7, <2>8, <2>11, <2>12, <2>13 DEF Accounted
  <2> QED BY <2>14 DEF next
<1>7. CASE next = [s EXCEPT !.kept = Append(kept, c)]
  <2> DEFINE new == Append(kept, c)
  <2> HIDE DEF kept
  <2>1. /\ new = [k \in 1 .. size + 1 |-> new[k]] /\ DOMAIN new = 1 .. size + 1
        /\ new[size + 1] = c /\ \A k \in 1 .. size : new[k] = kept[k]
    <3> DEFINE S == ToSet(kept) \cup {c}
    <3>1. \A k \in 1 .. size : kept[k] \in S
      BY <1>3 DEF ToSet
    <3>2. c \in S
      OBVIOUS
    <3> HIDE DEF S
    <3>3. kept \in [1 .. size -> S]
      BY <1>1, <3>1
    <3>4. kept \in Seq(S) /\ Len(kept) = size
      BY <3>3, ListIsSeq
    <3>5. /\ new \in Seq(S) /\ Len(new) = size + 1 /\ new[size + 1] = c
          /\ \A k \in 1 .. size : new[k] = kept[k]
      BY <3>2, <3>4
    <3> HIDE DEF new
    <3>6. DOMAIN new = 1 .. size + 1
      BY <3>5, LenProperties
    <3>7. new = [k \in DOMAIN new |-> new[k]]
      BY <3>5
    <3> QED BY <3>5, <3>6, <3>7
  <2> HIDE DEF new
  <2>2. next = [kept |-> new, suppressed |-> s.suppressed, overflow |-> s.overflow]
    BY <1>2, <1>7 DEF new
  <2> HIDE DEF next
  <2>3. /\ next.kept = new /\ next.suppressed = s.suppressed /\ next.overflow = s.overflow
        /\ next = [kept |-> next.kept, suppressed |-> next.suppressed, overflow |-> next.overflow]
    BY <2>2
  <2>4. \A k \in 1 .. size + 1 : k \in 1 .. size \/ k = size + 1
    OBVIOUS
  <2>5. \A k \in DOMAIN new : Claimed(new[k])
    BY <1>2, <1>3, <2>1, <2>4
  <2>6. Holds(new, c)
    <3>1. Inside(c.box, c.box) /\ c.score <= c.score
      BY <1>4 DEF Quads, Inside
    <3>2. size + 1 \in DOMAIN new
      BY <2>1
    <3> QED BY <2>1, <3>1, <3>2 DEF Holds
  <2>7. \A x : Holds(kept, x) => Holds(new, x)
    <3>1. \A k \in 1 .. size : k \in 1 .. size + 1
      OBVIOUS
    <3>2. DOMAIN kept \subseteq DOMAIN new
      BY <1>3, <2>1, <3>1
    <3>3. \A k \in DOMAIN kept : new[k] = kept[k]
      BY <1>3, <2>1
    <3> QED BY <3>2, <3>3 DEF Holds
  <2>8. \E z \in Nat : /\ next.kept = [k \in 1 .. z |-> next.kept[k]]
                       /\ z + next.suppressed + next.overflow = n + 1
    <3>1. /\ size + 1 \in Nat /\ next.kept = [k \in 1 .. size + 1 |-> next.kept[k]]
          /\ (size + 1) + next.suppressed + next.overflow = n + 1
      BY <1>1, <1>2, <2>1, <2>3
    <3> QED BY <3>1
  <2>9. next.overflow = 0 => \A x \in T \cup {c} : Holds(next.kept, x)
    BY <1>2, <2>3, <2>6, <2>7
  <2>10. Accounted(next, n + 1, T \cup {c})
    BY <1>2, <2>3, <2>5, <2>8, <2>9 DEF Accounted
  <2> QED BY <2>10 DEF next
<1>8. CASE next = [s EXCEPT !.overflow = @ + 1]
  <2> HIDE DEF kept
  <2>1. next = [kept |-> kept, suppressed |-> s.suppressed, overflow |-> s.overflow + 1]
    BY <1>2, <1>8
  <2> HIDE DEF next
  <2>2. /\ next.kept = kept /\ next.suppressed = s.suppressed /\ next.overflow = s.overflow + 1
        /\ next = [kept |-> next.kept, suppressed |-> next.suppressed, overflow |-> next.overflow]
    BY <2>1
  <2>3. s.overflow + 1 \in Nat /\ s.overflow + 1 # 0
    BY <1>2
  <2>4. \E z \in Nat : /\ next.kept = [k \in 1 .. z |-> next.kept[k]]
                       /\ z + next.suppressed + next.overflow = n + 1
    <3>1. size + next.suppressed + next.overflow = n + 1
      BY <1>1, <1>2, <2>2
    <3> QED BY <1>1, <2>2, <3>1
  <2>5. Accounted(next, n + 1, T \cup {c})
    BY <1>2, <2>2, <2>3, <2>4 DEF Accounted
  <2> QED BY <2>5 DEF next
<1> QED BY <1>5, <1>6, <1>7, <1>8

\* The rounds, one after the other, take every candidate.
LEMMA SuppressAccounts ==
  ASSUME AllMade, Typed, NEW cs, Listed(cs), \A i \in DOMAIN cs : Claimed(cs[i]),
         \A i \in DOMAIN cs : cs[i].score \in Int, NEW fusion
  PROVE  Accounted(Suppress(cs, fusion), Len(cs), {cs[i] : i \in DOMAIN cs})
<1> DEFINE order == ByScore(cs)
           first == [kept |-> <<>>, suppressed |-> 0, overflow |-> 0]
           total == Len(cs)
           after(s, n) == Place(s, cs[order[n]], fusion)
           Rounds(f, m) == f = [n \in 0 .. m |-> IF n = 0 THEN first ELSE after(f[n - 1], n)]
           taken(n) == {cs[order[p]] : p \in 1 .. n}
<1>1. /\ total \in Nat /\ Len(order) = total
      /\ \A k \in 1 .. total : order[k] \in DOMAIN cs
      /\ \A i \in DOMAIN cs : \E k \in 1 .. total : order[k] = i
  BY ScoreOrder
<1>2. Suppress(cs, fusion) = (CHOOSE f : Rounds(f, Len(order)))[Len(order)]
  BY DEF Suppress
<1> HIDE DEF order, total, after, first
<1> DEFINE E == {m \in Nat : \E f : Rounds(f, m)}
<1>3. E = Nat
  <2>1. 0 \in E
    <3> DEFINE f == [n \in 0 .. 0 |-> first]
    <3>1. f = [n \in 0 .. 0 |-> IF n = 0 THEN first ELSE after(f[n - 1], n)]
      OBVIOUS
    <3> HIDE DEF f
    <3>2. \E g : Rounds(g, 0)
      BY <3>1
    <3> HIDE DEF Rounds
    <3> QED BY <3>2
  <2>2. ASSUME NEW m \in E
        PROVE  m + 1 \in E
    <3>1. PICK f : Rounds(f, m)
      OBVIOUS
    <3> DEFINE g == [n \in 0 .. m + 1 |-> IF n = m + 1 THEN after(f[m], n) ELSE f[n]]
    <3>2. ASSUME NEW n \in 0 .. m + 1
          PROVE  g[n] = IF n = 0 THEN first ELSE after(g[n - 1], n)
      <4>1. CASE n = m + 1
        <5>1. m \in 0 .. m + 1 /\ m # m + 1 /\ n # 0 /\ n - 1 = m
          BY <4>1
        <5>2. g[m] = f[m] /\ g[n] = after(f[m], n)
          BY <4>1, <5>1
        <5> HIDE DEF g
        <5> QED BY <5>1, <5>2
      <4>2. CASE n # m + 1
        <5>1. n \in 0 .. m /\ g[n] = f[n]
          BY <4>2
        <5>2. n # 0 => g[n - 1] = f[n - 1]
          BY <5>1
        <5> HIDE DEF g
        <5>3. f[n] = IF n = 0 THEN first ELSE after(f[n - 1], n)
          BY <3>1, <5>1
        <5> QED BY <5>1, <5>2, <5>3
      <4> QED BY <4>1, <4>2
    <3>3. g = [n \in 0 .. m + 1 |-> g[n]]
      OBVIOUS
    <3> HIDE DEF g
    <3>4. Rounds(g, m + 1)
      BY <3>2, <3>3
    <3> HIDE DEF Rounds
    <3>5. m + 1 \in Nat /\ \E h : Rounds(h, m + 1)
      BY <3>4
    <3> QED BY <3>5
  <2> HIDE DEF E
  <2>3. E \in SUBSET Nat
    BY DEF E
  <2> QED BY <2>1, <2>2, <2>3, AllNumbers
<1> DEFINE state == CHOOSE f : Rounds(f, total)
<1>4. Rounds(state, total)
  <2>1. \E f : Rounds(f, total)
    BY <1>1, <1>3
  <2> HIDE DEF Rounds
  <2> QED BY <2>1
<1>5. Suppress(cs, fusion) = state[total]
  BY <1>1, <1>2
<1> HIDE DEF state
<1>6. \A n \in 0 .. total : state[n] = IF n = 0 THEN first ELSE after(state[n - 1], n)
  BY <1>4
<1> HIDE DEF Rounds, E
<1> DEFINE G == {n \in Nat : n <= total => Accounted(state[n], n, taken(n))}
<1>7. G = Nat
  <2>1. 0 \in G
    <3>1. state[0] = first
      BY <1>1, <1>6
    <3>2. Accounted(first, 0, {})
      <4>1. /\ first = [kept |-> first.kept, suppressed |-> first.suppressed,
                        overflow |-> first.overflow]
            /\ first.kept = <<>> /\ first.suppressed = 0 /\ first.overflow = 0
        BY DEF first
      <4>2. DOMAIN first.kept = {} /\ first.kept = [k \in 1 .. 0 |-> first.kept[k]]
        BY <4>1
      <4>3. \E m \in Nat : /\ first.kept = [k \in 1 .. m |-> first.kept[k]]
                           /\ m + first.suppressed + first.overflow = 0
        <5>1. 0 + first.suppressed + first.overflow = 0
          BY <4>1
        <5> QED BY <4>2, <5>1
      <4> QED BY <4>1, <4>2, <4>3 DEF Accounted
    <3>3. taken(0) = {}
      OBVIOUS
    <3> HIDE DEF taken
    <3> QED BY <3>1, <3>2, <3>3
  <2>2. ASSUME NEW n \in G
        PROVE  n + 1 \in G
    <3> SUFFICES ASSUME n + 1 <= total
                 PROVE  Accounted(state[n + 1], n + 1, taken(n + 1))
      OBVIOUS
    <3> DEFINE c == cs[order[n + 1]]
    <3>1. n \in Nat /\ n <= total /\ n + 1 \in 1 .. total /\ n + 1 \in 0 .. total
      BY <1>1
    <3>2. Accounted(state[n], n, taken(n))
      BY <3>1
    <3>3. state[n + 1] = Place(state[n], c, fusion)
      BY <1>6, <3>1 DEF after
    <3>4. Claimed(c)
      BY <1>1, <3>1
    <3>5. \A x \in taken(n) : Claimed(x)
      <4>1. \A p \in 1 .. n : p \in 1 .. total
        BY <1>1, <3>1
      <4> QED BY <1>1, <4>1
    <3>6. taken(n + 1) = taken(n) \cup {c}
      <4>1. 1 .. n + 1 = (1 .. n) \cup {n + 1}
        BY <3>1
      <4> QED BY <4>1
    <3> HIDE DEF taken, c
    <3>7. Accounted(Place(state[n], c, fusion), n + 1, taken(n) \cup {c})
      BY <3>1, <3>2, <3>4, <3>5, RoundAccounts
    <3> QED BY <3>3, <3>6, <3>7
  <2> HIDE DEF G
  <2>3. G \in SUBSET Nat
    BY DEF G
  <2> QED BY <2>1, <2>2, <2>3, AllNumbers
<1>8. Accounted(state[total], total, taken(total))
  <2> HIDE DEF taken
  <2>1. total <= total
    BY <1>1
  <2>2. total \in G
    <3> HIDE DEF G
    <3> QED BY <1>1, <1>7
  <2> QED BY <2>1, <2>2
<1>9. taken(total) = {cs[i] : i \in DOMAIN cs}
  BY <1>1
<1> QED BY <1>5, <1>8, <1>9 DEF total

\* What became of the candidates, and that every defect is claimed.
LEMMA FusedAccounts ==
  ASSUME AllMade, Typed
  PROVE  Accounted(fused, Len(candidates), {candidates[i] : i \in DOMAIN candidates})
<1>1. Listed(candidates) /\ \A i \in DOMAIN candidates : Claimed(candidates[i])
  BY CandidatesFound, FoundClaimed
<1>2. /\ \A i \in DOMAIN candidates : CandidateOK(candidates[i])
      /\ fused = Suppress(candidates, recipe.fusion)
  BY DEF AllMade, FusedMade, Fuse
<1>3. \A i \in DOMAIN candidates : candidates[i].score \in Int
  BY <1>2 DEF CandidateOK, Ratio
<1> QED BY <1>1, <1>2, <1>3, SuppressAccounts

\* CandidatesAccountedFor: FusionEngine.fuse keeps, merges or counts every
\* candidate, and RuleEngine.decide passes no job with an overflow
\* (fusion_engine.py:18-67, rule_engine.py), whatever the models found.
THEOREM NoCandidateLost == Spec /\ []Typed => []CandidatesAccountedFor
<1>1. ASSUME PipelineInv, MadeInv, Typed, fused # Absent
      PROVE  /\ Len(fused.kept) + fused.suppressed + fused.overflow = Len(candidates)
             /\ (fused.overflow > 0 /\ stage = "done") => verdict.decision # "OK"
             /\ fused.overflow = 0 =>
                  \A i \in DOMAIN candidates :
                    \E k \in DOMAIN fused.kept :
                      /\ fused.kept[k].view = candidates[i].view
                      /\ fused.kept[k].roi = candidates[i].roi
                      /\ MergedBox(fused.kept[k].box, candidates[i].box) = fused.kept[k].box
  <2> DEFINE kept == fused.kept
  <2>1. AllMade
    BY <1>1, FusedMeansMade
  <2>2. Accounted(fused, Len(candidates), {candidates[i] : i \in DOMAIN candidates})
    BY <1>1, <2>1, FusedAccounts
  <2>3. PICK size \in Nat : /\ kept = [k \in 1 .. size |-> kept[k]]
                            /\ size + fused.suppressed + fused.overflow = Len(candidates)
    BY <2>2 DEF Accounted
  <2>4. Len(kept) = size
    <3> DEFINE S == ToSet(kept)
    <3>1. DOMAIN kept = 1 .. size
      <4> HIDE DEF kept
      <4> QED BY <2>3, Zenon
    <3>2. \A k \in 1 .. size : kept[k] \in S
      BY <3>1 DEF ToSet
    <3> HIDE DEF S, kept
    <3>3. kept \in [1 .. size -> S]
      BY <2>3, <3>2
    <3> QED BY <3>3, ListIsSeq
  <2>5. (fused.overflow > 0 /\ stage = "done") => verdict.decision # "OK"
    <3> SUFFICES ASSUME fused.overflow > 0, stage = "done", verdict.decision = "OK" PROVE FALSE
      OBVIOUS
    <3>1. verdict = Decide(fused, recipe.threshold)
      BY <1>1 DEF MadeInv, PipelineInv, TypeOK
    <3> DEFINE worst == IF \E i \in DOMAIN kept : Judge(kept[i], recipe.threshold) = "NG" THEN "NG"
                        ELSE IF \E i \in DOMAIN kept : Judge(kept[i], recipe.threshold) = "RECHECK"
                             THEN "RECHECK" ELSE "OK"
    <3>2. verdict.decision = IF fused.overflow > 0 /\ worst = "OK" THEN "RECHECK" ELSE worst
      BY <3>1 DEF Decide
    <3> HIDE DEF worst
    <3> QED BY <3>2
  <2>6. ASSUME fused.overflow = 0, NEW i \in DOMAIN candidates
        PROVE  \E k \in DOMAIN kept :
                 /\ kept[k].view = candidates[i].view /\ kept[k].roi = candidates[i].roi
                 /\ MergedBox(kept[k].box, candidates[i].box) = kept[k].box
    <3>1. Holds(kept, candidates[i])
      BY <2>2, <2>6 DEF Accounted
    <3>2. PICK k \in DOMAIN kept :
            /\ kept[k].view = candidates[i].view /\ kept[k].roi = candidates[i].roi
            /\ Inside(candidates[i].box, kept[k].box)
      BY <3>1 DEF Holds
    <3>3. kept[k].box \in Quads /\ candidates[i].box \in Quads
      BY <1>1, <2>1, <2>2, FoundClaimed DEF Accounted, Claimed
    <3>4. MergedBox(kept[k].box, candidates[i].box) = kept[k].box
      BY <3>2, <3>3, MergedAround
    <3> QED BY <3>2, <3>4
  <2> QED BY <2>3, <2>4, <2>5, <2>6
<1>2. PipelineInv /\ MadeInv /\ Typed => CandidatesAccountedFor
  BY <1>1 DEF CandidatesAccountedFor
<1> QED BY <1>2, MadeAlways, PTL

\* DefectsInRegion: a defect that is shown lies in the region it is reported for
\* and names lights of that region's bundle as evidence, after decoding, mapping
\* back, clipping and merging (yolo_decode.py, patchcore.py, fusion_engine.py).
THEOREM DefectsStayInRegion == Spec /\ []Typed => []DefectsInRegion
<1>1. ASSUME PipelineInv, MadeInv, Typed, fused # Absent, NEW k \in DOMAIN fused.kept
      PROVE  \E i \in DOMAIN groups :
               /\ groups[i].view = fused.kept[k].view /\ groups[i].roi = fused.kept[k].roi
               /\ MergedBox(groups[i].box, fused.kept[k].box) = groups[i].box
               /\ fused.kept[k].evidence \subseteq
                    DOMAIN (CHOOSE b \in ToSet(job.bundles) : ViewOf(b) = groups[i].view).frames
  <2> DEFINE d == fused.kept[k]
  <2>1. AllMade
    BY <1>1, FusedMeansMade
  <2>2. Claimed(d)
    BY <1>1, <2>1, FusedAccounts DEF Accounted
  <2> HIDE DEF d
  <2>3. PICK i \in DOMAIN groups :
          /\ groups[i].view = d.view /\ groups[i].roi = d.roi
          /\ groups[i].box \in Quads /\ Inside(d.box, groups[i].box)
          /\ d.evidence \subseteq
               DOMAIN (CHOOSE b \in ToSet(job.bundles) : ViewOf(b) = groups[i].view).frames
    BY <2>2 DEF Claimed
  <2>4. MergedBox(groups[i].box, d.box) = groups[i].box
    BY <2>2, <2>3, MergedAround DEF Claimed
  <2> QED BY <2>3, <2>4 DEF d
<1>2. PipelineInv /\ MadeInv /\ Typed => DefectsInRegion
  BY <1>1 DEF DefectsInRegion
<1> QED BY <1>2, MadeAlways, PTL

-----------------------------------------------------------------------------
(***************************************************************************)
(* Registration.                                                           *)
(***************************************************************************)

\* How far two shifts are apart, in steps of one pixel.
Apart(s, d) == AbsDifference(s[1], d[1]) + AbsDifference(s[2], d[2])

\* A correlation that is not negative tells how near a shift is to the
\* displacement of the two images.
LEMMA CorrelationTells ==
  ASSUME NEW base, IntPair(base.offset), NEW moving, IntPair(moving.offset),
         NEW shift, IntPair(shift)
  PROVE  /\ Correlation(base, moving, shift) \in Int
         /\ Correlation(base, moving, shift) >= -10
         /\ Correlation(base, moving, shift) >= 0 =>
              Apart(shift, Displacement(base, moving)) <= 10 - Correlation(base, moving, shift)
<1> DEFINE d == Displacement(base, moving)
           distance == Apart(shift, d)
           value == Correlation(base, moving, shift)
<1>1. d[1] \in Int /\ d[2] \in Int /\ shift[1] \in Int /\ shift[2] \in Int
  BY DEF Displacement, IntPair
<1>2. value = -10 \/ value = Max({-10, 10 - distance})
  BY DEF Correlation, Apart
<1> HIDE DEF d, value
<1>3. distance \in Int
  BY <1>1 DEF Apart, AbsDifference
<1> HIDE DEF distance
<1>4. Max({-10, 10 - distance}) = IF -10 <= 10 - distance THEN 10 - distance ELSE -10
  <2>1. \A a, b \in Int : Max({a, b}) = IF a <= b THEN b ELSE a
    BY LesserOf
  <2>2. -10 \in Int /\ 10 - distance \in Int
    BY <1>3
  <2> QED BY <2>1, <2>2
<1>5. value \in Int /\ value >= -10 /\ (value >= 0 => distance <= 10 - value)
  BY <1>2, <1>3, <1>4
<1> QED BY <1>5 DEF value, distance, d

\* The shifts within a radius are finitely many, and are tried in an order.
LEMMA ShiftsFinite ==
  ASSUME NEW r \in Nat
  PROVE  /\ IsFiniteSet(Shifts(r)) /\ Cardinality(Shifts(r)) \in Nat
         /\ \A s \in Shifts(r) : s \in Int \X Int
<1>1. IsFiniteSet(-r .. r)
  <2>1. \A x, y \in Int : IsFiniteSet(x .. y)
    BY FS_Interval
  <2> QED BY <2>1
<1>2. IsFiniteSet(Shifts(r))
  BY <1>1, FS_Product DEF Shifts
<1>3. \A s \in Shifts(r) : s \in Int \X Int
  BY DEF Shifts
<1> QED BY <1>2, <1>3, FS_CardinalityType

\* The order in which the search tries shifts is a linear one.
LEMMA ShiftsOrdered ==
  ASSUME NEW S \in SUBSET (Int \X Int)
  PROVE  Orders({p \in S \X S : TriedBefore(p[1], p[2])}, S)
<1> DEFINE R == {p \in S \X S : TriedBefore(p[1], p[2])}
<1>1. \A s \in S : Ring(s) \in Int /\ s[1] \in Int /\ s[2] \in Int /\ s = <<s[1], s[2]>>
  <2> TAKE s \in S
  <2>1. s[1] \in Int /\ s[2] \in Int /\ s = <<s[1], s[2]>>
    OBVIOUS
  <2>2. AbsDifference(s[1], 0) \in Int /\ AbsDifference(s[2], 0) \in Int
    BY <2>1 DEF AbsDifference
  <2>3. Ring(s) \in Int
    BY <2>2, LesserOf DEF Ring
  <2> QED BY <2>1, <2>3
<1>2. \A s, t \in S : <<s, t>> \in R <=> TriedBefore(s, t)
  OBVIOUS
<1> HIDE DEF R
<1>3. \A s \in S : ~TriedBefore(s, s)
  BY <1>1 DEF TriedBefore
<1>4. \A s, t, u \in S : TriedBefore(s, t) /\ TriedBefore(t, u) => TriedBefore(s, u)
  BY <1>1 DEF TriedBefore
<1>5. \A s, t \in S : s # t => TriedBefore(s, t) \/ TriedBefore(t, s)
  <2> SUFFICES ASSUME NEW s \in S, NEW t \in S, s # t
               PROVE  TriedBefore(s, t) \/ TriedBefore(t, s)
    OBVIOUS
  <2>1. s[1] # t[1] \/ s[2] # t[2]
    BY <1>1
  <2> QED BY <1>1, <2>1 DEF TriedBefore
<1>6. Orders(R, S)
  BY <1>2, <1>3, <1>4, <1>5 DEF Orders
<1> QED BY <1>6 DEF R

\* The search stops at a ring, and what it answers is a shift of the best value
\* found so far.
LEMMA SearchFinds ==
  ASSUME NEW base, IntPair(base.offset), NEW moving, IntPair(moving.offset),
         NEW registration, registration.searchRadius \in Nat,
         registration.maxIterations \in Int, registration.epsilon \in Int,
         registration.minCorrelation \in Int,
         Exhaustive(base, moving, registration).converged
  PROVE  LET shift == Exhaustive(base, moving, registration).shift
             value == Correlation(base, moving, shift)
         IN  IntPair(shift) /\ value >= registration.minCorrelation /\ value >= 0
<1> DEFINE radius == Min({registration.searchRadius, 10})
           limit == registration.maxIterations
           tried(r) == {s \in Shifts(r) : Cardinality({t \in Shifts(r) : TriedBefore(t, s)}) < limit}
           value(s) == Correlation(base, moving, s)
           best(r) == Max({value(s) : s \in tried(r)} \cup {-10})
           stops(r) == \/ r = radius
                       \/ Cardinality(Shifts(r)) >= limit
                       \/ r > 0 /\ best(r) - best(r - 1) < registration.epsilon
           goesOn(q) == /\ Cardinality(Shifts(q)) < limit
                        /\ q > 0 => best(q) - best(q - 1) >= registration.epsilon
           last == CHOOSE r \in 0 .. radius : stops(r) /\ \A q \in 0 .. r - 1 : goesOn(q)
           found == {s \in tried(last) : value(s) = best(last)}
           chosen == CHOOSE s \in found : \A t \in found \ {s} : TriedBefore(s, t)
           answer == Exhaustive(base, moving, registration)
<1>1. answer = [shift |-> IF best(last) = -10 THEN <<0, 0>> ELSE chosen,
                converged |-> best(last) >= registration.minCorrelation /\ best(last) >= 0]
  BY DEF Exhaustive
<1>2. radius \in Nat
  BY LesserOf
<1>3. \A r \in Nat : /\ IsFiniteSet(tried(r)) /\ tried(r) \in SUBSET (Int \X Int)
                     /\ Cardinality(Shifts(r)) \in Nat
  <2> TAKE r \in Nat
  <2>1. tried(r) \subseteq Shifts(r)
    OBVIOUS
  <2> HIDE DEF tried
  <2> QED BY <2>1, ShiftsFinite, FS_Subset
<1> HIDE DEF answer, radius, limit, tried
<1>4. ASSUME NEW s \in Int \X Int
      PROVE  value(s) \in Int
  BY <1>4, CorrelationTells DEF IntPair
<1> HIDE DEF value
<1>5. ASSUME NEW r \in Nat
      PROVE  /\ best(r) \in Int
             /\ best(r) # -10 => \E s \in tried(r) : value(s) = best(r)
  <2> DEFINE V == {value(s) : s \in tried(r)} \cup {-10}
  <2>1. V \in SUBSET Int /\ V # {}
    BY <1>3, <1>4
  <2>2. IsFiniteSet(V)
    <3> DEFINE f == [s \in tried(r) |-> value(s)]
    <3>1. IsFiniteSet(DOMAIN f)
      BY <1>3
    <3>2. IsFiniteSet({f[s] : s \in DOMAIN f})
      <4> HIDE DEF f
      <4> QED BY <3>1, ValuesFinite
    <3>3. {f[s] : s \in DOMAIN f} = {value(s) : s \in tried(r)}
      OBVIOUS
    <3> HIDE DEF f
    <3> QED BY <3>2, <3>3, FS_AddElement
  <2>3. best(r) = Max(V)
    OBVIOUS
  <2>4. Max(V) \in V
    <3> HIDE DEF V
    <3> QED BY <2>1, <2>2, FiniteLeast
  <2> HIDE DEF best
  <2> QED BY <2>1, <2>3, <2>4
<1> HIDE DEF best
<1>6. last \in 0 .. radius
  <2> DEFINE S == {r \in 0 .. radius : stops(r)}
  <2>1. S \in SUBSET Nat /\ radius \in S
    BY <1>2
  <2>2. PICK r \in S : \A q \in S : r <= q
    <3> HIDE DEF S
    <3> QED BY <2>1, NumbersHaveLeast
  <2>3. ASSUME NEW q \in 0 .. r - 1
        PROVE  goesOn(q)
    <3>1. q \in 0 .. radius /\ ~(r <= q) /\ q \in Nat
      BY <1>2, <2>2
    <3>2. ~stops(q)
      <4> HIDE DEF stops
      <4> QED BY <2>2, <3>1
    <3>3. /\ Cardinality(Shifts(q)) \in Int /\ limit \in Int /\ best(q) \in Int
          /\ q > 0 => best(q - 1) \in Int
      BY <1>3, <1>5, <3>1 DEF limit
    <3> QED BY <3>2, <3>3
  <2>4. r \in 0 .. radius /\ stops(r)
    OBVIOUS
  <2> HIDE DEF stops, goesOn, S
  <2> QED BY <2>3, <2>4
<1> HIDE DEF last, stops, goesOn
<1>7. last \in Nat /\ best(last) >= registration.minCorrelation /\ best(last) >= 0
  <2>1. answer.converged = (best(last) >= registration.minCorrelation /\ best(last) >= 0)
    BY <1>1, Zenon
  <2>2. answer.converged
    BY DEF answer
  <2>3. last \in Nat
    BY <1>2, <1>6
  <2> QED BY <2>1, <2>2, <2>3
<1>8. best(last) # -10 /\ answer.shift = chosen
  BY <1>1, <1>5, <1>7
<1>9. found # {} /\ IsFiniteSet(found) /\ found \in SUBSET (Int \X Int)
  <2>1. found \subseteq tried(last) /\ found # {}
    BY <1>5, <1>7, <1>8
  <2> HIDE DEF found
  <2> QED BY <1>3, <1>7, <2>1, FS_Subset
<1>10. \A s \in found : value(s) = best(last)
  OBVIOUS
<1> HIDE DEF found
<1>11. chosen \in found
  <2> DEFINE R == {p \in found \X found : TriedBefore(p[1], p[2])}
  <2>1. Orders(R, found)
    BY <1>9, ShiftsOrdered
  <2>2. \A s, t \in found : <<s, t>> \in R => TriedBefore(s, t)
    OBVIOUS
  <2> HIDE DEF R
  <2>3. PICK s \in found : \A t \in found \ {s} : <<s, t>> \in R
    BY <1>9, <2>1, FirstTaken
  <2>4. \A t \in found \ {s} : TriedBefore(s, t)
    BY <2>2, <2>3
  <2> QED BY <2>4
<1> HIDE DEF chosen
<1>12. /\ IntPair(answer.shift) /\ value(answer.shift) >= registration.minCorrelation
       /\ value(answer.shift) >= 0
  BY <1>7, <1>8, <1>9, <1>10, <1>11 DEF IntPair
<1> QED BY <1>12 DEF answer, value

\* What alignment answers, when it has converged, is near the displacement.
LEMMA AlignedNear ==
  ASSUME NEW base, IntPair(base.offset), NEW moving, IntPair(moving.offset),
         NEW registration, registration.searchRadius \in Nat,
         registration.maxIterations \in Int, registration.epsilon \in Int,
         registration.minCorrelation \in Int, NEW s,
         Align(base, moving, registration, s).converged
  PROVE  LET shift == Align(base, moving, registration, s).shift
         IN  /\ IntPair(shift)
             /\ Apart(shift, Displacement(base, moving)) <= 10 - registration.minCorrelation
<1> DEFINE d == Displacement(base, moving)
           value == Correlation(base, moving, d)
           answer == Align(base, moving, registration, s)
           search == Exhaustive(base, moving, registration)
           least == registration.minCorrelation
           same == <<base.width, base.height>> = <<moving.width, moving.height>>
<1>1. \/ answer = [shift |-> <<0, 0>>, converged |-> FALSE]
      \/ answer = [shift |-> d, converged |-> value >= least /\ value >= 0]
      \/ answer = search
  <2>1. answer = CASE ~same -> [shift |-> <<0, 0>>, converged |-> FALSE]
                   [] same /\ s.opencv /\ value > -10 ->
                        [shift |-> d, converged |-> value >= least /\ value >= 0]
                   [] OTHER -> search
    BY DEF Align
  <2> HIDE DEF answer, same, value, d, search, least
  <2> QED BY <2>1
<1>2. IntPair(d)
  BY DEF Displacement, IntPair
<1>3. IntPair(answer.shift) /\ Correlation(base, moving, answer.shift) >= least
      /\ Correlation(base, moving, answer.shift) >= 0
  <2>1. CASE answer = [shift |-> <<0, 0>>, converged |-> FALSE]
    BY <2>1
  <2>2. CASE answer = [shift |-> d, converged |-> value >= least /\ value >= 0]
    <3> HIDE DEF d, value, answer
    <3>1. answer.shift = d
      BY <2>2
    <3>2. answer.converged = (value >= least /\ value >= 0)
      BY <2>2, Zenon
    <3>3. answer.converged
      BY DEF answer
    <3> QED BY <1>2, <3>1, <3>2, <3>3 DEF value
  <2>3. CASE answer = search
    BY <2>3, SearchFinds
  <2> QED BY <1>1, <2>1, <2>2, <2>3
<1> HIDE DEF answer
<1>4. /\ Correlation(base, moving, answer.shift) \in Int
      /\ Apart(answer.shift, d) <= 10 - Correlation(base, moving, answer.shift)
  BY <1>3, CorrelationTells
<1>5. Apart(answer.shift, d) \in Int
  <2>1. d[1] \in Int /\ d[2] \in Int /\ answer.shift[1] \in Int /\ answer.shift[2] \in Int
    BY <1>2, <1>3 DEF IntPair
  <2> HIDE DEF d
  <2> QED BY <2>1 DEF Apart, AbsDifference
<1> HIDE DEF d
<1>6. IntPair(answer.shift) /\ Apart(answer.shift, d) <= 10 - least
  BY <1>3, <1>4, <1>5
<1> QED BY <1>6 DEF answer, d

\* What registration is asked for has the right types.
RegistrationTyped(r) ==
  /\ r.registration.searchRadius \in Nat /\ r.registration.maxIterations \in Int
  /\ r.registration.epsilon \in Int /\ r.registration.minCorrelation \in 0 .. 10
  /\ r.quality.maxError \in Int

\* A pair of images is in register, and the second was not moved too far.
InRegister(base, moved, before, r) ==
  LET d == Displacement(base, moved)
      back == Displacement(moved, before)
  IN  /\ AbsDifference(d[1], 0) + AbsDifference(d[2], 0) <= 10 - r.registration.minCorrelation
      /\ Magnitude2(back) <= r.quality.maxError * r.quality.maxError

\* An image is in register with itself.
LEMMA SelfInRegister ==
  ASSUME NEW f, IntPair(f.offset), NEW r, RegistrationTyped(r)
  PROVE  InRegister(f, f, f, r)
<1> DEFINE d == Displacement(f, f)
           e == r.quality.maxError
<1>1. d[1] = 0 /\ d[2] = 0
  BY DEF Displacement, IntPair
<1>2. AbsDifference(d[1], 0) = 0 /\ AbsDifference(d[2], 0) = 0 /\ Magnitude2(d) = 0
  BY <1>1 DEF AbsDifference, Magnitude2
<1>3. e \in Int /\ 0 <= 10 - r.registration.minCorrelation
  BY DEF RegistrationTyped
<1> HIDE DEF d, e
<1>4. \A x \in Int : 0 <= x * x
  OBVIOUS
<1>5. 0 <= e * e
  BY <1>3, <1>4
<1> QED BY <1>2, <1>3, <1>5 DEF InRegister, d, e

\* An image moved by what alignment has answered.
LEMMA MovedInRegister ==
  ASSUME NEW base, IntPair(base.offset), NEW f, CutOut(f), IntPair(f.offset),
         NEW r, RegistrationTyped(r), NEW s,
         Align(base, f, r.registration, s).converged,
         Magnitude2(Align(base, f, r.registration, s).shift)
           <= r.quality.maxError * r.quality.maxError
  PROVE  InRegister(base, Translate(f, Align(base, f, r.registration, s).shift), f, r)
<1> DEFINE shift == Align(base, f, r.registration, s).shift
           moved == Translate(f, shift)
           d == Displacement(base, f)
           rest == Displacement(base, moved)
           back == Displacement(moved, f)
<1>1. IntPair(shift) /\ Apart(shift, d) <= 10 - r.registration.minCorrelation
  BY AlignedNear DEF RegistrationTyped
<1>2. Magnitude2(shift) <= r.quality.maxError * r.quality.maxError
  OBVIOUS
<1> HIDE DEF shift
<1>3. moved.offset = <<f.offset[1] - shift[1], f.offset[2] - shift[2]>>
  BY TranslatedCutOut
<1> HIDE DEF moved
<1>4. /\ rest = <<f.offset[1] - shift[1] - base.offset[1], f.offset[2] - shift[2] - base.offset[2]>>
      /\ back = <<f.offset[1] - (f.offset[1] - shift[1]), f.offset[2] - (f.offset[2] - shift[2])>>
      /\ d = <<f.offset[1] - base.offset[1], f.offset[2] - base.offset[2]>>
  BY <1>3 DEF Displacement
<1> HIDE DEF d, rest, back
<1>5. /\ shift[1] \in Int /\ shift[2] \in Int /\ f.offset[1] \in Int /\ f.offset[2] \in Int
      /\ base.offset[1] \in Int /\ base.offset[2] \in Int
  BY <1>1 DEF IntPair
<1>6. /\ d[1] \in Int /\ d[2] \in Int
      /\ rest[1] = d[1] - shift[1] /\ rest[2] = d[2] - shift[2]
      /\ back[1] = shift[1] /\ back[2] = shift[2]
  BY <1>4, <1>5
<1>7. /\ AbsDifference(rest[1], 0) = AbsDifference(shift[1], d[1])
      /\ AbsDifference(rest[2], 0) = AbsDifference(shift[2], d[2])
  BY <1>5, <1>6 DEF AbsDifference
<1>8. AbsDifference(rest[1], 0) + AbsDifference(rest[2], 0) <= 10 - r.registration.minCorrelation
  BY <1>1, <1>7 DEF Apart
<1>9. Magnitude2(back) <= r.quality.maxError * r.quality.maxError
  BY <1>2, <1>6 DEF Magnitude2
<1> QED BY <1>8, <1>9 DEF InRegister, rest, back, moved, shift

\* All lights of a region, when registration by ECC has passed.
LEMMA EccInRegister ==
  ASSUME NEW frames, \A l \in DOMAIN frames : CutOut(frames[l]) /\ IntPair(frames[l].offset),
         NEW base, NEW lights, NEW r, RegistrationTyped(r), NEW s,
         EccReport(frames, base, lights, r, s).pass
  PROVE  /\ base \in DOMAIN frames
         /\ \A l \in ToSet(lights) \cap DOMAIN frames :
              InRegister(EccReport(frames, base, lights, r, s).frames[base],
                         EccReport(frames, base, lights, r, s).frames[l], frames[l], r)
<1> DEFINE moving == (ToSet(lights) \cap DOMAIN frames) \ {base}
           found == [l \in moving |-> Align(frames[base], frames[l], r.registration, s)]
           passes == /\ base \in DOMAIN frames
                     /\ \A l \in moving :
                          /\ found[l].converged
                          /\ Magnitude2(found[l].shift) <= r.quality.maxError * r.quality.maxError
           moved == [l \in DOMAIN frames |-> IF l \in moving THEN Translate(frames[l], found[l].shift)
                                             ELSE frames[l]]
           report == EccReport(frames, base, lights, r, s)
<1>1. report = [pass |-> passes, frames |-> IF ~passes THEN frames ELSE moved]
  BY DEF EccReport
<1>2. passes /\ report.frames = moved
  <2> HIDE DEF report, passes, moved
  <2>1. report.pass = passes
    BY <1>1, Zenon
  <2>2. report.pass
    BY DEF report
  <2>3. passes
    BY <2>1, <2>2
  <2> QED BY <1>1, <2>3
<1> HIDE DEF report
<1>3. base \in DOMAIN frames /\ report.frames[base] = frames[base]
  BY <1>2
<1>4. ASSUME NEW l \in ToSet(lights) \cap DOMAIN frames
      PROVE  InRegister(report.frames[base], report.frames[l], frames[l], r)
  <2>1. CASE l = base
    BY <1>3, <2>1, SelfInRegister
  <2>2. CASE l # base
    <3>1. l \in moving /\ l \in DOMAIN frames
      BY <2>2
    <3>2. found[l] = Align(frames[base], frames[l], r.registration, s)
      BY <3>1
    <3>3. report.frames[l] = Translate(frames[l], found[l].shift)
      BY <1>2, <3>1
    <3>4. found[l].converged /\ Magnitude2(found[l].shift) <= r.quality.maxError * r.quality.maxError
      BY <1>2, <3>1
    <3> HIDE DEF found, passes, moved
    <3> QED BY <1>3, <3>1, <3>2, <3>3, <3>4, MovedInRegister
  <2> QED BY <2>1, <2>2
<1> QED BY <1>3, <1>4 DEF report

\* The base light of a cube is one of its lights.
LEMMA CubeInRegister ==
  ASSUME NEW bundle, NEW name, NEW r, RegistrationTyped(r), NEW s,
         r.registration.method = "ecc",
         LET c == CameraRecipe(r, bundle.view)
         IN  c.base \in ToSet(c.lightOrder) /\ r.registration.fallback \in ToSet(c.lightOrder),
         \A l \in DOMAIN bundle.rois[name] :
           CutOut(bundle.rois[name][l]) /\ IntPair(bundle.rois[name][l].offset),
         Cube(bundle, name, r, s).pass
  PROVE  LET cube == Cube(bundle, name, r, s)
         IN  \A l \in DOMAIN cube.frames :
               InRegister(cube.frames[cube.base], cube.frames[l], bundle.rois[name][l], r)
<1> DEFINE c == CameraRecipe(r, bundle.view)
           frames == bundle.rois[name]
           base == IF c.base \in DOMAIN frames THEN c.base ELSE r.registration.fallback
           ecc == EccReport(frames, base, c.lightOrder, r, s)
           fixed == FixedReport(frames, base, c.lightOrder, bundle.calibration, r.quality)
           report == IF r.registration.method = "ecc" THEN ecc ELSE fixed
           lights == ToSet(c.lightOrder) \cap DOMAIN frames
           shown == IF base \in DOMAIN frames THEN base ELSE CHOOSE l \in DOMAIN frames : TRUE
           cube == Cube(bundle, name, r, s)
<1>1. cube = [view |-> bundle.view, roi |-> name, base |-> base,
              frames |-> [l \in lights |-> report.frames[l]],
              box |-> frames[shown].box, pass |-> report.pass]
  BY DEF Cube
<1>2. base \in ToSet(c.lightOrder)
  OBVIOUS
<1>3. cube.pass /\ \A l \in DOMAIN frames : CutOut(frames[l]) /\ IntPair(frames[l].offset)
  OBVIOUS
<1>4. report = ecc
  OBVIOUS
<1> HIDE DEF cube, frames, base, c, ecc, fixed, report, shown, lights
<1>5. /\ cube.base = base /\ DOMAIN cube.frames = lights
      /\ \A l \in lights : cube.frames[l] = ecc.frames[l]
  BY <1>1, <1>4
<1>6. ecc.pass
  <2>1. cube.pass = ecc.pass
    BY <1>1, <1>4
  <2> QED BY <1>3, <2>1
<1>7. /\ base \in DOMAIN frames
      /\ \A l \in lights : InRegister(ecc.frames[base], ecc.frames[l], frames[l], r)
  BY <1>3, <1>6, EccInRegister DEF ecc, lights
<1>8. base \in lights
  BY <1>2, <1>7 DEF lights
<1>9. \A l \in DOMAIN cube.frames :
        InRegister(cube.frames[cube.base], cube.frames[l], frames[l], r)
  BY <1>5, <1>7, <1>8
<1> QED BY <1>9 DEF cube, frames

\* What registration reads of a recipe that was loaded.
LEMMA LoadedRegisters ==
  ASSUME RecipeLoaded, DocumentTyped(document)
  PROVE  RegistrationTyped(recipe)
<1> DEFINE g == document.registration
<1>1. /\ RegistrationChecks(g) /\ recipe.registration = Registration(document)
      /\ recipe.quality = [document.quality EXCEPT !.required = RequiredLights(document)]
  BY LoadedChecked DEF RecipeLoaded, RecipeOf
<1>2. /\ g.searchRadius \in Int /\ g.maxIterations \in Int /\ g.epsilon \in Int
      /\ {"method", "searchRadius", "maxIterations", "epsilon", "minCorrelation"} \subseteq DOMAIN g
      /\ "maxError" \in DOMAIN document.quality /\ document.quality.maxError \in Int
  BY DEF DocumentTyped
<1>3. recipe.registration =
        [g EXCEPT !.base = Given(@, RequiredLights(document)[1]),
                  !.fallback = Given(@, RequiredLights(document)[1])]
  BY <1>1 DEF Registration
<1> HIDE DEF g
<1>4. /\ recipe.registration.searchRadius = g.searchRadius
      /\ recipe.registration.maxIterations = g.maxIterations
      /\ recipe.registration.epsilon = g.epsilon
      /\ recipe.registration.minCorrelation = g.minCorrelation
  BY <1>2, <1>3
<1>5. recipe.quality.maxError = document.quality.maxError
  BY <1>1, <1>2
<1>6. g.searchRadius >= 0 /\ g.minCorrelation \in 0 .. 10
  BY <1>1 DEF RegistrationChecks, NonNegative, Ratio
<1> QED BY <1>2, <1>4, <1>5, <1>6 DEF RegistrationTyped

\* LightsInRegister: when a job is judged, all lights of a region show the same
\* place, as near as the correlation asked for tells, and none was moved further
\* than the error allowed: the searches of ecc_registration.py, the shift applied
\* in reflectance_cube.py, and the cut-outs they start from.
THEOREM LightsAreInRegister == Spec /\ []Typed => []LightsInRegister
<1>1. ASSUME PipelineInv, MadeInv, Typed, Judged, recipe.registration.method = "ecc",
             NEW j \in DOMAIN cubes
      PROVE  LET frames == cubes[j].frames
                 before(l) ==
                   (CHOOSE b \in ToSet(prepared) : b.view = cubes[j].view).rois[cubes[j].roi][l]
             IN  \A l \in DOMAIN frames :
                   InRegister(frames[cubes[j].base], frames[l], before(l), recipe)
  <2>1. AllMade
    BY <1>1, JudgedMeansMade
  <2>2. PICK i \in DOMAIN job.bundles : \E name \in DOMAIN prepared[i].rois :
          cubes[j] = Cube(prepared[i], name, recipe, site)
    BY <1>1, <2>1, CubesMeanRegions DEF AllMade
  <2>3. PICK name \in DOMAIN prepared[i].rois : cubes[j] = Cube(prepared[i], name, recipe, site)
    BY <2>2
  <2>4. /\ DOMAIN prepared = DOMAIN job.bundles
        /\ \A k \in DOMAIN job.bundles : prepared[k].view = ViewOf(job.bundles[k])
    BY <1>1, <2>1, BundlesPrepared DEF AllMade, PreparedMade, Typed
  <2>5. cubes[j].view = ViewOf(job.bundles[i]) /\ cubes[j].roi = name
    BY <2>3, <2>4, CubeNamed
  <2>6. (CHOOSE b \in ToSet(prepared) : b.view = cubes[j].view) = prepared[i]
    <3>1. prepared[i] \in ToSet(prepared) /\ prepared[i].view = cubes[j].view
      BY <2>4, <2>5 DEF ToSet
    <3>2. ASSUME NEW b \in ToSet(prepared), b.view = cubes[j].view
          PROVE  b = prepared[i]
      <4>1. PICK k \in DOMAIN job.bundles : b = prepared[k]
        BY <2>4 DEF ToSet
      <4>2. k = i
        BY <2>1, <2>4, <2>5, <3>2, <4>1, OneBundle DEF AllMade
      <4> QED BY <4>1, <4>2
    <3> QED BY <3>1, <3>2
  <2>7. RegistrationTyped(recipe)
    BY <1>1, <2>1, LoadedRegisters DEF AllMade, Typed
  <2>8. LET c == CameraRecipe(recipe, prepared[i].view)
        IN  c.base \in ToSet(c.lightOrder) /\ recipe.registration.fallback \in ToSet(c.lightOrder)
    <3>1. CameraRecipe(recipe, prepared[i].view) # Absent
      BY <1>1, <2>1, <2>4, <2>5, CubesMeanRegions DEF AllMade
    <3>2. PICK n \in DOMAIN recipe.cameras : CameraRecipe(recipe, prepared[i].view) = recipe.cameras[n]
      BY <3>1, CameraListed
    <3>3. CameraChecks(recipe)
      BY <2>1, LoadedChecked DEF AllMade
    <3>4. /\ recipe.cameras[n].base \in ToSet(recipe.cameras[n].lightOrder)
          /\ recipe.registration.fallback \in ToSet(recipe.cameras[n].lightOrder)
      BY <3>3 DEF CameraChecks
    <3> QED BY <3>2, <3>4
  <2>9. \A l \in DOMAIN prepared[i].rois[name] :
          CutOut(prepared[i].rois[name][l]) /\ IntPair(prepared[i].rois[name][l].offset)
    <3>1. /\ DOMAIN prepared[i].rois[name] = DOMAIN job.bundles[i].frames
          /\ \A l \in DOMAIN job.bundles[i].frames :
               /\ CutOut(prepared[i].rois[name][l])
               /\ prepared[i].rois[name][l].offset = job.bundles[i].frames[l].offset
      BY <1>1, <2>1, RegionsCutOut
    <3>2. \A l \in DOMAIN job.bundles[i].frames : IntPair(job.bundles[i].frames[l].offset)
      BY <1>1, <2>1, FramesSized DEF AllMade, Typed
    <3> QED BY <3>1, <3>2
  <2>10. Cube(prepared[i], name, recipe, site).pass
    BY <2>1, <2>3 DEF AllMade, CubesMade
  <2> DEFINE cube == Cube(prepared[i], name, recipe, site)
  <2>11. \A l \in DOMAIN cube.frames :
           InRegister(cube.frames[cube.base], cube.frames[l], prepared[i].rois[name][l], recipe)
    BY <1>1, <2>7, <2>8, <2>9, <2>10, CubeInRegister
  <2> HIDE DEF cube
  <2> QED BY <2>3, <2>5, <2>6, <2>11 DEF cube
<1>2. ASSUME PipelineInv, MadeInv, Typed, Judged, recipe.registration.method = "ecc",
             NEW j \in DOMAIN cubes
      PROVE  LET frames == cubes[j].frames
                 before(l) ==
                   (CHOOSE b \in ToSet(prepared) : b.view = cubes[j].view).rois[cubes[j].roi][l]
             IN  \A l \in DOMAIN frames :
                   LET d == Displacement(frames[cubes[j].base], frames[l])
                       moved == Displacement(frames[l], before(l))
                   IN  /\ AbsDifference(d[1], 0) + AbsDifference(d[2], 0)
                            <= 10 - recipe.registration.minCorrelation
                       /\ Magnitude2(moved) <= recipe.quality.maxError * recipe.quality.maxError
  BY <1>1, <1>2 DEF InRegister
<1>3. PipelineInv /\ MadeInv /\ Typed => LightsInRegister
  BY <1>2 DEF LightsInRegister
<1> QED BY <1>3, MadeAlways, PTL

-----------------------------------------------------------------------------
(***************************************************************************)
(* Suspicion.                                                              *)
(***************************************************************************)

\* Each cell lies in one of the connected parts: in what all the parts closed
\* under touching that hold it have in common.
LEMMA CellInPart ==
  ASSUME NEW cells, \A c \in cells : IntPair(c), NEW q \in cells
  PROVE  \E C \in Components(cells) : q \in C
<1> DEFINE closed(C) == \A c \in C, d \in cells \ C : ~Touch(c, d)
           parts == {C \in (SUBSET cells) \ {{}} : closed(C)}
           mine == {c \in cells : \A D \in parts : q \in D => c \in D}
<1>1. Components(cells) = {C \in parts : \A D \in parts : D \subseteq C => D = C}
  BY DEF Components
<1>2. \A c, d \in cells : Touch(c, d) => Touch(d, c)
  BY DEF Touch, AbsDifference, IntPair
<1>3. q \in mine /\ mine \in (SUBSET cells) \ {{}}
  OBVIOUS
<1>4. closed(mine)
  <2> SUFFICES ASSUME NEW c \in mine, NEW d \in cells \ mine PROVE ~Touch(c, d)
    OBVIOUS
  <2>1. PICK D \in parts : q \in D /\ d \notin D
    OBVIOUS
  <2>2. c \in D /\ closed(D)
    BY <2>1
  <2> QED BY <2>1, <2>2
<1>5. ASSUME NEW D \in parts, D \subseteq mine
      PROVE  D = mine
  <2>1. CASE q \in D
    BY <1>5, <2>1
  <2>2. CASE q \notin D
    <3> DEFINE rest == mine \ D
    <3>1. ASSUME NEW c \in rest, NEW d \in cells \ rest
          PROVE  ~Touch(c, d)
      <4>1. CASE d \notin mine
        <5> HIDE DEF mine, parts
        <5> QED BY <1>3, <1>4, <3>1, <4>1
      <4>2. CASE d \in D
        <5>1. closed(D) /\ c \in cells \ D /\ d \in cells
          BY <3>1, <4>2
        <5> HIDE DEF mine, parts, rest
        <5>2. ~Touch(d, c)
          BY <4>2, <5>1
        <5> QED BY <1>2, <5>1, <5>2
      <4> QED BY <3>1, <4>1, <4>2
    <3>2. rest \in parts /\ q \in rest
      <4>1. closed(rest)
        BY <3>1
      <4>2. q \in rest /\ rest \in (SUBSET cells) \ {{}}
        BY <1>3, <2>2
      <4> HIDE DEF rest, closed, mine
      <4> QED BY <4>1, <4>2
    <3>3. mine \subseteq rest
      BY <3>2
    <3>4. D = {}
      BY <1>5, <3>3
    <3> QED BY <3>4
  <2> QED BY <2>1, <2>2
<1>6. mine \in parts
  <2> HIDE DEF mine, closed
  <2> QED BY <1>3, <1>4
<1> HIDE DEF mine, parts
<1> QED BY <1>1, <1>3, <1>5, <1>6

\* The values of a map over a grid have a greatest.
LEMMA PeakTaken ==
  ASSUME NEW map, Grid(DOMAIN map), \A c \in DOMAIN map : map[c] \in Int
  PROVE  LET peak == Max(Range(map))
         IN  /\ peak \in Int /\ \A c \in DOMAIN map : map[c] <= peak
             /\ \E c \in DOMAIN map : map[c] = peak
<1> DEFINE values == Range(map)
<1>1. values = {map[c] : c \in DOMAIN map}
  BY DEF Range
<1>2. IsFiniteSet(values)
  BY <1>1, ValuesFinite DEF Grid
<1>3. values \in SUBSET Int /\ values # {}
  BY <1>1 DEF Grid
<1> HIDE DEF values
<1>4. Max(values) \in values /\ \A v \in values : v <= Max(values)
  BY <1>2, <1>3, FiniteLeast
<1>5. /\ Max(values) \in Int /\ \A c \in DOMAIN map : map[c] <= Max(values)
      /\ \E c \in DOMAIN map : map[c] = Max(values)
  BY <1>1, <1>3, <1>4
<1> QED BY <1>5 DEF values

\* The threshold of an anomaly map is not above its peak, when the peak is not
\* below the level.
LEMMA ThresholdReached ==
  ASSUME NEW recheck \in 0 .. 10, NEW peak \in 0 .. 10, recheck <= peak,
         NEW a \in 0 .. 10, NEW b \in 0 .. 10
  PROVE  Max({recheck * a, peak * b}) <= 10 * peak
<1>1. \A x \in 0 .. 10, y \in 0 .. 10 : x <= peak => x * y \in Int /\ x * y <= 10 * peak
  <2> SUFFICES ASSUME NEW x \in 0 .. 10, NEW y \in 0 .. 10, x <= peak
               PROVE  x * y \in Int /\ x * y <= 10 * peak
    OBVIOUS
  <2>1. \/ y = 0 \/ y = 1 \/ y = 2 \/ y = 3 \/ y = 4 \/ y = 5
        \/ y = 6 \/ y = 7 \/ y = 8 \/ y = 9 \/ y = 10
    OBVIOUS
  <2> QED BY <2>1
<1>2. /\ recheck * a \in Int /\ recheck * a <= 10 * peak
      /\ peak * b \in Int /\ peak * b <= 10 * peak
  BY <1>1
<1> DEFINE x == recheck * a
           y == peak * b
<1> HIDE DEF x, y
<1>3. x \in Int /\ x <= 10 * peak /\ y \in Int /\ y <= 10 * peak
  BY <1>2 DEF x, y
<1>4. Max({x, y}) = IF x <= y THEN y ELSE x
  BY <1>3, LesserOf
<1>5. Max({x, y}) <= 10 * peak
  BY <1>3, <1>4
<1> QED BY <1>5 DEF x, y

\* The peak of a map is the score of one of its boxes.
LEMMA PeakBoxed ==
  ASSUME NEW map, Grid(DOMAIN map), \A c \in DOMAIN map : map[c] \in 0 .. 10,
         NEW recheck \in 0 .. 10, recheck <= Max(Range(map)),
         NEW m, Ratio(m.minRatio), Ratio(m.relative), NEW g
  PROVE  \E x \in AnomalyBoxes(map, recheck, m, g) : Max(Range(map)) <= x.score
<1> DEFINE peak == Max(Range(map))
           threshold == Max({recheck * m.minRatio, peak * m.relative})
           cells == {c \in DOMAIN map : 10 * map[c] >= threshold}
           score(C) == Max({map[c] : c \in C})
           rows == Max({c[1] : c \in DOMAIN map})
           columns == Max({c[2] : c \in DOMAIN map})
           inRegion(C) == <<(Min({c[2] : c \in C}) - 1) * g.width * rows,
                            (Min({c[1] : c \in C}) - 1) * g.height * columns,
                            Max({c[2] : c \in C}) * g.width * rows,
                            Max({c[1] : c \in C}) * g.height * columns>>
           box(C) == ToSource(inRegion(C), rows * columns, g)
<1>0. AnomalyBoxes(map, recheck, m, g) =
        {[score |-> score(C), box |-> box(C)] : C \in Components(cells)}
  BY DEF AnomalyBoxes
<1> HIDE DEF box
<1>1. PICK q \in DOMAIN map : map[q] = peak
  BY PeakTaken
<1>2. peak \in 0 .. 10
  BY <1>1
<1>3. threshold <= 10 * peak
  <2> HIDE DEF peak
  <2> QED BY <1>2, ThresholdReached DEF peak, Ratio
<1>4. q \in cells /\ \A c \in cells : IntPair(c)
  <2> HIDE DEF threshold, peak
  <2>1. 10 * map[q] >= threshold
    BY <1>1, <1>3
  <2> QED BY <2>1 DEF Grid
<1>5. cells \in SUBSET DOMAIN map
  OBVIOUS
<1> HIDE DEF cells
<1>6. PICK C \in Components(cells) : q \in C
  BY <1>4, CellInPart
<1>7. C \in SUBSET DOMAIN map
  BY <1>5, <1>6 DEF Components
<1>8. peak <= score(C)
  <2> DEFINE values == {map[c] : c \in C}
             f == [c \in C |-> map[c]]
  <2>1. IsFiniteSet(C)
    BY <1>7, FS_Subset DEF Grid
  <2>2. values = {f[c] : c \in DOMAIN f} /\ DOMAIN f = C
    OBVIOUS
  <2> HIDE DEF f
  <2>3. IsFiniteSet(values)
    BY <2>1, <2>2, ValuesFinite
  <2>4. values \in SUBSET Int /\ values # {} /\ map[q] \in values
    BY <1>6, <1>7
  <2> HIDE DEF values, peak
  <2>5. map[q] <= Max(values)
    BY <2>3, <2>4, FiniteLeast
  <2> QED BY <1>1, <2>5 DEF values
<1> HIDE DEF score, peak
<1>9. \E x \in AnomalyBoxes(map, recheck, m, g) : x.score = score(C)
  <2> DEFINE x == [score |-> score(C), box |-> box(C)]
  <2>1. x \in {[score |-> score(K), box |-> box(K)] : K \in Components(cells)}
    BY <1>6
  <2>2. x.score = score(C)
    OBVIOUS
  <2> HIDE DEF x
  <2> QED BY <1>0, <2>1, <2>2
<1> QED BY <1>8, <1>9 DEF peak

\* A calibrated score is a ratio.
LEMMA CalibratedRatio ==
  ASSUME NEW d \in Int, NEW bank, bank.mean \in Int, bank.p99 \in Int
  PROVE  CalibratedScore(d, bank) \in 0 .. 10
<1> DEFINE span == bank.p99 - bank.mean
           eighths == (4 * (d - bank.mean)) \div span
           curve == IF eighths = 0 THEN 0
                    ELSE IF eighths \in DOMAIN Tanh THEN Tanh[eighths] ELSE 10
<1>1. CalibratedScore(d, bank) =
        CASE d <= bank.mean -> 0 [] d > bank.mean /\ span <= 0 -> 10 [] OTHER -> curve
  BY DEF CalibratedScore
<1>2. curve \in 0 .. 10
  <2>1. \A i \in DOMAIN Tanh : Tanh[i] \in 0 .. 10
    BY DEF Tanh
  <2> HIDE DEF eighths
  <2> QED BY <2>1
<1> HIDE DEF curve, span
<1> QED BY <1>1, <1>2

\* What a model reports of the worst it saw: if that reaches the level, there is a
\* candidate that is as bad.
Reports(answer, worst, level) ==
  worst < level \/ \E i \in DOMAIN answer.candidates : worst <= answer.candidates[i].score

\* The stand-in model reports the suspicion it has.
LEMMA FakeReports ==
  ASSUME NEW m, m.fakeMode \in {"auto", "ok", "ng", "recheck"}, NEW g, NEW o,
         NEW level \in 0 .. 10
  PROVE  LET worst == IF m.fakeMode = "ng" THEN 9
                      ELSE IF m.fakeMode = "recheck" \/ (m.fakeMode = "auto" /\ o.bright)
                           THEN 2 ELSE -1
         IN  worst \in Int /\ Reports(RunFake(m, g, o), worst, level)
<1> DEFINE b == ToSource(<<0, 0, Min({8, g.width}) - 1, Min({8, g.height}) - 1>>, 1, g)
           one(score) == <<Candidate(g, score, b, RecipeThresholds)>>
           run == RunFake(m, g, o)
<1>1. run.candidates = CASE m.fakeMode = "ok" -> <<>>
                         [] m.fakeMode = "ng" -> one(9)
                         [] m.fakeMode = "recheck" -> one(2)
                         [] OTHER -> IF o.bright THEN one(2) ELSE <<>>
  BY DEF RunFake
<1> HIDE DEF b, run
<1>2. \A score \in Int : \E i \in DOMAIN one(score) : score <= one(score)[i].score
  <2> SUFFICES ASSUME NEW score \in Int
               PROVE  \E i \in DOMAIN one(score) : score <= one(score)[i].score
    OBVIOUS
  <2> DEFINE c == Candidate(g, score, b, RecipeThresholds)
  <2>1. c.score = score
    BY DEF Candidate
  <2> HIDE DEF c
  <2>2. 1 \in DOMAIN <<c>> /\ <<c>>[1] = c
    BY FewListed
  <2>3. \E i \in DOMAIN <<c>> : score <= <<c>>[i].score
    BY <2>1, <2>2
  <2> QED BY <2>3 DEF c
<1> HIDE DEF one
<1>3. CASE m.fakeMode = "ok"
  BY <1>3 DEF Reports
<1>4. CASE m.fakeMode = "ng"
  <2>1. run.candidates = one(9)
    BY <1>1, <1>4
  <2>2. Reports(run, 9, level)
    BY <1>2, <2>1 DEF Reports
  <2> QED BY <1>4, <2>2 DEF run
<1>5. CASE m.fakeMode = "recheck"
  <2>1. run.candidates = one(2)
    BY <1>1, <1>5
  <2>2. Reports(run, 2, level)
    BY <1>2, <2>1 DEF Reports
  <2> QED BY <1>5, <2>2 DEF run
<1>6. CASE m.fakeMode = "auto"
  <2>1. CASE o.bright
    <3>1. run.candidates = one(2)
      BY <1>1, <1>6, <2>1
    <3>2. Reports(run, 2, level)
      BY <1>2, <3>1 DEF Reports
    <3> QED BY <1>6, <2>1, <3>2 DEF run
  <2>2. CASE ~o.bright
    BY <1>6, <2>2 DEF Reports
  <2> QED BY <2>1, <2>2
<1> QED BY <1>3, <1>4, <1>5, <1>6

\* The detector reports its best row, unless it is below the model's threshold.
LEMMA OnnxReports ==
  ASSUME NEW m, Ratio(m.scoreThreshold), NEW g, NEW o,
         Listed(o.rows), \A row \in ToSet(o.rows) : row.score \in Int,
         RunOnnx(m, g, o).kind = "ok", NEW level \in 0 .. 10
  PROVE  LET worst == Max({o.rows[k].score : k \in DOMAIN o.rows} \cup {-1})
         IN  /\ worst \in Int
             /\ m.scoreThreshold > worst \/ Reports(RunOnnx(m, g, o), worst, level)
<1> DEFINE scores == {o.rows[k].score : k \in DOMAIN o.rows}
           worst == Max(scores \cup {-1})
           rows == DecodeRows(o, m.scoreThreshold, m.decode)
           kept == Confident(rows, m.scoreThreshold)
           run == RunOnnx(m, g, o)
           found(i) == Candidate(g, kept[i].score, DetectionBox(kept[i], m, g), RecipeThresholds)
<1>1. /\ rows # Absent /\ run.candidates = [i \in DOMAIN kept |-> found(i)]
  <2> DEFINE sound == /\ \A i \in DOMAIN rows : "score" \notin rows[i].nan /\ Ratio(rows[i].score)
                      /\ \A i \in DOMAIN kept : DetectionOK(kept[i], m, g)
             made == [i \in DOMAIN kept |-> found(i)]
  <2>1. run = IF m.decode = "none" \/ rows = Absent \/ ~sound THEN [kind |-> "error"]
              ELSE [kind |-> "ok", candidates |-> made]
    BY DEF RunOnnx
  <2>2. run.kind = "ok"
    OBVIOUS
  <2> HIDE DEF run, made, rows, kept
  <2>3. rows # Absent /\ run.candidates = made
    <3> HIDE DEF sound
    <3> QED BY <2>1, <2>2
  <2> QED BY <2>3 DEF made
<1>2. /\ Table(o.rows) /\ DOMAIN o.rows = 1 .. Len(o.rows) /\ Len(o.rows) \in Nat
      /\ \A k \in DOMAIN o.rows : o.rows[k].score \in Int
  BY ListedTable
<1>3. worst \in Int /\ worst \in scores \cup {-1}
  <2> DEFINE f == [k \in DOMAIN o.rows |-> o.rows[k].score]
  <2>1. scores = {f[k] : k \in DOMAIN f} /\ DOMAIN f = DOMAIN o.rows
    OBVIOUS
  <2> HIDE DEF f
  <2>2. IsFiniteSet(DOMAIN o.rows)
    <3>1. \A x, y \in Int : IsFiniteSet(x .. y)
      BY FS_Interval
    <3> QED BY <1>2, <3>1
  <2>3. IsFiniteSet(scores)
    BY <2>1, <2>2, ValuesFinite
  <2>4. scores \in SUBSET Int
    BY <1>2
  <2> HIDE DEF scores
  <2> DEFINE S == scores \cup {-1}
  <2>5. S \in SUBSET Int /\ S # {}
    BY <2>4
  <2>7. IsFiniteSet(S)
    BY <2>3, FS_AddElement
  <2> HIDE DEF S
  <2>6. Max(S) \in S
    BY <2>5, <2>7, FiniteLeast
  <2> QED BY <2>5, <2>6 DEF S
<1> HIDE DEF worst, run, found
<1>4. CASE worst = -1
  BY <1>4 DEF Reports, worst, run
<1>5. CASE worst \in scores
  <2>1. PICK k \in DOMAIN o.rows : worst = o.rows[k].score
    BY <1>5
  <2>2. CASE m.scoreThreshold > worst
    BY <1>3, <2>2 DEF worst
  <2>3. CASE ~(m.scoreThreshold > worst)
    <3>1. m.scoreThreshold \in Int /\ o.rows[k].score >= m.scoreThreshold
      BY <1>3, <2>1, <2>3 DEF Ratio
    <3>2. rows \in {o.rows, Confident(o.rows, m.scoreThreshold)}
      BY <1>1 DEF DecodeRows
    <3>3. Table(rows) /\ \E i \in DOMAIN rows : rows[i] = o.rows[k]
      BY <1>2, <3>1, <3>2, ConfidentTable
    <3> HIDE DEF rows
    <3>4. PICK i \in DOMAIN rows : rows[i] = o.rows[k]
      BY <3>3
    <3>5. \E j \in DOMAIN kept : kept[j] = rows[i]
      BY <3>1, <3>3, <3>4, ConfidentTable
    <3> HIDE DEF kept
    <3>6. PICK j \in DOMAIN kept : kept[j] = rows[i]
      BY <3>5
    <3>7. found(j).score = kept[j].score
      BY DEF found, Candidate
    <3>8. j \in DOMAIN run.candidates /\ run.candidates[j].score = worst
      BY <1>1, <2>1, <3>4, <3>6, <3>7
    <3>9. Reports(run, worst, level)
      BY <1>3, <3>8 DEF Reports
    <3> QED BY <1>3, <3>9 DEF worst, run
  <2> QED BY <2>2, <2>3
<1> QED BY <1>3, <1>4, <1>5 DEF worst, run

\* The patch model reports a patch as far off as its farthest one, if above its level.
LEMMA PatchesReport ==
  ASSUME NEW m, Ratio(m.minRatio), Ratio(m.relative), NEW assets,
         {assets.bank.mean, assets.bank.p99} \subseteq Int \cup {Absent},
         NEW g, GroupTyped(g), NEW o, Grid(DOMAIN o.distances),
         \A c \in DOMAIN o.distances : o.distances[c] \in Int \cup {Absent},
         RunPatchCore(m, assets, g, o).kind = "ok",
         \A i \in DOMAIN RunPatchCore(m, assets, g, o).candidates :
           RunPatchCore(m, assets, g, o).candidates[i].score \in Int
  PROVE  LET worst == Max({CalibratedScore(d, assets.bank) :
                             d \in Range(o.distances) \ {Absent}} \cup {-1})
         IN  /\ worst \in Int
             /\ Reports(RunPatchCore(m, assets, g, o), worst, assets.bank.thresholds.recheck)
<1> DEFINE problem == FirstFailure(AllConditions(m, assets))
           bank == assets.bank
           level == bank.thresholds.recheck
           cells == DOMAIN o.distances
           distances == Distances(o.distances, m, assets)
           finite == Absent \notin Range(distances)
           map == [cell \in DOMAIN distances |-> CalibratedScore(distances[cell], bank)]
           peak == Max(Range(map))
           boxes == AnomalyBoxes(map, bank.thresholds.recheck, m, g)
           spatial == {Candidate(g, x.score, x.box, bank.thresholds) : x \in boxes}
           globally == {Candidate(g, peak, g.box, bank.thresholds)}
           unsure == Candidate(g, Absent, g.box, bank.thresholds)
           some == IF peak < level THEN <<>> ELSE SetToSeq(IF m.spatial THEN spatial ELSE globally)
           run == RunPatchCore(m, assets, g, o)
           scores == {CalibratedScore(d, bank) : d \in Range(o.distances) \ {Absent}}
           worst == Max(scores \cup {-1})
<1>1. /\ problem = "ok" /\ finite /\ run.candidates = some
  <2>1. run = CASE problem # "ok" -> [kind |-> problem]
                [] problem = "ok" /\ ~finite /\ m.spatial -> [kind |-> "error"]
                [] problem = "ok" /\ ~finite /\ ~m.spatial ->
                     [kind |-> "ok", candidates |-> <<unsure>>]
                [] OTHER -> [kind |-> "ok", candidates |-> some]
    BY DEF RunPatchCore
  <2>2. run.kind = "ok" /\ \A i \in DOMAIN run.candidates : run.candidates[i].score \in Int
    OBVIOUS
  <2>3. unsure.score = Absent
    BY DEF Candidate
  <2> HIDE DEF run, problem, finite, unsure, some
  <2>4. problem = "ok"
    BY <2>1, <2>2
  <2>5. CASE finite
    BY <2>1, <2>4, <2>5
  <2>6. CASE ~finite
    <3>1. run.candidates = <<unsure>>
      BY <2>1, <2>2, <2>4, <2>6
    <3>2. DOMAIN <<unsure>> = {1} /\ <<unsure>>[1] = unsure
      BY FewListed
    <3>3. unsure.score \in Int
      BY <2>2, <3>1, <3>2
    <3> QED BY <2>3, <3>3, AbsentIsNoNumber
  <2> QED BY <2>4, <2>5, <2>6
<1>2. bank.mean \in Int /\ bank.p99 \in Int /\ level \in 0 .. 10
  BY <1>1, BankUsable DEF Ratio
<1>3. /\ DOMAIN distances = cells
      /\ \A c \in cells : /\ distances[c] \in Int
                          /\ o.distances[c] # Absent => distances[c] = o.distances[c]
  <2>1. /\ DOMAIN distances = cells
        /\ \A c \in cells : distances[c] = o.distances[c] \/ (o.distances[c] = Absent /\ distances[c] = 0)
    BY DEF Distances, IndexedDistances
  <2>2. \A c \in cells : distances[c] # Absent
    BY <1>1, <2>1 DEF Range
  <2> HIDE DEF distances
  <2> QED BY <2>1, <2>2
<1> HIDE DEF distances, some, run, problem, finite
<1>4. DOMAIN map = cells /\ \A c \in cells : map[c] = CalibratedScore(distances[c], bank)
  BY <1>3
<1> HIDE DEF map
<1>5. \A c \in cells : map[c] \in 0 .. 10
  BY <1>2, <1>3, <1>4, CalibratedRatio
<1>6. peak \in 0 .. 10 /\ \A c \in cells : map[c] <= peak
  <2>1. \A c \in DOMAIN map : map[c] \in Int
    BY <1>4, <1>5
  <2> QED BY <1>4, <1>5, <2>1, PeakTaken
<1>7. worst \in Int /\ worst <= peak
  <2>1. Range(o.distances) = {o.distances[c] : c \in cells}
    BY DEF Range
  <2>2. \A v \in scores : \E c \in cells : v = map[c]
    BY <1>3, <1>4, <2>1
  <2> DEFINE values == Range(o.distances)
             finites == values \ {Absent}
             f == [d \in finites |-> CalibratedScore(d, bank)]
  <2>3. IsFiniteSet(scores)
    <3>1. IsFiniteSet(values)
      BY <2>1, ValuesFinite DEF Grid
    <3>2. IsFiniteSet(finites)
      BY <3>1, FS_Subset
    <3>3. DOMAIN f = finites /\ scores = {f[d] : d \in DOMAIN f}
      OBVIOUS
    <3> HIDE DEF f, finites, scores
    <3> QED BY <3>2, <3>3, ValuesFinite
  <2> HIDE DEF scores, peak
  <2> DEFINE S == scores \cup {-1}
  <2>4. S \in SUBSET Int /\ S # {} /\ \A v \in S : v <= peak
    BY <1>5, <1>6, <2>2
  <2>5. IsFiniteSet(S)
    BY <2>3, FS_AddElement
  <2> HIDE DEF S
  <2>6. Max(S) \in S
    BY <2>4, <2>5, FiniteLeast
  <2> QED BY <2>4, <2>6 DEF S
<1> HIDE DEF worst, scores
<1>8. CASE peak < level
  <2>1. worst < level
    <3> HIDE DEF peak, level
    <3> QED BY <1>2, <1>6, <1>7, <1>8
  <2> QED BY <1>7, <2>1 DEF Reports, worst, run, scores
<1>9. CASE ~(peak < level)
  <2> DEFINE S == IF m.spatial THEN spatial ELSE globally
  <2>1. run.candidates = SetToSeq(S)
    BY <1>1, <1>9 DEF some
  <2>2. IsFiniteSet(S)
    <3>1. IsFiniteSet(boxes)
      BY <1>4, AnomaliesInside
    <3> DEFINE f == [x \in boxes |-> Candidate(g, x.score, x.box, bank.thresholds)]
    <3> HIDE DEF boxes
    <3>2. DOMAIN f = boxes /\ spatial = {f[x] : x \in DOMAIN f}
      OBVIOUS
    <3> HIDE DEF f
    <3>3. IsFiniteSet(spatial)
      BY <3>1, <3>2, ValuesFinite
    <3>4. IsFiniteSet(globally)
      BY FS_Singleton
    <3> QED BY <3>3, <3>4
  <2>3. \E c \in S : peak <= c.score
    <3>1. CASE m.spatial
      <4>1. level <= peak
        <5> HIDE DEF peak, level
        <5> QED BY <1>2, <1>6, <1>9
      <4>2. PICK x \in boxes : peak <= x.score
        BY <1>2, <1>4, <1>5, <4>1, PeakBoxed
      <4> DEFINE c == Candidate(g, x.score, x.box, bank.thresholds)
      <4>3. c \in spatial
        BY <4>2
      <4>4. c.score = x.score
        BY DEF Candidate
      <4> HIDE DEF c, spatial, peak
      <4> QED BY <3>1, <4>2, <4>3, <4>4
    <3>2. CASE ~m.spatial
      <4> DEFINE c == Candidate(g, peak, g.box, bank.thresholds)
      <4>1. c \in globally
        OBVIOUS
      <4>2. c.score = peak
        BY DEF Candidate
      <4> HIDE DEF c, globally, peak
      <4>3. peak <= peak
        BY <1>6
      <4> QED BY <3>2, <4>1, <4>2, <4>3
    <3> QED BY <3>1, <3>2
  <2> HIDE DEF S, peak
  <2>4. PICK c \in S : peak <= c.score
    BY <2>3
  <2>5. /\ DOMAIN SetToSeq(S) = 1 .. Cardinality(S)
        /\ \E i \in 1 .. Cardinality(S) : SetToSeq(S)[i] = c
    <3>1. SetToSeq(S) \in [1 .. Cardinality(S) -> S]
      BY <2>2, SetListed
    <3> QED BY <2>2, <3>1, SetListed
  <2>6. PICK i \in DOMAIN run.candidates : run.candidates[i] = c
    BY <2>1, <2>5
  <2>7. c.score \in Int
    BY <2>6 DEF run
  <2>8. worst <= run.candidates[i].score
    BY <1>6, <1>7, <2>4, <2>6, <2>7
  <2>9. Reports(run, worst, level)
    BY <2>8 DEF Reports
  <2> QED BY <1>7, <2>9 DEF worst, run, scores
<1> QED BY <1>8, <1>9

\* Each model reports, and its report is among the candidates.
LEMMA SuspicionsReported ==
  ASSUME AllMade, Typed, NEW k \in DOMAIN groups
  PROVE  /\ Suspicion(k) \in Int
         /\ \/ Suspicion(k) < RecheckLevel(k)
            \/ recipe.models[groups[k].key].scoreThreshold > Suspicion(k)
            \/ \E i \in DOMAIN candidates : /\ candidates[i].view = groups[k].view
                                            /\ candidates[i].roi = groups[k].roi
                                            /\ Suspicion(k) <= candidates[i].score
<1> DEFINE g == groups[k]
           m == recipe.models[g.key]
           assets == site.assets[g.key]
           bank == assets.bank
           o == observed[k]
           run == Answer(k)
           level == RecheckLevel(k)
<1>1. /\ g.key \in DOMAIN recipe.models /\ ModelChecks(m) /\ AnswerTyped(o, m) /\ GroupTyped(g)
  BY AnsweredTyped, GroupsShown
<1>2. /\ run.kind = "ok" /\ Finds(run, g, Carried(k))
      /\ \A n \in DOMAIN run.candidates :
           \E i \in DOMAIN candidates : candidates[i] = run.candidates[n]
  BY CandidatesFound, ModelFinds
<1>3. level \in 0 .. 10
  BY <1>2, LevelsKnown
<1>4. \A n \in DOMAIN run.candidates : run.candidates[n].score \in Int
  <2>1. \A i \in DOMAIN candidates : candidates[i].score \in Int
    BY DEF AllMade, FusedMade, Fuse, CandidateOK, Ratio
  <2> HIDE DEF run
  <2> QED BY <1>2, <2>1
<1>5. run = CASE m.backend = "fake" -> RunFake(m, g, o)
              [] m.backend = "onnx" -> IF assets.network THEN RunOnnx(m, g, o)
                                       ELSE [kind |-> "asset"]
              [] m.backend = "patchcore_knn" -> RunPatchCore(m, assets, g, o)
  BY DEF Answer, RunModel
<1>6. bank # Absent => {bank.mean, bank.p99} \subseteq Int \cup {Absent}
  BY <1>1, LoadedChecked DEF AllMade, RecipeLoaded, Typed, AssetsTyped
<1> DEFINE fakes == IF m.fakeMode = "ng" THEN 9
                    ELSE IF m.fakeMode = "recheck" \/ (m.fakeMode = "auto" /\ o.bright)
                         THEN 2 ELSE -1
           rowed == Max({o.rows[n].score : n \in DOMAIN o.rows} \cup {-1})
           patched == Max({CalibratedScore(d, bank) : d \in Range(o.distances) \ {Absent}} \cup {-1})
<1>7. Suspicion(k) = CASE m.backend = "fake" -> fakes [] m.backend = "onnx" -> rowed
                       [] m.backend = "patchcore_knn" -> patched
  BY DEF Suspicion
<1>8. level = IF m.backend = "patchcore_knn" THEN bank.thresholds.recheck
              ELSE recipe.threshold.recheck
  BY DEF RecheckLevel
<1> HIDE DEF run, level, fakes, rowed, patched, o, m, assets, bank
<1>9. /\ Suspicion(k) \in Int
      /\ m.scoreThreshold > Suspicion(k) \/ Reports(run, Suspicion(k), level)
  <2>1. CASE m.backend = "fake"
    <3>1. fakes \in Int /\ Reports(RunFake(m, g, o), fakes, level)
      BY <1>1, <1>3, FakeReports DEF ModelChecks, fakes
    <3> QED BY <1>5, <1>7, <2>1, <3>1
  <2>2. CASE m.backend = "onnx"
    <3>1. run = RunOnnx(m, g, o)
      <4>1. run = IF assets.network THEN RunOnnx(m, g, o) ELSE [kind |-> "asset"]
        BY <1>5, <2>2
      <4>2. [kind |-> "asset"].kind # "ok"
        OBVIOUS
      <4> QED BY <1>2, <4>1, <4>2
    <3>2. Listed(o.rows) /\ \A row \in ToSet(o.rows) : row.score \in Int
      BY <1>1, <2>2 DEF AnswerTyped
    <3>3. rowed \in Int /\ (m.scoreThreshold > rowed \/ Reports(RunOnnx(m, g, o), rowed, level))
      BY <1>1, <1>2, <1>3, <3>1, <3>2, OnnxReports DEF ModelChecks, rowed
    <3> QED BY <1>7, <2>2, <3>1, <3>3
  <2>3. CASE m.backend = "patchcore_knn"
    <3>1. run = RunPatchCore(m, assets, g, o)
      BY <1>5, <2>3
    <3>2. /\ Grid(DOMAIN o.distances)
          /\ \A c \in DOMAIN o.distances : o.distances[c] \in Int \cup {Absent}
      BY <1>1, <2>3 DEF AnswerTyped, Grid
    <3>3. bank # Absent
      <4>1. FirstFailure(AllConditions(m, assets)) = "ok"
        BY <1>2, <3>1 DEF RunPatchCore
      <4> QED BY <4>1, BankUsable DEF bank
    <3>4. patched \in Int /\ Reports(RunPatchCore(m, assets, g, o), patched, bank.thresholds.recheck)
      BY <1>1, <1>2, <1>4, <1>6, <3>1, <3>2, <3>3, PatchesReport DEF ModelChecks, patched, bank
    <3> QED BY <1>7, <1>8, <2>3, <3>1, <3>4
  <2> QED BY <1>1, <2>1, <2>2, <2>3 DEF ModelChecks
<1>10. CASE \E n \in DOMAIN run.candidates : Suspicion(k) <= run.candidates[n].score
  <2>1. PICK n \in DOMAIN run.candidates : Suspicion(k) <= run.candidates[n].score
    BY <1>10
  <2>2. PICK i \in DOMAIN candidates : candidates[i] = run.candidates[n]
    BY <1>2
  <2>3. candidates[i].view = g.view /\ candidates[i].roi = g.roi
    BY <1>2, <2>2 DEF Finds, Found
  <2> QED BY <1>9, <2>1, <2>2, <2>3
<1> QED BY <1>9, <1>10 DEF Reports, level, m

\* A distance that is no number stops the job where the search is exact: on a
\* grid at once (spatial_utils.py:145), for a whole region as a candidate whose
\* score compares with nothing (fusion_engine.py:109).
LEMMA UnmeasuredStops ==
  ASSUME AllMade, Typed, NEW k \in DOMAIN groups, Unsure(k)
  PROVE  ScoredByIndex(k)
<1> DEFINE g == groups[k]
           m == recipe.models[g.key]
           assets == site.assets[g.key]
           o == observed[k]
           run == Answer(k)
           unfit == Candidate(g, Absent, g.box, assets.bank.thresholds)
<1>1. m.backend = "patchcore_knn" /\ Absent \in Range(o.distances)
  BY DEF Unsure
<1>2. /\ run.kind = "ok"
      /\ \A n \in DOMAIN run.candidates :
           \E i \in DOMAIN candidates : candidates[i] = run.candidates[n]
  BY CandidatesFound
<1>3. \A i \in DOMAIN candidates : candidates[i].score \in Int
  BY DEF AllMade, FusedMade, Fuse, CandidateOK, Ratio
<1>4. run = RunPatchCore(m, assets, g, o)
  BY <1>1 DEF Answer, RunModel
<1>5. SUFFICES ASSUME ~(m.spatial /\ assets.faiss) PROVE FALSE
  BY DEF ScoredByIndex
<1>6. Distances(o.distances, m, assets) = o.distances
  BY <1>5 DEF Distances
<1> HIDE DEF run, m, assets, g, o, unfit
<1>7. \/ run.kind # "ok"
      \/ run = [kind |-> "ok", candidates |-> <<unfit>>]
  BY <1>1, <1>4, <1>6 DEF RunPatchCore, unfit
<1>8. 1 \in DOMAIN run.candidates /\ run.candidates[1] = unfit
  BY <1>2, <1>7
<1>9. unfit.score = Absent
  BY DEF unfit, Candidate
<1> QED BY <1>2, <1>3, <1>8, <1>9, AbsentIsNoNumber

\* SuspicionNotDropped: from the answer of a network to the verdict nothing that
\* is suspicious by the level of every model of its region is lost: decoding and
\* scoring (yolo_decode.py, patchcore.py), merging, which keeps the higher score
\* (fusion_engine.py:69), and filtering (defect_filter.py) all hand it on, so the
\* seat is not passed; nor is one with a distance that is no number, unless an
\* index was searched (patchcore.py:529).
THEOREM SuspicionIsNotDropped == Spec /\ []Typed => []SuspicionNotDropped
<1>1. ASSUME PipelineInv, MadeInv, Typed, stage = "done", verdict.decision = "OK",
             NEW i \in DOMAIN groups
      PROVE  \E k \in DOMAIN groups :
               /\ SameRegion(i, k)
               /\ \/ Suspicion(i) < RecheckLevel(k)
                  \/ recipe.models[groups[i].key].scoreThreshold > Suspicion(i)
  <2> DEFINE t == recipe.threshold
             kept == fused.kept
  <2>1. AllMade /\ verdict = Decide(fused, t)
    BY <1>1, JudgedMeansMade DEF Judged
  <2>2. Accounted(fused, Len(candidates), {candidates[n] : n \in DOMAIN candidates})
    BY <1>1, <2>1, FusedAccounts
  <2>3. /\ ~(fused.overflow > 0)
        /\ \A n \in DOMAIN kept : Judge(kept[n], t) \notin {"NG", "RECHECK"}
    <3> DEFINE bad == \E n \in DOMAIN kept : Judge(kept[n], t) = "NG"
               doubtful == \E n \in DOMAIN kept : Judge(kept[n], t) = "RECHECK"
               worst == IF bad THEN "NG" ELSE IF doubtful THEN "RECHECK" ELSE "OK"
               more == fused.overflow > 0
    <3>1. verdict.decision = IF more /\ worst = "OK" THEN "RECHECK" ELSE worst
      BY <2>1 DEF Decide
    <3>2. ~more /\ ~bad /\ ~doubtful
      <4> HIDE DEF more, bad, doubtful
      <4> QED BY <1>1, <3>1
    <3> QED BY <3>2
  <2>4. fused.overflow = 0
    BY <2>2, <2>3 DEF Accounted
  <2>5. CASE \E n \in DOMAIN candidates : /\ candidates[n].view = groups[i].view
                                          /\ candidates[n].roi = groups[i].roi
                                          /\ Suspicion(i) <= candidates[n].score
    <3>1. PICK n \in DOMAIN candidates : /\ candidates[n].view = groups[i].view
                                         /\ candidates[n].roi = groups[i].roi
                                         /\ Suspicion(i) <= candidates[n].score
      BY <2>5
    <3>2. Holds(kept, candidates[n])
      BY <2>2, <2>4 DEF Accounted
    <3>3. PICK q \in DOMAIN kept : /\ kept[q].view = groups[i].view /\ kept[q].roi = groups[i].roi
                                   /\ candidates[n].score <= kept[q].score
      BY <3>1, <3>2 DEF Holds
    <3> DEFINE c == kept[q]
    <3>4. Claimed(c)
      BY <2>2 DEF Accounted
    <3>5. Judge(c, t) \notin {"NG", "RECHECK"}
      BY <2>3
    <3> HIDE DEF c
    <3>6. PICK k \in DOMAIN groups : /\ groups[k].view = c.view /\ groups[k].roi = c.roi
                                     /\ RecheckLevel(k) = LevelOf(c) /\ RecheckLevel(k) \in Int
      BY <3>4 DEF Claimed
    <3>7. ~(c.score >= LevelOf(c))
      <4> DEFINE fatal == /\ c.score >= Given(c.ng, t.ng) /\ c.area >= t.minArea
                          /\ AspectOK(c.box, t)
                 seen == c.score >= LevelOf(c)
      <4>1. Judge(c, t) = CASE fatal -> "NG" [] ~fatal /\ seen -> "RECHECK" [] OTHER -> "pass"
        BY DEF Judge, LevelOf
      <4> HIDE DEF fatal, seen
      <4>2. ~seen
        BY <3>5, <4>1
      <4> QED BY <4>2 DEF seen
    <3>8. Suspicion(i) < RecheckLevel(k)
      <4>1. /\ Suspicion(i) \in Int /\ candidates[n].score \in Int /\ c.score \in Int
        BY <1>1, <2>1, <3>4, SuspicionsReported, FoundClaimed DEF Claimed
      <4>2. candidates[n].score <= c.score
        BY <3>3 DEF c
      <4> QED BY <3>1, <3>6, <3>7, <4>1, <4>2
    <3>9. SameRegion(i, k)
      BY <3>3, <3>6 DEF SameRegion, c
    <3> QED BY <3>8, <3>9
  <2>6. CASE ~\E n \in DOMAIN candidates : /\ candidates[n].view = groups[i].view
                                           /\ candidates[n].roi = groups[i].roi
                                           /\ Suspicion(i) <= candidates[n].score
    <3>1. \/ Suspicion(i) < RecheckLevel(i)
          \/ recipe.models[groups[i].key].scoreThreshold > Suspicion(i)
      BY <1>1, <2>1, <2>6, SuspicionsReported
    <3> QED BY <3>1 DEF SameRegion
  <2> QED BY <2>5, <2>6
<1>2. ASSUME PipelineInv, MadeInv, Typed, stage = "done", verdict.decision = "OK",
             NEW i \in DOMAIN groups, Unsure(i)
      PROVE  ScoredByIndex(i)
  BY <1>2, JudgedMeansMade, UnmeasuredStops DEF Judged
<1>3. PipelineInv /\ MadeInv /\ Typed => SuspicionNotDropped
  BY <1>1, <1>2 DEF SuspicionNotDropped
<1> QED BY <1>3, MadeAlways, PTL

\* The models that look at a region of a safety net are no less wary than it is,
\* and what it would not report is below its own level.
LevelsAgree ==
  \A i, k \in DOMAIN groups :
    LET m == recipe.models[groups[i].key]
    IN  (m.role = "safety_net" /\ SameRegion(i, k)) =>
          RecheckLevel(k) <= RecheckLevel(i) /\ m.scoreThreshold <= RecheckLevel(i)

\* SafetyNetNotAbsorbed, which does not hold of every recipe, holds where the
\* levels agree: merging, which keeps the levels of the higher score
\* (fusion_engine.py:69), can hide a safety net's finding only under a higher
\* recheck level of another model of the region.
THEOREM SafetyNetHolds == Spec /\ [](Typed /\ LevelsAgree) => []SafetyNetNotAbsorbed
<1>1. ASSUME PipelineInv, MadeInv, Typed, LevelsAgree, SuspicionNotDropped, stage = "done",
             verdict.decision = "OK", NEW i \in DOMAIN groups,
             recipe.models[groups[i].key].role = "safety_net"
      PROVE  Suspicion(i) < RecheckLevel(i)
  <2> DEFINE t == recipe.models[groups[i].key].scoreThreshold
  <2>1. AllMade
    BY <1>1, JudgedMeansMade DEF Judged
  <2>2. PICK k \in DOMAIN groups :
          /\ SameRegion(i, k)
          /\ Suspicion(i) < RecheckLevel(k) \/ t > Suspicion(i)
    BY <1>1 DEF SuspicionNotDropped
  <2>3. RecheckLevel(k) <= RecheckLevel(i) /\ t <= RecheckLevel(i)
    BY <1>1, <2>2 DEF LevelsAgree
  <2>4. Suspicion(i) \in Int /\ RecheckLevel(k) \in Int /\ RecheckLevel(i) \in Int
    BY <1>1, <2>1, SuspicionsReported, CandidatesFound, LevelsKnown
  <2>5. t \in Int
    BY <1>1, <2>1, AnsweredTyped DEF ModelChecks, Ratio
  <2> HIDE DEF t
  <2> QED BY <2>2, <2>3, <2>4, <2>5
<1>2. PipelineInv /\ MadeInv /\ Typed /\ LevelsAgree /\ SuspicionNotDropped => SafetyNetNotAbsorbed
  BY <1>1 DEF SafetyNetNotAbsorbed
<1> QED BY <1>2, MadeAlways, SuspicionIsNotDropped, PTL

-----------------------------------------------------------------------------
(***************************************************************************)
(* Causes.                                                                 *)
(***************************************************************************)

\* What a model's findings are not worse than, unless it was unsure of what it
\* saw, and the level they are rejected from.
Bounded(answer, worst, ng, unsure) ==
  \A i \in DOMAIN answer.candidates :
    /\ answer.candidates[i].ng = ng
    /\ answer.candidates[i].score <= worst \/ unsure

\* The stand-in model finds nothing worse than it suspects.
LEMMA FakeBounded ==
  ASSUME NEW m, m.fakeMode \in {"auto", "ok", "ng", "recheck"}, NEW g, NEW o, NEW unsure
  PROVE  LET worst == IF m.fakeMode = "ng" THEN 9
                      ELSE IF m.fakeMode = "recheck" \/ (m.fakeMode = "auto" /\ o.bright)
                           THEN 2 ELSE -1
         IN  Bounded(RunFake(m, g, o), worst, Absent, unsure)
<1> DEFINE b == ToSource(<<0, 0, Min({8, g.width}) - 1, Min({8, g.height}) - 1>>, 1, g)
           one(score) == <<Candidate(g, score, b, RecipeThresholds)>>
           run == RunFake(m, g, o)
<1>1. run.candidates = CASE m.fakeMode = "ok" -> <<>>
                         [] m.fakeMode = "ng" -> one(9)
                         [] m.fakeMode = "recheck" -> one(2)
                         [] OTHER -> IF o.bright THEN one(2) ELSE <<>>
  BY DEF RunFake
<1> HIDE DEF b, run
<1>2. ASSUME NEW score \in Int, run.candidates = one(score)
      PROVE  Bounded(run, score, Absent, unsure)
  <2> DEFINE c == Candidate(g, score, b, RecipeThresholds)
  <2>1. c.score = score /\ c.ng = Absent
    BY DEF Candidate, RecipeThresholds
  <2>2. run.candidates = <<c>>
    BY <1>2
  <2> HIDE DEF c
  <2>3. \A i \in DOMAIN run.candidates : run.candidates[i] = c
    BY <2>2, FewListed
  <2> QED BY <2>1, <2>3 DEF Bounded
<1>3. ASSUME NEW score, run.candidates = <<>>
      PROVE  Bounded(run, score, Absent, unsure)
  BY <1>3, FewListed DEF Bounded
<1> HIDE DEF one
<1>4. CASE m.fakeMode = "ok"
  BY <1>1, <1>3, <1>4 DEF run
<1>5. CASE m.fakeMode = "ng"
  BY <1>1, <1>2, <1>5 DEF run
<1>6. CASE m.fakeMode = "recheck"
  BY <1>1, <1>2, <1>6 DEF run
<1>7. CASE m.fakeMode = "auto"
  BY <1>1, <1>2, <1>3, <1>7 DEF run
<1> QED BY <1>4, <1>5, <1>6, <1>7

\* The detector finds nothing worse than its best row.
LEMMA OnnxBounded ==
  ASSUME NEW m, NEW g, NEW o, NEW unsure,
         Listed(o.rows), \A row \in ToSet(o.rows) : row.score \in Int,
         RunOnnx(m, g, o).kind = "ok"
  PROVE  Bounded(RunOnnx(m, g, o), Max({o.rows[k].score : k \in DOMAIN o.rows} \cup {-1}),
                 Absent, unsure)
<1> DEFINE scores == {o.rows[k].score : k \in DOMAIN o.rows}
           worst == Max(scores \cup {-1})
           rows == DecodeRows(o, m.scoreThreshold, m.decode)
           kept == Confident(rows, m.scoreThreshold)
           run == RunOnnx(m, g, o)
           found(i) == Candidate(g, kept[i].score, DetectionBox(kept[i], m, g), RecipeThresholds)
<1>1. /\ rows # Absent /\ run.candidates = [i \in DOMAIN kept |-> found(i)]
  <2> DEFINE sound == /\ \A i \in DOMAIN rows : "score" \notin rows[i].nan /\ Ratio(rows[i].score)
                      /\ \A i \in DOMAIN kept : DetectionOK(kept[i], m, g)
             made == [i \in DOMAIN kept |-> found(i)]
  <2>1. run = IF m.decode = "none" \/ rows = Absent \/ ~sound THEN [kind |-> "error"]
              ELSE [kind |-> "ok", candidates |-> made]
    BY DEF RunOnnx
  <2>2. run.kind = "ok"
    OBVIOUS
  <2> HIDE DEF run, made, rows, kept
  <2>3. rows # Absent /\ run.candidates = made
    <3> HIDE DEF sound
    <3> QED BY <2>1, <2>2
  <2> QED BY <2>3 DEF made
<1>2. /\ Table(o.rows) /\ DOMAIN o.rows = 1 .. Len(o.rows) /\ Len(o.rows) \in Nat
      /\ \A k \in DOMAIN o.rows : o.rows[k].score \in Int
  BY ListedTable
<1>3. \A v \in scores : v <= worst
  <2> DEFINE f == [k \in DOMAIN o.rows |-> o.rows[k].score]
  <2>1. scores = {f[k] : k \in DOMAIN f} /\ DOMAIN f = DOMAIN o.rows
    OBVIOUS
  <2> HIDE DEF f
  <2>2. IsFiniteSet(DOMAIN o.rows)
    <3>1. \A x, y \in Int : IsFiniteSet(x .. y)
      BY FS_Interval
    <3> QED BY <1>2, <3>1
  <2>3. IsFiniteSet(scores)
    BY <2>1, <2>2, ValuesFinite
  <2>4. scores \in SUBSET Int
    BY <1>2
  <2> HIDE DEF scores
  <2> DEFINE S == scores \cup {-1}
  <2>5. S \in SUBSET Int /\ S # {}
    BY <2>4
  <2>6. IsFiniteSet(S)
    BY <2>3, FS_AddElement
  <2> HIDE DEF S
  <2>7. \A v \in S : v <= Max(S)
    BY <2>5, <2>6, FiniteLeast
  <2> QED BY <2>7 DEF S
<1>4. ASSUME NEW i \in DOMAIN kept
      PROVE  kept[i].score \in scores
  <2>1. rows \in {o.rows, Confident(o.rows, m.scoreThreshold)}
    BY <1>1 DEF DecodeRows
  <2> HIDE DEF rows
  <2>2. Table(rows) /\ \A j \in DOMAIN rows : \E k \in DOMAIN o.rows : rows[j] = o.rows[k]
    <3> DEFINE all == o.rows
               taken(t) == Table(t) /\ \A j \in DOMAIN t : \E k \in DOMAIN all : t[j] = all[k]
    <3>1. taken(all)
      BY <1>2
    <3>2. taken(Confident(all, m.scoreThreshold))
      BY <1>2, ConfidentTable
    <3> HIDE DEF taken
    <3>3. taken(rows)
      BY <2>1, <3>1, <3>2
    <3> QED BY <3>3 DEF taken
  <2>3. PICK j \in DOMAIN rows : kept[i] = rows[j]
    BY <2>2, ConfidentTable
  <2> QED BY <2>2, <2>3
<1> HIDE DEF worst, scores, run, kept
<1>5. ASSUME NEW i \in DOMAIN run.candidates
      PROVE  run.candidates[i].ng = Absent /\ run.candidates[i].score <= worst
  <2>1. i \in DOMAIN kept /\ run.candidates[i] = found(i)
    BY <1>1
  <2>2. found(i).ng = Absent /\ found(i).score = kept[i].score
    BY DEF Candidate, RecipeThresholds
  <2> HIDE DEF found
  <2> QED BY <1>3, <1>4, <2>1, <2>2
<1> QED BY <1>5 DEF Bounded, worst, run, scores

\* The score of a box of an anomaly map is the greatest of some of its cells.
PeakOver(map, C) == Max({map[c] : c \in C})

LEMMA BoxOfPart ==
  ASSUME NEW map, NEW recheck, NEW m, NEW g
  PROVE  \A x \in AnomalyBoxes(map, recheck, m, g) :
           \E C \in SUBSET DOMAIN map : C # {} /\ x.score = PeakOver(map, C)
<1> DEFINE peak == Max(Range(map))
           threshold == Max({recheck * m.minRatio, peak * m.relative})
           rows == Max({c[1] : c \in DOMAIN map})
           columns == Max({c[2] : c \in DOMAIN map})
           cells == {c \in DOMAIN map : 10 * map[c] >= threshold}
           parts == Components(cells)
           inRegion(C) == <<(Min({c[2] : c \in C}) - 1) * g.width * rows,
                            (Min({c[1] : c \in C}) - 1) * g.height * columns,
                            Max({c[2] : c \in C}) * g.width * rows,
                            Max({c[1] : c \in C}) * g.height * columns>>
           box(C) == ToSource(inRegion(C), rows * columns, g)
           score(C) == PeakOver(map, C)
<1>1. AnomalyBoxes(map, recheck, m, g) = {[score |-> score(C), box |-> box(C)] : C \in parts}
  BY DEF AnomalyBoxes, PeakOver
<1>2. parts \in SUBSET SUBSET DOMAIN map /\ {} \notin parts
  <2>1. cells \in SUBSET DOMAIN map
    OBVIOUS
  <2> HIDE DEF cells
  <2> QED BY <2>1 DEF Components
<1> HIDE DEF box, parts, score
<1>3. \A x \in AnomalyBoxes(map, recheck, m, g) : \E C \in parts : x.score = score(C)
  BY <1>1
<1> QED BY <1>2, <1>3 DEF score

\* The patch model finds nothing worse than its farthest patch, when it knows how
\* far each is.
LEMMA PatchesBounded ==
  ASSUME NEW m, NEW assets,
         {assets.bank.mean, assets.bank.p99} \subseteq Int \cup {Absent},
         NEW g, GroupTyped(g), NEW o, Grid(DOMAIN o.distances),
         \A c \in DOMAIN o.distances : o.distances[c] \in Int \cup {Absent},
         RunPatchCore(m, assets, g, o).kind = "ok"
  PROVE  LET worst == Max({CalibratedScore(d, assets.bank) :
                             d \in Range(o.distances) \ {Absent}} \cup {-1})
         IN  Bounded(RunPatchCore(m, assets, g, o), worst, assets.bank.thresholds.ng,
                     Absent \in Range(o.distances))
<1> DEFINE problem == FirstFailure(AllConditions(m, assets))
           bank == assets.bank
           level == bank.thresholds.recheck
           ng == bank.thresholds.ng
           cells == DOMAIN o.distances
           distances == Distances(o.distances, m, assets)
           finite == Absent \notin Range(distances)
           map == [cell \in DOMAIN distances |-> CalibratedScore(distances[cell], bank)]
           peak == Max(Range(map))
           boxes == AnomalyBoxes(map, bank.thresholds.recheck, m, g)
           spatial == {Candidate(g, x.score, x.box, bank.thresholds) : x \in boxes}
           globally == {Candidate(g, peak, g.box, bank.thresholds)}
           unsure == Candidate(g, Absent, g.box, bank.thresholds)
           some == IF peak < level THEN <<>> ELSE SetToSeq(IF m.spatial THEN spatial ELSE globally)
           run == RunPatchCore(m, assets, g, o)
           scores == {CalibratedScore(d, bank) : d \in Range(o.distances) \ {Absent}}
           worst == Max(scores \cup {-1})
           gap == Absent \in Range(o.distances)
<1>1. /\ problem = "ok"
      /\ run.candidates = some \/ (~finite /\ run.candidates = <<unsure>>)
  <2>1. run = CASE problem # "ok" -> [kind |-> problem]
                [] problem = "ok" /\ ~finite /\ m.spatial -> [kind |-> "error"]
                [] problem = "ok" /\ ~finite /\ ~m.spatial ->
                     [kind |-> "ok", candidates |-> <<unsure>>]
                [] OTHER -> [kind |-> "ok", candidates |-> some]
    BY DEF RunPatchCore
  <2>2. run.kind = "ok"
    OBVIOUS
  <2> HIDE DEF run, problem, finite, unsure, some
  <2>3. problem = "ok"
    BY <2>1, <2>2
  <2>4. CASE finite
    BY <2>1, <2>3, <2>4
  <2>5. CASE ~finite
    BY <2>1, <2>2, <2>3, <2>5
  <2> QED BY <2>3, <2>4, <2>5
<1>2. bank.mean \in Int /\ bank.p99 \in Int
  BY <1>1, BankUsable
<1>3. /\ DOMAIN distances = cells
      /\ \A c \in cells : o.distances[c] # Absent => distances[c] = o.distances[c]
      /\ ~finite => gap
  <2>1. /\ DOMAIN distances = cells
        /\ \A c \in cells : distances[c] = o.distances[c] \/ (o.distances[c] = Absent /\ distances[c] = 0)
    BY DEF Distances, IndexedDistances
  <2> HIDE DEF distances
  <2>2. ASSUME Absent \in Range(distances)
        PROVE  gap
    <3>1. PICK c \in cells : distances[c] = Absent
      BY <2>1, <2>2 DEF Range
    <3>2. o.distances[c] = Absent
      BY <2>1, <3>1
    <3> QED BY <3>2 DEF Range
  <2>3. /\ DOMAIN distances = cells
        /\ \A c \in cells : o.distances[c] # Absent => distances[c] = o.distances[c]
    BY <2>1
  <2> HIDE DEF gap
  <2> QED BY <2>2, <2>3
<1> HIDE DEF some, run, problem, distances
<1>4. DOMAIN map = cells /\ \A c \in cells : map[c] = CalibratedScore(distances[c], bank)
  BY <1>3
<1>5. boxes = AnomalyBoxes(map, level, m, g) /\ peak = Max(Range(map))
  OBVIOUS
<1> HIDE DEF map
<1>6. ~gap => \A c \in cells : map[c] \in scores /\ map[c] \in Int
  <2> SUFFICES ASSUME ~gap, NEW c \in cells PROVE map[c] \in scores /\ map[c] \in Int
    OBVIOUS
  <2>1. o.distances[c] \in Range(o.distances) /\ o.distances[c] # Absent
    BY DEF Range
  <2>2. distances[c] = o.distances[c] /\ distances[c] \in Int
    BY <1>3, <2>1
  <2>3. map[c] = CalibratedScore(o.distances[c], bank) /\ map[c] \in Int
    BY <1>2, <1>4, <2>2, CalibratedRatio
  <2> QED BY <2>1, <2>3
<1>7. \A v \in scores : v <= worst
  <2> DEFINE finites == Range(o.distances) \ {Absent}
             f == [d \in finites |-> CalibratedScore(d, bank)]
  <2>1. Range(o.distances) = {o.distances[c] : c \in cells}
    BY DEF Range
  <2>2. \A d \in finites : CalibratedScore(d, bank) \in Int
    BY <1>2, <2>1, CalibratedRatio
  <2>3. IsFiniteSet(scores)
    <3>1. IsFiniteSet(Range(o.distances))
      BY <2>1, ValuesFinite DEF Grid
    <3>2. IsFiniteSet(finites)
      BY <3>1, FS_Subset
    <3>3. DOMAIN f = finites /\ scores = {f[d] : d \in DOMAIN f}
      OBVIOUS
    <3> HIDE DEF f, finites, scores
    <3> QED BY <3>2, <3>3, ValuesFinite
  <2>4. scores \in SUBSET Int
    BY <2>2
  <2> HIDE DEF scores
  <2> DEFINE S == scores \cup {-1}
  <2>5. S \in SUBSET Int /\ S # {}
    BY <2>4
  <2>6. IsFiniteSet(S)
    BY <2>3, FS_AddElement
  <2> HIDE DEF S
  <2>7. \A v \in S : v <= Max(S)
    BY <2>5, <2>6, FiniteLeast
  <2> QED BY <2>7 DEF S
<1> HIDE DEF worst, scores, gap
<1>8. ~gap => \A c \in cells : map[c] \in Int /\ map[c] <= worst
  BY <1>6, <1>7
<1>9. ~gap => peak <= worst
  <2> SUFFICES ASSUME ~gap PROVE peak <= worst
    OBVIOUS
  <2>1. PICK c \in DOMAIN map : map[c] = peak
    BY <1>4, <1>5, <1>8, PeakTaken
  <2> QED BY <1>4, <1>8, <2>1
<1>10. IsFiniteSet(boxes)
  BY <1>4, <1>5, AnomaliesInside
<1> HIDE DEF peak
<1>11. ~gap => \A x \in boxes : x.score <= worst
  <2> SUFFICES ASSUME ~gap, NEW x \in boxes PROVE x.score <= worst
    OBVIOUS
  <2>1. \E C \in SUBSET cells : C # {} /\ x.score = PeakOver(map, C)
    <3> HIDE DEF level, cells
    <3>1. \A y \in AnomalyBoxes(map, level, m, g) :
            \E C \in SUBSET DOMAIN map : C # {} /\ y.score = PeakOver(map, C)
      BY BoxOfPart
    <3>2. x \in AnomalyBoxes(map, level, m, g) /\ DOMAIN map = cells
      BY <1>4, <1>5
    <3> HIDE DEF boxes
    <3> QED BY <3>1, <3>2
  <2>2. PICK C \in SUBSET cells : C # {} /\ x.score = Max({map[c] : c \in C})
    BY <2>1 DEF PeakOver
  <2> DEFINE f == [c \in C |-> map[c]]
             S == {map[c] : c \in C}
  <2>3. S = {f[c] : c \in DOMAIN f} /\ DOMAIN f = C
    OBVIOUS
  <2>4. IsFiniteSet(C)
    BY FS_Subset DEF Grid
  <2> HIDE DEF f
  <2>5. IsFiniteSet(S)
    BY <2>3, <2>4, ValuesFinite
  <2>6. S \in SUBSET Int /\ S # {} /\ \A v \in S : v <= worst
    BY <1>8, <2>2
  <2> HIDE DEF S
  <2>7. Max(S) \in S
    BY <2>5, <2>6, FiniteLeast
  <2> QED BY <2>2, <2>6, <2>7 DEF S
<1> HIDE DEF boxes
<1> DEFINE fits(c) == c.ng = ng /\ (c.score <= worst \/ gap)
<1>12. IsFiniteSet(spatial) /\ \A c \in spatial : fits(c)
  <2> DEFINE f == [x \in boxes |-> Candidate(g, x.score, x.box, bank.thresholds)]
  <2>1. DOMAIN f = boxes /\ spatial = {f[x] : x \in DOMAIN f}
    OBVIOUS
  <2>2. \A x : Candidate(g, x.score, x.box, bank.thresholds).score = x.score
               /\ Candidate(g, x.score, x.box, bank.thresholds).ng = ng
    BY DEF Candidate
  <2>3. \A c \in spatial : fits(c)
    BY <1>11, <2>2
  <2> HIDE DEF f, fits
  <2> QED BY <1>10, <2>1, <2>3, ValuesFinite
<1>13. IsFiniteSet(globally) /\ \A c \in globally : fits(c)
  <2>1. /\ Candidate(g, peak, g.box, bank.thresholds).score = peak
        /\ Candidate(g, peak, g.box, bank.thresholds).ng = ng
    BY DEF Candidate
  <2>2. IsFiniteSet(globally)
    BY FS_Singleton
  <2> QED BY <1>9, <2>1, <2>2
<1>14. CASE ~finite /\ run.candidates = <<unsure>>
  <2>1. gap /\ unsure.ng = ng
    BY <1>3, <1>14 DEF Candidate
  <2> HIDE DEF unsure, ng
  <2>2. \A i \in DOMAIN run.candidates : run.candidates[i] = unsure
    BY <1>14, FewListed
  <2> QED BY <2>1, <2>2 DEF Bounded, run, worst, scores, gap, ng
<1> HIDE DEF spatial, globally
<1>15. CASE run.candidates = some
  <2> DEFINE S == IF m.spatial THEN spatial ELSE globally
  <2>1. run.candidates = <<>> \/ run.candidates = SetToSeq(S)
    BY <1>15 DEF some
  <2>2. IsFiniteSet(S) /\ \A c \in S : fits(c)
    BY <1>12, <1>13
  <2> HIDE DEF S, fits
  <2>3. SetToSeq(S) \in [1 .. Cardinality(S) -> S]
    BY <2>2, SetListed
  <2>4. \A i \in DOMAIN run.candidates : fits(run.candidates[i])
    BY <2>1, <2>2, <2>3, FewListed
  <2> QED BY <2>4 DEF Bounded, run, worst, scores, gap, fits
<1> QED BY <1>1, <1>14, <1>15

\* Every candidate bears the level of the model that found it, and is no worse
\* than what that model saw.
LEMMA CandidatesBounded ==
  ASSUME AllMade, Typed, NEW i \in DOMAIN candidates
  PROVE  \E k \in DOMAIN groups :
           /\ NgLevel(k) = Given(candidates[i].ng, recipe.threshold.ng)
           /\ NgLevel(k) \in Int /\ Suspicion(k) \in Int
           /\ candidates[i].score <= Suspicion(k) \/ Unsure(k)
<1>1. PICK k \in DOMAIN groups :
        /\ Answer(k).kind = "ok"
        /\ \E n \in DOMAIN Answer(k).candidates : candidates[i] = Answer(k).candidates[n]
  BY CandidatesFound
<1> DEFINE g == groups[k]
           m == recipe.models[g.key]
           assets == site.assets[g.key]
           bank == assets.bank
           o == observed[k]
           run == Answer(k)
           ng == NgLevel(k)
<1>2. PICK n \in DOMAIN run.candidates : candidates[i] = run.candidates[n]
  BY <1>1
<1>3. /\ g.key \in DOMAIN recipe.models /\ ModelChecks(m) /\ AnswerTyped(o, m) /\ GroupTyped(g)
  BY AnsweredTyped, GroupsShown
<1>4. run = CASE m.backend = "fake" -> RunFake(m, g, o)
              [] m.backend = "onnx" -> IF assets.network THEN RunOnnx(m, g, o)
                                       ELSE [kind |-> "asset"]
              [] m.backend = "patchcore_knn" -> RunPatchCore(m, assets, g, o)
  BY DEF Answer, RunModel
<1>5. bank # Absent => {bank.mean, bank.p99} \subseteq Int \cup {Absent}
  BY <1>3, LoadedChecked DEF AllMade, RecipeLoaded, Typed, AssetsTyped
<1>6. recipe.threshold.ng \in Int
  BY DEF AllMade, RecipeLoaded, Accepted, ThresholdChecks, Ratio, RecipeOf
<1> DEFINE fakes == IF m.fakeMode = "ng" THEN 9
                    ELSE IF m.fakeMode = "recheck" \/ (m.fakeMode = "auto" /\ o.bright)
                         THEN 2 ELSE -1
           rowed == Max({o.rows[q].score : q \in DOMAIN o.rows} \cup {-1})
           patched == Max({CalibratedScore(d, bank) : d \in Range(o.distances) \ {Absent}} \cup {-1})
<1>7. Suspicion(k) = CASE m.backend = "fake" -> fakes [] m.backend = "onnx" -> rowed
                       [] m.backend = "patchcore_knn" -> patched
  BY DEF Suspicion
<1>8. ng = IF m.backend = "patchcore_knn" THEN bank.thresholds.ng ELSE recipe.threshold.ng
  BY DEF NgLevel
<1>9. Suspicion(k) \in Int
  BY SuspicionsReported
<1>10. Unsure(k) <=> m.backend = "patchcore_knn" /\ Absent \in Range(o.distances)
  BY DEF Unsure
<1> DEFINE own == IF m.backend = "patchcore_knn" THEN bank.thresholds.ng ELSE Absent
<1> HIDE DEF run, ng, fakes, rowed, patched, o, m, assets, bank
<1>11. /\ Bounded(run, Suspicion(k), own, Unsure(k))
       /\ m.backend = "patchcore_knn" => bank.thresholds.ng \in Int
  <2>1. CASE m.backend = "fake"
    <3>1. Bounded(RunFake(m, g, o), fakes, Absent, Unsure(k))
      BY <1>3, FakeBounded DEF ModelChecks, fakes
    <3> QED BY <1>4, <1>7, <2>1, <3>1
  <2>2. CASE m.backend = "onnx"
    <3>1. run = RunOnnx(m, g, o)
      <4>1. run = IF assets.network THEN RunOnnx(m, g, o) ELSE [kind |-> "asset"]
        BY <1>4, <2>2
      <4>2. [kind |-> "asset"].kind # "ok" /\ run.kind = "ok"
        BY <1>1 DEF run
      <4> QED BY <4>1, <4>2
    <3>2. Listed(o.rows) /\ \A row \in ToSet(o.rows) : row.score \in Int
      BY <1>3, <2>2 DEF AnswerTyped
    <3>3. RunOnnx(m, g, o).kind = "ok"
      BY <1>1, <3>1 DEF run
    <3>4. Bounded(RunOnnx(m, g, o), rowed, Absent, Unsure(k))
      BY <3>2, <3>3, OnnxBounded DEF rowed
    <3> QED BY <1>7, <2>2, <3>1, <3>4
  <2>3. CASE m.backend = "patchcore_knn"
    <3>1. run = RunPatchCore(m, assets, g, o) /\ run.kind = "ok"
      BY <1>1, <1>4, <2>3 DEF run
    <3>2. /\ Grid(DOMAIN o.distances)
          /\ \A c \in DOMAIN o.distances : o.distances[c] \in Int \cup {Absent}
      BY <1>3, <2>3 DEF AnswerTyped, Grid
    <3>3. bank # Absent /\ bank.thresholds.ng \in Int
      <4>1. FirstFailure(AllConditions(m, assets)) = "ok"
        BY <3>1 DEF RunPatchCore
      <4> QED BY <4>1, BankUsable DEF bank, Ratio
    <3>4. Bounded(RunPatchCore(m, assets, g, o), patched, bank.thresholds.ng,
                  Absent \in Range(o.distances))
      BY <1>3, <1>5, <3>1, <3>2, <3>3, PatchesBounded DEF patched, bank
    <3>5. Unsure(k) <=> Absent \in Range(o.distances)
      BY <1>10, <2>3
    <3>6. Bounded(RunPatchCore(m, assets, g, o), patched, bank.thresholds.ng, Unsure(k))
      BY <3>4, <3>5 DEF Bounded
    <3> QED BY <1>7, <2>3, <3>1, <3>3, <3>6
  <2> QED BY <1>3, <2>1, <2>2, <2>3 DEF ModelChecks
<1>12. /\ candidates[i].ng = own
       /\ candidates[i].score <= Suspicion(k) \/ Unsure(k)
  BY <1>2, <1>11 DEF Bounded
<1>13. ng = Given(own, recipe.threshold.ng) /\ ng \in Int
  <2>1. m.backend = "patchcore_knn" => bank.thresholds.ng # Absent
    BY <1>11, AbsentIsNoNumber
  <2> QED BY <1>6, <1>8, <1>11, <2>1 DEF Given
<1> HIDE DEF own
<1> QED BY <1>9, <1>12, <1>13 DEF ng

\* RejectedForACause: a seat is rejected for what is kept with a score that
\* reaches its own NG level (defect_filter.py); merging hands both on together
\* (fusion_engine.py:69), so that one model saw as much by its own level.
THEOREM RejectsHaveCauses == Spec /\ []Typed => []RejectedForACause
<1>1. ASSUME PipelineInv, MadeInv, Typed, stage = "done", verdict.decision = "NG"
      PROVE  \E k \in DOMAIN groups : Suspicion(k) >= NgLevel(k) \/ Unsure(k)
  <2> DEFINE t == recipe.threshold
             kept == fused.kept
  <2>1. AllMade /\ verdict = Decide(fused, t)
    BY <1>1, JudgedMeansMade DEF Judged
  <2>2. \E q \in DOMAIN kept : Judge(kept[q], t) = "NG"
    <3> DEFINE bad == \E q \in DOMAIN kept : Judge(kept[q], t) = "NG"
               doubtful == \E q \in DOMAIN kept : Judge(kept[q], t) = "RECHECK"
               worst == IF bad THEN "NG" ELSE IF doubtful THEN "RECHECK" ELSE "OK"
               more == fused.overflow > 0
    <3>1. verdict.decision = IF more /\ worst = "OK" THEN "RECHECK" ELSE worst
      BY <2>1 DEF Decide
    <3>2. bad
      <4> HIDE DEF more, bad, doubtful
      <4> QED BY <1>1, <3>1
    <3> QED BY <3>2
  <2>3. PICK q \in DOMAIN kept : Judge(kept[q], t) = "NG"
    BY <2>2
  <2> DEFINE c == kept[q]
  <2>4. Claimed(c)
    BY <1>1, <2>1, FusedAccounts DEF Accounted
  <2>5. c.score >= Given(c.ng, t.ng)
    BY <2>3 DEF Judge
  <2>6. PICK i \in DOMAIN candidates : c.score = candidates[i].score /\ c.ng = candidates[i].ng
    BY <2>4 DEF Claimed
  <2>7. PICK k \in DOMAIN groups :
          /\ NgLevel(k) = Given(candidates[i].ng, t.ng)
          /\ NgLevel(k) \in Int /\ Suspicion(k) \in Int
          /\ candidates[i].score <= Suspicion(k) \/ Unsure(k)
    BY <1>1, <2>1, CandidatesBounded
  <2>8. c.score \in Int
    BY <2>4 DEF Claimed
  <2> HIDE DEF c, kept, t
  <2> QED BY <2>5, <2>6, <2>7, <2>8
<1>2. PipelineInv /\ MadeInv /\ Typed => RejectedForACause
  BY <1>1 DEF RejectedForACause
<1> QED BY <1>2, MadeAlways, PTL

-----------------------------------------------------------------------------
(***************************************************************************)
(* Installations in order.                                                 *)
(***************************************************************************)

InstallationsInOrder == \A x \in Installations : InOrder(x)

\* What a job that nothing is wrong with may fail of.
Excused ==
  \/ verdict.code = "DeviceFault"
  \/ groups # <<>> /\ Infer(groups, recipe, site, observed).kind = "error"
  \/ Fuse(candidates, recipe.fusion) = Absent
  \/ fused # Absent /\ fused.overflow > 0

\* The inductive invariant: without a fault the installation is as it was, and
\* a job that failed is excused from when it has a verdict.
SoundInv ==
  /\ installed \in Installations
  /\ faults = 0 => /\ document = installed.document /\ site = installed.site
                   /\ job = installed.job
  /\ (stage \in {"trace", "done"} /\ faults = 0 /\ verdict.code # "None") => Excused

\* A model that is installed answers, or answers something that cannot be used.
LEMMA InstalledAnswers ==
  ASSUME NEW g, NEW o, ModelChecks(recipe.models[g.key]),
         ModelInstalled(recipe.models[g.key], site.assets[g.key])
  PROVE  RunModel(g, recipe, site, o).kind \in {"ok", "error"}
<1> DEFINE m == recipe.models[g.key]
           assets == site.assets[g.key]
           run == RunModel(g, recipe, site, o)
<1>1. run = CASE m.backend = "fake" -> RunFake(m, g, o)
              [] m.backend = "onnx" -> IF assets.network THEN RunOnnx(m, g, o)
                                       ELSE [kind |-> "asset"]
              [] m.backend = "patchcore_knn" -> RunPatchCore(m, assets, g, o)
  BY DEF RunModel
<1>2. m.backend \in {"fake", "onnx", "patchcore_knn"}
  BY DEF ModelChecks
<1>3. /\ m.backend = "onnx" => assets.network
      /\ m.backend = "patchcore_knn" => FirstFailure(AllConditions(m, assets)) = "ok"
  BY DEF ModelInstalled
<1> HIDE DEF m, assets, run
<1>4. CASE m.backend = "fake"
  BY <1>1, <1>4 DEF RunFake, run
<1>5. CASE m.backend = "onnx"
  <2>1. RunOnnx(m, g, o).kind \in {"ok", "error"}
    BY DEF RunOnnx
  <2> QED BY <1>1, <1>3, <1>5, <2>1 DEF run
<1>6. CASE m.backend = "patchcore_knn"
  <2> DEFINE problem == FirstFailure(AllConditions(m, assets))
             finite == Absent \notin Range(Distances(o.distances, m, assets))
  <2>1. problem = "ok"
    BY <1>3, <1>6
  <2>2. RunPatchCore(m, assets, g, o).kind =
          CASE problem # "ok" -> problem
            [] problem = "ok" /\ ~finite /\ m.spatial -> "error"
            [] problem = "ok" /\ ~finite /\ ~m.spatial -> "ok"
            [] OTHER -> "ok"
    BY DEF RunPatchCore
  <2> HIDE DEF problem, finite
  <2>3. RunPatchCore(m, assets, g, o).kind \in {"ok", "error"}
    BY <2>1, <2>2
  <2> QED BY <1>1, <1>6, <2>3 DEF run
<1> QED BY <1>2, <1>4, <1>5, <1>6

\* Whatever the networks answer, with every model installed inference makes
\* candidates or ends for an answer that cannot be used.
LEMMA InstalledInfers ==
  ASSUME RecipeLoaded, PreparedMade, CubesMade, GroupsMade, Typed, NEW seen,
         \A key \in DOMAIN recipe.models : ModelInstalled(recipe.models[key], site.assets[key]),
         Infer(groups, recipe, site, seen).kind # "ok"
  PROVE  groups # <<>> /\ Infer(groups, recipe, site, seen).kind = "error"
<1> DEFINE answer == [i \in DOMAIN groups |-> RunModel(groups[i], recipe, site, seen[i])]
           failed == {i \in DOMAIN groups : answer[i].kind # "ok"}
           run == Infer(groups, recipe, site, seen)
           all == [kind |-> "ok",
                   candidates |-> FlattenSeq([i \in DOMAIN answer |-> answer[i].candidates])]
<1>1. run = IF failed # {} THEN answer[Min(failed)] ELSE all
  BY DEF Infer
<1>2. all.kind = "ok" /\ run.kind # "ok"
  OBVIOUS
<1>3. \A i \in DOMAIN groups : answer[i].kind \in {"ok", "error"}
  BY GroupsKeyed, InstalledAnswers
<1>4. failed \in SUBSET DOMAIN groups /\ \A i \in failed : answer[i].kind # "ok"
  OBVIOUS
<1> HIDE DEF answer, failed, run, all
<1>5. failed # {} /\ run = answer[Min(failed)]
  BY <1>1, <1>2
<1>6. Len(groups) \in Nat /\ DOMAIN groups = 1 .. Len(groups)
  BY GroupsKeyed, LenProperties
<1>7. Min(failed) \in failed
  <2>1. \A x, y \in Int : IsFiniteSet(x .. y)
    BY FS_Interval
  <2>2. IsFiniteSet(DOMAIN groups)
    BY <1>6, <2>1
  <2>3. IsFiniteSet(failed) /\ failed \in SUBSET Int
    BY <1>4, <1>6, <2>2, FS_Subset
  <2> QED BY <1>5, <2>3, FiniteLeast
<1>8. run.kind = "error"
  BY <1>3, <1>4, <1>5, <1>7
<1>9. groups # <<>>
  BY <1>4, <1>5, FewListed
<1> QED BY <1>8, <1>9 DEF run

\* Without a fault a stage has before it what it had when the installation was
\* found to be in order.
LEMMA SoundStages ==
  ASSUME InstallationsInOrder, SoundInv, RecipeLoaded, faults = 0
  PROVE  /\ RecipeKnown /\ GatePasses(job, recipe)
         /\ \A i \in DOMAIN job.bundles : Prepare(job.bundles[i], recipe, site).kind = "ok"
         /\ PreparedMade => LET shown == Cubes(prepared, recipe, site)
                            IN  /\ \A i \in DOMAIN shown : shown[i].pass
                                /\ cubes = shown => FeatureGroups(cubes, recipe) # Absent
         /\ \A key \in DOMAIN recipe.models : ModelInstalled(recipe.models[key], site.assets[key])
<1> DEFINE ready == [i \in DOMAIN job.bundles |-> Prepare(job.bundles[i], recipe, site)]
<1>1. InOrder(installed) /\ document = installed.document /\ site = installed.site
      /\ job = installed.job /\ recipe = RecipeOf(document)
  BY DEF InstallationsInOrder, SoundInv, RecipeLoaded
<1>2. /\ job.recipe = recipe.id /\ GatePasses(job, recipe)
      /\ \A i \in DOMAIN ready : ready[i].kind = "ok"
      /\ \A i \in DOMAIN Cubes(ready, recipe, site) : Cubes(ready, recipe, site)[i].pass
      /\ FeatureGroups(Cubes(ready, recipe, site), recipe) # Absent
      /\ \A key \in DOMAIN recipe.models : ModelInstalled(recipe.models[key], site.assets[key])
  BY <1>1 DEF InOrder
<1>3. PreparedMade => prepared = ready
  BY DEF PreparedMade
<1>4. \A i \in DOMAIN job.bundles : Prepare(job.bundles[i], recipe, site).kind = "ok"
  BY <1>2
<1> HIDE DEF ready
<1> QED BY <1>2, <1>3, <1>4 DEF RecipeKnown

LEMMA SoundInit == Init => SoundInv
BY DEF Init, SoundInv

\* No step of a job that nothing is wrong with ends it without an excuse.
LEMMA SoundNext ==
  InstallationsInOrder /\ PipelineInv /\ MadeInv /\ Typed /\ SoundInv /\ [Next]_vars => SoundInv'
<1> SUFFICES ASSUME InstallationsInOrder, PipelineInv, MadeInv, Typed, SoundInv, [Next]_vars
             PROVE  SoundInv'
  OBVIOUS
<1>0. TypeOK
  BY DEF PipelineInv
<1>1. CASE EditRecipe \/ LoseFile \/ DisturbJob
  <2>1. faults' = faults + 1 /\ installed' = installed
    BY <1>1 DEF EditRecipe, LoseFile, DisturbJob, Fault
  <2>2. faults' # 0
    BY <1>0, <2>1 DEF TypeOK
  <2> QED BY <2>1, <2>2 DEF SoundInv
<1>2. CASE RefuseRecipes
  BY <1>2 DEF RefuseRecipes, SoundInv
<1>3. ASSUME UNCHANGED given,
             \/ stage' \notin {"trace", "done"}
             \/ faults = 0 => (verdict'.code # "None" => Excused')
      PROVE  SoundInv'
  BY <1>3 DEF given, SoundInv
<1>4. CASE StartDetector \/ Submit \/ NextJob
  <2>1. UNCHANGED given /\ stage' \notin {"trace", "done"}
    BY <1>4 DEF StartDetector, Submit, NextJob
  <2> QED BY <1>3, <2>1
<1>5. ASSUME NEW to, to \notin {"trace", "done"}, Continue(to) PROVE SoundInv'
  BY <1>3, <1>5 DEF Continue
<1>6. ASSUME NEW v, EndWith(v), faults = 0 => (verdict'.code # "None" => Excused') PROVE SoundInv'
  BY <1>3, <1>6 DEF EndWith
<1>7. stage # "stopped" => RecipeLoaded
  BY DEF MadeInv
<1>8. CASE LoadRecipe
  <2>1. stage = "recipe" /\ (Continue("gate") \/ (~RecipeKnown /\ EndWith(InternalError)))
    BY <1>8 DEF LoadRecipe
  <2>2. faults = 0 => RecipeKnown
    BY <1>7, <2>1, SoundStages
  <2> QED BY <1>5, <1>6, <2>1, <2>2
<1>9. CASE CheckQuality
  <2>1. stage = "gate"
        /\ (Continue("preprocess") \/ (~GatePasses(job, recipe) /\ EndWith(QualityFailed)))
    BY <1>9 DEF CheckQuality
  <2>2. faults = 0 => GatePasses(job, recipe)
    BY <1>7, <2>1, SoundStages
  <2> QED BY <1>5, <1>6, <2>1, <2>2
<1>10. CASE Preprocess
  <2> DEFINE bundles == [i \in DOMAIN job.bundles |-> Prepare(job.bundles[i], recipe, site)]
             failed == {i \in DOMAIN bundles : bundles[i].kind # "ok"}
             v == Handled(bundles[Min(failed)].kind)
  <2>1. stage = "preprocess" /\ (Continue("register") \/ (failed # {} /\ EndWith(v)))
    BY <1>10 DEF Preprocess
  <2>2. faults = 0 => failed = {}
    BY <1>7, <2>1, SoundStages
  <2> HIDE DEF failed, v
  <2> QED BY <1>5, <1>6, <2>1, <2>2
<1>11. CASE Register
  <2>1. /\ stage = "register" /\ cubes' = Cubes(prepared, recipe, site)
        /\ Continue("features") \/ (EndWith(QualityFailed) /\ ~\A i \in DOMAIN cubes' : cubes'[i].pass)
    BY <1>11 DEF Register
  <2>2. PreparedMade
    BY <2>1 DEF MadeInv, Reached, Gated
  <2>3. faults = 0 => \A i \in DOMAIN cubes' : cubes'[i].pass
    BY <1>7, <2>1, <2>2, SoundStages
  <2> QED BY <1>5, <1>6, <2>1, <2>3
<1>12. CASE BuildFeatures
  <2>1. /\ stage = "features"
        /\ Continue("infer") \/ (FeatureGroups(cubes, recipe) = Absent /\ EndWith(InternalError))
    BY <1>12 DEF BuildFeatures
  <2>2. PreparedMade /\ cubes = Cubes(prepared, recipe, site)
    BY <2>1 DEF MadeInv, Reached, Gated, CubesMade
  <2>3. faults = 0 => FeatureGroups(cubes, recipe) # Absent
    BY <1>7, <2>1, <2>2, SoundStages
  <2> QED BY <1>5, <1>6, <2>1, <2>3
<1>13. CASE InferDefects
  <2> DEFINE answer == Infer(groups, recipe, site, observed')
  <2>1. /\ stage = "infer" /\ UNCHANGED <<recipe, groups>>
        /\ Continue("fuse") \/ (answer.kind # "ok" /\ EndWith(Handled(answer.kind)))
    BY <1>13 DEF InferDefects
  <2>2. RecipeLoaded /\ PreparedMade /\ CubesMade /\ GroupsMade
    BY <1>7, <2>1 DEF MadeInv, Reached, Gated
  <2>3. ASSUME answer.kind # "ok", EndWith(Handled(answer.kind)), faults = 0
        PROVE  Excused'
    <3>1. \A key \in DOMAIN recipe.models : ModelInstalled(recipe.models[key], site.assets[key])
      BY <2>2, <2>3, SoundStages
    <3>2. groups # <<>> /\ answer.kind = "error"
      BY <2>2, <2>3, <3>1, InstalledInfers
    <3>3. Infer(groups, recipe, site, observed)' = answer
      BY <2>1, <2>3 DEF EndWith, given
    <3> HIDE DEF answer
    <3> QED BY <2>1, <3>2, <3>3 DEF Excused
  <2> HIDE DEF answer
  <2> QED BY <1>5, <1>6, <2>1, <2>3
<1>14. CASE FuseCandidates
  <2>1. /\ stage = "fuse" /\ UNCHANGED <<recipe, candidates>>
        /\ Continue("decide") \/ (Fuse(candidates, recipe.fusion) = Absent /\ EndWith(InternalError))
    BY <1>14 DEF FuseCandidates
  <2>2. Fuse(candidates, recipe.fusion) = Absent => Excused'
    BY <2>1 DEF Excused
  <2> QED BY <1>5, <1>6, <2>1, <2>2
<1>15. CASE DecideVerdict
  <2> DEFINE v == Decide(fused, recipe.threshold)
  <2>1. stage = "decide" /\ EndWith(v) /\ fused' = fused /\ verdict' = v
    BY <1>15 DEF DecideVerdict, EndWith
  <2>2. fused # Absent
    BY <2>1 DEF MadeInv, Reached, FusedMade
  <2>3. v.code # "None" => fused.overflow > 0
    BY DEF Decide
  <2> HIDE DEF v
  <2>4. verdict'.code # "None" => Excused'
    BY <2>1, <2>2, <2>3 DEF Excused
  <2> QED BY <1>6, <2>1, <2>4
<1>16. CASE WriteTrace
  <2>1. /\ stage = "trace" /\ UNCHANGED <<given, recipe, groups, observed, candidates, fused>>
        /\ verdict' = verdict \/ verdict' = Untraced(verdict)
    BY <1>16 DEF WriteTrace
  <2>2. CASE verdict' = verdict
    <3>1. (faults = 0 /\ verdict.code # "None") => Excused
      BY <2>1 DEF SoundInv
    <3>2. Excused' = Excused
      <4>1. Infer(groups, recipe, site, observed)' = Infer(groups, recipe, site, observed)
        BY <2>1 DEF given
      <4> QED BY <2>1, <2>2, <4>1 DEF Excused
    <3> QED BY <1>3, <2>1, <2>2, <3>1, <3>2
  <2>3. CASE verdict' = Untraced(verdict)
    <3>1. verdict \in Protocol!Verdict
      BY <1>0, <2>1 DEF TypeOK
    <3>2. verdict'.code = "DeviceFault"
      BY <2>3, <3>1 DEF Untraced, Protocol!Verdict
    <3>3. Excused'
      BY <3>2 DEF Excused
    <3> QED BY <1>3, <2>1, <3>3
  <2> QED BY <2>1, <2>2, <2>3
<1>17. CASE UNCHANGED vars
  <2>1. /\ UNCHANGED <<given, stage, verdict, recipe, groups, observed, candidates, fused>>
    BY <1>17 DEF vars
  <2>2. Infer(groups, recipe, site, observed)' = Infer(groups, recipe, site, observed)
    BY <2>1 DEF given
  <2>3. Excused' = Excused
    BY <2>1, <2>2 DEF Excused
  <2> QED BY <2>1, <2>3 DEF given, SoundInv
<1> QED BY <1>1, <1>2, <1>4, <1>8, <1>9, <1>10, <1>11, <1>12, <1>13, <1>14, <1>15, <1>16, <1>17
        DEF Next, Process

\* SoundJobJudged: where the installations are in order a job nothing is wrong
\* with fails only of an answer that cannot be used, of an overflow or of a
\* record that cannot be written: the pipeline (pipeline.py) hands every stage
\* what the stages before it made, and no stage meets anything stale.
THEOREM SoundJobsAreJudged ==
  Spec /\ InstallationsInOrder /\ []Typed => []SoundJobJudged
<1> SUFFICES ASSUME InstallationsInOrder PROVE Spec /\ []Typed => []SoundJobJudged
  OBVIOUS
<1>1. SoundInv => SoundJobJudged
  BY DEF SoundInv, Excused, SoundJobJudged
<1>2. PipelineInv /\ MadeInv /\ Typed /\ SoundInv /\ [Next]_vars => SoundInv'
  BY SoundNext
<1> QED BY <1>1, <1>2, SoundInit, MadeAlways, PTL DEF Spec
=============================================================================
