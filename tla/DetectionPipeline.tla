-------------------------- MODULE DetectionPipeline --------------------------
(***************************************************************************)
(* One job on its way through the detector: SeatSurfaceAoiAlgorithm        *)
(* .process, InspectionPipeline.process and the trace record               *)
(* DetectorMain._process_and_publish writes before it publishes            *)
(* (python_detector/algorithm.py, pipeline/pipeline.py, detector_main.py). *)
(*                                                                         *)
(* Up to MaxFaults things go wrong with an installation that is in order:  *)
(* somebody edits the recipe, a frame of the jobs to come is disturbed, a  *)
(* file of the installation is lost.  The recipes are read when the        *)
(* detector starts, and calibrations and models are kept once they are     *)
(* read, so files change before the detector starts.  What the networks    *)
(* answer is not determined either.                                        *)
(***************************************************************************)
EXTENDS DefectDecision

CONSTANTS
  Installations,     \* [document, site, job] that are in order
  Edits(_),          \* documents one edit away from a document
  Disturbances(_),   \* jobs one disturbance away from a job
  Losses(_),         \* sites one loss away from a site
  Observations(_),   \* what the network behind a model may answer
  MaxFaults          \* bound on edits, disturbances and losses

ASSUME MaxFaultsAssumption == MaxFaults \in Nat

Protocol == INSTANCE SlotProtocol
              WITH SlotCount <- 1, Tags <- {1}, NoTag <- 0, PipelineVerdicts <- {}

ASSUME AbsentAssumption == Absent \notin Protocol!Verdict
ASSUME AbsentIsNoNumber == Absent \notin Int

VARIABLES
  stage,       \* the step that comes next; "idle" before and "done" after a job
  installed,   \* the installation as it is in order
  document, site, job, faults,
  recipe,      \* the recipe the detector has loaded, Absent until it starts
  prepared,    \* list[PreparedBundle]
  cubes,       \* list[ReflectanceCube]
  groups,      \* list[FeatureGroup]
  observed,    \* what the networks answered to each group
  candidates,  \* list[DefectCandidate]
  fused,       \* FusedResult
  verdict      \* InspectionResult, Absent until there is one

given == <<installed, document, site, job, faults>>
vars == <<stage, given, recipe, prepared, cubes, groups, observed, candidates, fused, verdict>>

Stages == {"stopped", "idle", "recipe", "gate", "preprocess", "register", "features",
           "infer", "fuse", "decide", "trace", "done"}

Init ==
  /\ stage = "stopped" /\ faults = 0
  /\ installed \in Installations
  /\ document = installed.document /\ site = installed.site /\ job = installed.job
  /\ recipe = Absent /\ verdict = Absent /\ fused = Absent
  /\ prepared = <<>> /\ cubes = <<>> /\ groups = <<>>
  /\ observed = <<>> /\ candidates = <<>>

-----------------------------------------------------------------------------
(* What may be wrong when the detector starts or a job arrives. *)

Fault(when) ==
  /\ stage = when /\ faults < MaxFaults
  /\ faults' = faults + 1
  /\ UNCHANGED <<stage, installed, recipe, prepared, cubes, groups, observed, candidates,
                 fused, verdict>>

EditRecipe == Fault("stopped") /\ document' \in Edits(document) /\ UNCHANGED <<site, job>>
LoseFile == Fault("stopped") /\ site' \in Losses(site) /\ UNCHANGED <<document, job>>
DisturbJob == Fault("idle") /\ job' \in Disturbances(job) /\ UNCHANGED <<document, site>>

\* RecipeManager._load_recipe_dir.  With a recipe that is not accepted the
\* detector does not start until somebody has put the recipe in order.
StartDetector ==
  /\ stage = "stopped" /\ Accepted(document)
  /\ stage' = "idle" /\ recipe' = RecipeOf(document)
  /\ UNCHANGED <<given, prepared, cubes, groups, observed, candidates, fused, verdict>>

RefuseRecipes ==
  /\ stage = "stopped" /\ ~Accepted(document)
  /\ document' = installed.document
  /\ UNCHANGED <<stage, installed, site, job, faults, recipe, prepared, cubes, groups, observed,
                 candidates, fused, verdict>>

Submit ==
  /\ stage = "idle" /\ stage' = "recipe"
  /\ UNCHANGED <<given, recipe, prepared, cubes, groups, observed, candidates, fused, verdict>>

-----------------------------------------------------------------------------
(* The pipeline.  A step leaves what it makes and names the next one, or   *)
(* ends the job with a verdict, for a return or an exception handler.      *)

Continue(to) == stage' = to /\ UNCHANGED <<given, verdict>>

EndWith(v) == stage' = "trace" /\ verdict' = v /\ UNCHANGED given

\* The handlers of InspectionPipeline.process.  The images are good enough by
\* then, so a missing model file leaves quality_pass set.
Handled(kind) ==
  CASE kind = "recheck" -> QualityFailed
    [] kind = "asset" -> AssetUnavailable(TRUE)
    [] OTHER -> InternalError

RecipeKnown == job.recipe = recipe.id

\* Mutant: a job whose recipe is not known skips to the trace without an answer.
LoadRecipeUnanswered ==
  /\ stage = "recipe"
  /\ IF RecipeKnown THEN Continue("gate") ELSE Continue("trace")
  /\ UNCHANGED <<recipe, prepared, cubes, groups, observed, candidates, fused>>

\* RecipeManager.load; without a recipe SeatSurfaceAoiAlgorithm.process gives up.
LoadRecipe ==
  /\ stage = "recipe"
  /\ \/ RecipeKnown /\ Continue("gate")
     \/ ~RecipeKnown /\ EndWith(InternalError)
  /\ UNCHANGED <<recipe, prepared, cubes, groups, observed, candidates, fused>>

CheckQuality ==
  /\ stage = "gate"
  /\ \/ GatePasses(job, recipe) /\ Continue("preprocess")
     \/ ~GatePasses(job, recipe) /\ EndWith(QualityFailed)
  /\ UNCHANGED <<recipe, prepared, cubes, groups, observed, candidates, fused>>

\* The first bundle that cannot be prepared ends the job.
Preprocess ==
  /\ stage = "preprocess"
  /\ \E bundles \in {[i \in DOMAIN job.bundles |-> Prepare(job.bundles[i], recipe, site)]} :
       LET failed == {i \in DOMAIN bundles : bundles[i].kind # "ok"}
       IN  \/ failed = {} /\ Continue("register") /\ prepared' = bundles
           \/ /\ failed # {} /\ EndWith(Handled(bundles[Min(failed)].kind))
              /\ UNCHANGED prepared
  /\ UNCHANGED <<recipe, cubes, groups, observed, candidates, fused>>

Register ==
  /\ stage = "register"
  /\ cubes' = Cubes(prepared, recipe, site)
  /\ LET pass == \A i \in DOMAIN cubes' : cubes'[i].pass
     IN  \/ pass /\ Continue("features")
         \/ ~pass /\ EndWith(QualityFailed)
  /\ UNCHANGED <<recipe, prepared, groups, observed, candidates, fused>>

BuildFeatures ==
  LET built == FeatureGroups(cubes, recipe)
  IN  /\ stage = "features"
      /\ \/ built # Absent /\ Continue("infer") /\ groups' = built
         \/ built = Absent /\ EndWith(InternalError) /\ UNCHANGED groups
      /\ UNCHANGED <<recipe, prepared, cubes, observed, candidates, fused>>

\* One answer for each group, the same for the same model.
Answers ==
  LET keys == {groups[i].key : i \in DOMAIN groups}
      possible == UNION {Observations(recipe.models[key]) : key \in keys}
      sensible(f) == \A key \in keys : f[key] \in Observations(recipe.models[key])
  IN  {[i \in DOMAIN groups |-> f[groups[i].key]] : f \in {g \in [keys -> possible] : sensible(g)}}

InferDefects ==
  /\ stage = "infer"
  /\ observed' \in Answers
  /\ LET answer == Infer(groups, recipe, site, observed')
     IN  \/ /\ answer.kind = "ok" /\ Continue("fuse")
            /\ candidates' = answer.candidates
         \/ /\ answer.kind # "ok" /\ EndWith(Handled(answer.kind))
            /\ UNCHANGED candidates
  /\ UNCHANGED <<recipe, prepared, cubes, groups, fused>>

FuseCandidates ==
  LET result == Fuse(candidates, recipe.fusion)
  IN  /\ stage = "fuse"
      /\ \/ result # Absent /\ Continue("decide") /\ fused' = result
         \/ result = Absent /\ EndWith(InternalError) /\ UNCHANGED fused
      /\ UNCHANGED <<recipe, prepared, cubes, groups, observed, candidates>>

DecideVerdict ==
  /\ stage = "decide"
  /\ EndWith(Decide(fused, recipe.threshold))
  /\ UNCHANGED <<recipe, prepared, cubes, groups, observed, candidates, fused>>

-----------------------------------------------------------------------------
\* TraceWriter._should_write; a ratio of OK results is kept by a hash of the
\* job, so for a ratio between none and all either may happen.
TraceChoices(v, t) ==
  CASE ~t.enabled -> {FALSE}
    [] t.enabled /\ v.decision = "OK" ->
         IF t.saveOk <= 0 THEN {FALSE} ELSE IF t.saveOk >= 10 THEN {TRUE} ELSE BOOLEAN
    [] t.enabled /\ v.decision = "NG" -> {t.saveNg}
    [] OTHER -> {t.saveRecheck}

\* _write_result_trace: a verdict that cannot be recorded is not given.
Untraced(v) == [v EXCEPT !.decision = "RECHECK", !.quality = FALSE, !.code = "DeviceFault"]

\* The recipe is looked up once more here, so a job whose recipe is not known
\* ends as one whose trace could not be written.
WriteTrace ==
  /\ stage = "trace" /\ stage' = "done"
  /\ \/ ~RecipeKnown /\ verdict' = Untraced(verdict)
     \/ /\ RecipeKnown
        /\ \E write \in TraceChoices(verdict, recipe.trace) :
             \/ verdict' = verdict
             \/ write /\ verdict' = Untraced(verdict)
  /\ UNCHANGED <<given, recipe, prepared, cubes, groups, observed, candidates, fused>>

Process ==
  \/ LoadRecipe \/ CheckQuality \/ Preprocess \/ Register \/ BuildFeatures
  \/ InferDefects \/ FuseCandidates \/ DecideVerdict \/ WriteTrace

\* run_forever: what the pipeline made for this job is dropped, and the next one
\* may come.
NextJob ==
  /\ stage = "done" /\ stage' = "idle"
  /\ verdict' = Absent /\ fused' = Absent
  /\ prepared' = <<>> /\ cubes' = <<>> /\ groups' = <<>>
  /\ observed' = <<>> /\ candidates' = <<>>
  /\ UNCHANGED <<given, recipe>>

Next ==
  \/ EditRecipe \/ LoseFile \/ DisturbJob \/ StartDetector \/ RefuseRecipes
  \/ Submit \/ Process \/ NextJob

Spec == Init /\ [][Next]_vars

-----------------------------------------------------------------------------
(***************************************************************************)
(* The types of what is given: what the parsers of recipes, calibrations,  *)
(* frames and network outputs build, whatever the files and the networks   *)
(* say.  The theorems about data take Typed as their hypothesis.           *)
(***************************************************************************)

Listed(s) == s \in Seq(ToSet(s))

IntPair(p) == p[1] \in Int /\ p[2] \in Int
IntBox(b) == \A i \in 1 .. 4 : b[i] \in Int

\* What the runtime of a model hands over: a table of rows, or a distance for
\* every patch of a grid.
AnswerTyped(o, m) ==
  /\ m.backend = "onnx" => Listed(o.rows) /\ \A row \in ToSet(o.rows) : row.score \in Int
  /\ m.backend = "patchcore_knn" =>
       LET cells == DOMAIN o.distances
       IN  /\ IsFiniteSet(cells) /\ cells # {}
           /\ \A c \in cells : IntPair(c) /\ c[1] > 0 /\ c[2] > 0
           /\ \A c \in cells : o.distances[c] \in Int \cup {Absent}

DocumentTyped(d) ==
  /\ Absent \notin DOMAIN d.models \cup {"default"}
  /\ Listed(d.roi.classes)
  /\ d.roi.inputWidth \in Nat /\ d.roi.inputHeight \in Nat
  /\ {"method", "searchRadius", "maxIterations", "epsilon", "minCorrelation"}
       \subseteq DOMAIN d.registration
  /\ d.registration.searchRadius \in Int /\ d.registration.maxIterations \in Int
  /\ d.registration.epsilon \in Int
  /\ "maxError" \in DOMAIN d.quality /\ d.quality.maxError \in Int
  /\ Accepted(d) =>
       \A key \in DOMAIN Models(d) :
         \A o \in Observations(Models(d)[key]) : AnswerTyped(o, Models(d)[key])

RegionTyped(region) ==
  /\ Listed(region.polygon) /\ IntPair(region.size)
  /\ \A p \in ToSet(region.polygon) : IntPair(p)

RowTyped(row) ==
  /\ IntBox(row.box) /\ IntPair(row.mask.grid)
  /\ row.mask.grid[1] > 0 /\ row.mask.grid[2] > 0
  /\ row.mask.cells = Absent \/ IntBox(row.mask.cells)

SiteTyped(s) ==
  /\ \A key \in DOMAIN s.calibrations :
       \/ s.calibrations[key] = Absent
       \/ {"camera", "id", "width", "height", "alignment", "regions"}
            \subseteq DOMAIN s.calibrations[key]
  /\ \A key \in DOMAIN s.templates :
       LET regions == s.templates[key]
       IN  regions = Absent
             \/ (IsFiniteSet(DOMAIN regions) /\ \A name \in DOMAIN regions : RegionTyped(regions[name]))
  /\ \A camera \in DOMAIN s.roiOutput :
       /\ Listed(s.roiOutput[camera].rows)
       /\ \A row \in ToSet(s.roiOutput[camera].rows) : RowTyped(row)

JobTyped(j, s) ==
  /\ Listed(j.bundles)
  /\ \A i \in DOMAIN j.bundles :
       LET b == j.bundles[i]
       IN  /\ b.camera \in DOMAIN s.roiOutput
           /\ \A l \in DOMAIN b.frames :
                LET f == b.frames[l]
                IN  IntPair(f.offset) /\ f.width \in Int /\ f.height \in Int

\* Of every model of the recipe it is known which of its files there are.
AssetsTyped(d, s) ==
  Accepted(d) =>
    \A key \in DOMAIN Models(d) :
      /\ key \in DOMAIN s.assets
      /\ s.assets[key].bank # Absent =>
           {s.assets[key].bank.mean, s.assets[key].bank.p99} \subseteq Int \cup {Absent}

Typed ==
  DocumentTyped(document) /\ SiteTyped(site) /\ JobTyped(job, site) /\ AssetsTyped(document, site)

\* Of a model the files are there that its backend reads, and they fit.
ModelInstalled(m, assets) ==
  /\ m.backend = "onnx" => assets.network
  /\ m.backend = "patchcore_knn" => FirstFailure(AllConditions(m, assets)) = "ok"

\* An installation in order: the recipe is accepted and is the job's, the images
\* are good, there is a calibration and every region is found, the lights are in
\* register, every channel can be built and every model is installed.
InOrder(x) ==
  LET r == RecipeOf(x.document)
      ready == [i \in DOMAIN x.job.bundles |-> Prepare(x.job.bundles[i], r, x.site)]
      shown == Cubes(ready, r, x.site)
  IN  /\ Accepted(x.document) /\ x.job.recipe = r.id /\ GatePasses(x.job, r)
      /\ \A i \in DOMAIN ready : ready[i].kind = "ok"
      /\ \A i \in DOMAIN shown : shown[i].pass
      /\ FeatureGroups(shown, r) # Absent
      /\ \A key \in DOMAIN r.models : ModelInstalled(r.models[key], x.site.assets[key])

-----------------------------------------------------------------------------
(***************************************************************************)
(* Properties                                                              *)
(***************************************************************************)

\* Type correctness of what the pipeline keeps.
TypeOK ==
  /\ stage \in Stages
  /\ faults \in 0 .. MaxFaults
  /\ verdict = Absent \/ verdict \in Protocol!Verdict
  /\ stage = "stopped" => recipe = Absent
  /\ stage \in {"trace", "done"} <=> verdict # Absent

Judged == stage = "done" /\ verdict.decision \in {"OK", "NG"}

\* Whatever goes wrong, the verdict is one that validate_detector_result of the
\* controller accepts (station_controller.cpp): the detector never answers with
\* an OK that has defects, an ERROR without a code, ...  This is what
\* InspectionStation assumes of PipelineVerdicts.
VerdictAcceptable == stage = "done" => Protocol!Acceptable(verdict)

\* The recipe asks for this view, or for none of the camera but its default one,
\* which any pose of the camera satisfies.
Seen(view) ==
  \E i \in DOMAIN job.bundles :
    LET b == job.bundles[i]
    IN  /\ b.camera = view[1]
        /\ view[1] = view[2] \/ b.pose = view[2]

\* Every view of the recipe was photographed under every required light with
\* usable images.
SeenInFull ==
  /\ \A view \in Views(recipe) : Seen(view)
  /\ \A i \in DOMAIN job.bundles :
       \A l \in ToSet(recipe.quality.required) :
         LET frames == job.bundles[i].frames
         IN  /\ l \in DOMAIN frames
             /\ frames[l].mean \in recipe.quality.minMean .. recipe.quality.maxMean
             /\ frames[l].bytes >= frames[l].stride * frames[l].height

\* Every region of every view's template was shown to the primary model and,
\* where there is one, to the safety net, on images of the calibration they are
\* mapped with.
ShownInFull ==
  \A i \in DOMAIN job.bundles :
    LET b == job.bundles[i]
        c == CameraRecipe(recipe, ViewOf(b))
    IN  /\ \A l \in ToSet(recipe.quality.required) : b.frames[l].calibration = c.calibration
        /\ \A name \in DOMAIN site.templates[c.template], role \in {"primary", "safety_net"} :
             (role = "safety_net" => name \in DOMAIN c.roiSafetyNets \/ c.safetyNet # Absent)
               => \E k \in DOMAIN groups :
                    /\ groups[k].view = ViewOf(b) /\ groups[k].roi = name
                    /\ recipe.models[groups[k].key].role = role

\* An OK or NG is never given on part of the seat.
JudgedInFull == Judged => SeenInFull /\ ShownInFull

\* The images of a view that was judged belong together: one exposure series of
\* a robot that stood still.
OneShot ==
  Judged =>
    \A i \in DOMAIN job.bundles :
      \A k, l \in ToSet(recipe.quality.required) :
        k # l =>
          LET a == job.bundles[i].frames[k]
              b == job.bundles[i].frames[l]
          IN  /\ a.shot = b.shot /\ a.robotTime = b.robotTime
              /\ AbsDifference(a.time, b.time) <= recipe.quality.maxSpan
              /\ a.seq # b.seq

\* What registration by ECC promises: in a judged job every light of a region
\* shows the same place as the base light, as near as the correlation asked for
\* can tell, and was moved by no more than the error allowed.
LightsInRegister ==
  (Judged /\ recipe.registration.method = "ecc") =>
    \A i \in DOMAIN cubes :
      LET frames == cubes[i].frames
          before(l) == (CHOOSE b \in ToSet(prepared) : b.view = cubes[i].view).rois[cubes[i].roi][l]
      IN  \A l \in DOMAIN frames :
            LET d == Displacement(frames[cubes[i].base], frames[l])
                moved == Displacement(frames[l], before(l))
            IN  /\ AbsDifference(d[1], 0) + AbsDifference(d[2], 0)
                     <= 10 - recipe.registration.minCorrelation
                /\ Magnitude2(moved) <= recipe.quality.maxError * recipe.quality.maxError

-----------------------------------------------------------------------------
(* Suspicion: how bad the networks' answers look, in tenths, read straight  *)
(* off the answer; a model that saw nothing is below every level.           *)

Suspicion(i) ==
  LET m == recipe.models[groups[i].key]
      o == observed[i]
      bank == site.assets[groups[i].key].bank
  IN  CASE m.backend = "fake" ->
             IF m.fakeMode = "ng" THEN 9
             ELSE IF m.fakeMode = "recheck" \/ (m.fakeMode = "auto" /\ o.bright) THEN 2 ELSE -1
        [] m.backend = "onnx" -> Max({o.rows[k].score : k \in DOMAIN o.rows} \cup {-1})
        [] m.backend = "patchcore_knn" ->
             Max({CalibratedScore(d, bank) : d \in Range(o.distances) \ {Absent}} \cup {-1})

\* The level from which the model's findings are to be looked at.
RecheckLevel(i) ==
  IF recipe.models[groups[i].key].backend = "patchcore_knn"
  THEN site.assets[groups[i].key].bank.thresholds.recheck
  ELSE recipe.threshold.recheck

SameRegion(i, k) == groups[i].view = groups[k].view /\ groups[i].roi = groups[k].roi

\* Patches whose distance was not a number: what they show is anybody's guess.
Unsure(i) ==
  /\ recipe.models[groups[i].key].backend = "patchcore_knn"
  /\ Absent \in Range(observed[i].distances)

\* A spatial model whose index is there scores such a patch as a perfect one.
ScoredByIndex(i) ==
  recipe.models[groups[i].key].spatial /\ site.assets[groups[i].key].faiss

\* A seat is never passed although a model saw something that is suspicious by
\* the levels of every model that looked at the region: not in decoding, nor by
\* mapping, merging or suppression is it lost.  Nor is it passed when a distance
\* was no number, unless an index stood in for the exact search: a score that
\* compares with nothing would slip below every level.
SuspicionNotDropped ==
  (stage = "done" /\ verdict.decision = "OK") =>
    \A i \in DOMAIN groups :
      /\ Unsure(i) => ScoredByIndex(i)
      /\ \E k \in DOMAIN groups :
           /\ SameRegion(i, k)
           /\ \/ Suspicion(i) < RecheckLevel(k)
              \/ recipe.models[groups[i].key].scoreThreshold > Suspicion(i)

\* "safety_net: an optional model that adds the detection of other unknown or
\* rare anomalies": what is suspicious by the level of the model that saw it is
\* not passed.  Merging with a detection of a higher score and a higher level
\* breaks this.
SafetyNetNotAbsorbed ==
  (stage = "done" /\ verdict.decision = "OK") =>
    \A i \in DOMAIN groups :
      recipe.models[groups[i].key].role = "safety_net" => Suspicion(i) < RecheckLevel(i)

\* The level from which the model's findings reject a seat.
NgLevel(i) ==
  IF recipe.models[groups[i].key].backend = "patchcore_knn"
  THEN site.assets[groups[i].key].bank.thresholds.ng
  ELSE recipe.threshold.ng

\* A seat is rejected only for something that one model saw at its own NG
\* level: neither merging with what another model saw, by another level, nor
\* mapping or filtering makes a reject out of less.
RejectedForACause ==
  (stage = "done" /\ verdict.decision = "NG") =>
    \E i \in DOMAIN groups : Suspicion(i) >= NgLevel(i) \/ Unsure(i)

\* Fusion loses no candidate: each is kept, merged or counted as overflow, and
\* a job with an overflow is not passed.
CandidatesAccountedFor ==
  fused # Absent =>
    /\ Len(fused.kept) + fused.suppressed + fused.overflow = Len(candidates)
    /\ (fused.overflow > 0 /\ stage = "done") => verdict.decision # "OK"
    /\ fused.overflow = 0 =>
         \A i \in DOMAIN candidates :
           \E k \in DOMAIN fused.kept :
             /\ fused.kept[k].view = candidates[i].view /\ fused.kept[k].roi = candidates[i].roi
             /\ MergedBox(fused.kept[k].box, candidates[i].box) = fused.kept[k].box

\* A defect is where its region is: what is shown to the operator lies inside
\* the region of the view the candidate came from.
DefectsInRegion ==
  fused # Absent =>
    \A k \in DOMAIN fused.kept :
      \E i \in DOMAIN groups :
        /\ groups[i].view = fused.kept[k].view /\ groups[i].roi = fused.kept[k].roi
        /\ MergedBox(groups[i].box, fused.kept[k].box) = groups[i].box
        /\ fused.kept[k].evidence \subseteq
             DOMAIN (CHOOSE b \in ToSet(job.bundles) : ViewOf(b) = groups[i].view).frames

\* An installation in order does its work: a job nothing is wrong with is judged
\* by what the models answered and fails only where that is unusable.
SoundJobJudged ==
  (stage = "done" /\ faults = 0 /\ verdict.code # "None") =>
    \/ verdict.code = "DeviceFault"
    \/ groups # <<>> /\ Infer(groups, recipe, site, observed).kind = "error"
    \/ Fuse(candidates, recipe.fusion) = Absent
    \/ fused # Absent /\ fused.overflow > 0
=============================================================================
