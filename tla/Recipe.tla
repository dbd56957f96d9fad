------------------------------- MODULE Recipe -------------------------------
(***************************************************************************)
(* Recipes: what python_detector/config/recipe_schema.py accepts and what  *)
(* it makes of it (schema_validators.py, schema_types.py).                 *)
(*                                                                         *)
(* A document is the parsed YAML file.  A field the file leaves out is     *)
(* Absent and takes the default the loader gives it.  Fields of which the  *)
(* loader reads only the type (names, paths, free text) are left out, and  *)
(* so are coreset_ratio and mask_threshold, which nothing modelled reads;  *)
(* ratios and scores are integers in tenths.  Every check raises the same  *)
(* RecipeValidationError, so a document is accepted when all of them pass  *)
(* and their order does not matter.                                        *)
(***************************************************************************)
EXTENDS Integers, Sequences, FiniteSets, SequencesExt

CONSTANTS
  Absent   \* a key the document does not have

Given(x, default) == IF x = Absent THEN default ELSE x

\* sorted(): the members of a finite set, from the first to the last.
Ranked(S, before(_, _)) ==
  [k \in 1 .. Cardinality(S) |->
     CHOOSE x \in S : Cardinality({y \in S : before(y, x)}) = k - 1]

\* What a filter leaves of a list: its elements at some places, in their order.
At(s, places) ==
  [k \in 1 .. Cardinality(places) |->
     s[CHOOSE i \in places : Cardinality({j \in places : j < i}) = k - 1]]

\* The primitives.  A ratio is in tenths, a grey value keeps its range.
Ratio(x) == x \in 0 .. 10
Gray(x) == x \in 0 .. 255
NonNegative(x) == x >= 0
Positive(x) == x > 0

\* _str_tuple: a list of names must not be empty; _unique_str_tuple: nor repeat.
Names(s) == s # <<>>
UniqueNames(s) == Names(s) /\ IsInjective(s)

-----------------------------------------------------------------------------
(***************************************************************************)
(* From the document to the recipe: defaults and inheritance.              *)
(***************************************************************************)

\* _recipe_light_order_from_dict: the first source of a light order there is.
LightOrder(d) ==
  LET fromCameras == SelectSeq(d.cameras, LAMBDA c : c.lightOrder # Absent)
      sources == <<d.lightOrder, d.quality.required, d.defaults.lightOrder>> \o
                 [i \in DOMAIN fromCameras |-> fromCameras[i].lightOrder]
  IN  IF \A i \in DOMAIN sources : sources[i] = Absent
      THEN Absent
      ELSE SelectSeq(sources, LAMBDA s : s # Absent)[1]

RequiredLights(d) == Given(d.quality.required, LightOrder(d))

\* The semantic light names; by default DOME is the first light.
SemanticLights(d) == Given(d.semantic, [DOME |-> LightOrder(d)[1]])

\* _registration_from_dict: both base lights default to the first required one.
Registration(d) ==
  [d.registration EXCEPT !.base     = Given(@, RequiredLights(d)[1]),
                         !.fallback = Given(@, RequiredLights(d)[1])]

\* _camera_defaults_from_dict and _cameras_from_dict: a camera inherits what
\* it does not say; disabled cameras are dropped before anything is checked.
Camera(d, c) ==
  LET defaults == d.defaults
  IN  [camera     |-> c.camera,
       pose       |-> Given(c.pose, c.camera),
       calibration |-> Given(c.calibration, defaults.calibration),
       template   |-> Given(c.template, defaults.template),
       lightOrder |-> Given(c.lightOrder, Given(defaults.lightOrder, LightOrder(d))),
       base       |-> Given(c.base, Given(defaults.base, Registration(d).base)),
       model      |-> Given(c.model, defaults.model),
       safetyNet  |-> Given(c.safetyNet, defaults.safetyNet),
       roiModels  |-> Given(c.roiModels, defaults.roiModels),
       roiSafetyNets |-> Given(c.roiSafetyNets, defaults.roiSafetyNets)]

Cameras(d) ==
  LET enabled == SelectSeq(d.cameras, LAMBDA c : c.enabled)
  IN  [i \in DOMAIN enabled |-> Camera(d, enabled[i])]

\* _models_from_dict: channels default to one per light, PatchCore ignores
\* score_threshold, and there is always a model called "default".
LightChannels(d) == [i \in DOMAIN LightOrder(d) |-> <<"light", LightOrder(d)[i]>>]

Model(d, m) ==
  [m EXCEPT !.channels = Given(m.channels, LightChannels(d)),
            !.scoreThreshold = IF m.backend = "patchcore_knn" THEN 0 ELSE @]

FakeModel(d) ==
  [backend |-> "fake", fakeMode |-> "auto", family |-> "supervised", role |-> "primary",
   channels |-> LightChannels(d), decode |-> "none", bboxFormat |-> "xyxy_pixel",
   scoreThreshold |-> 0, embedding |-> "none", bank |-> FALSE, pca |-> FALSE,
   spatial |-> FALSE, spatialLayers |-> <<>>, minRatio |-> 5, relative |-> 3]

Models(d) ==
  [key \in DOMAIN d.models \cup {"default"} |->
     IF key \in DOMAIN d.models THEN Model(d, d.models[key]) ELSE FakeModel(d)]

\* recipe_from_dict, the recipe it returns for a document it accepts.
RecipeOf(d) ==
  [id           |-> d.id,
   sku          |-> d.sku,
   lightOrder   |-> LightOrder(d),
   semantic     |-> SemanticLights(d),
   cameras      |-> Cameras(d),
   quality      |-> [d.quality EXCEPT !.required = RequiredLights(d)],
   roi          |-> d.roi,
   registration |-> Registration(d),
   fusion       |-> d.fusion,
   threshold    |-> d.threshold,
   models       |-> Models(d),
   trace        |-> d.trace]

-----------------------------------------------------------------------------
(***************************************************************************)
(* What a document must satisfy.                                           *)
(***************************************************************************)

\* _quality_from_dict
QualityChecks(q) ==
  /\ Gray(q.minMean) /\ Gray(q.maxMean) /\ q.minMean <= q.maxMean
  /\ Ratio(q.maxSaturation) /\ Ratio(q.maxDark)
  /\ \A x \in {q.minSharpness, q.minMotion, q.maxMeanDelta, q.maxError,
               q.maxSpan, q.maxExposureDelta, q.maxGainDelta, q.maxPoseDelta} :
       NonNegative(x)

\* _roi_locator_from_dict and the second half of _validate_roi_locator_light
BoxDecodes == {"yolo_xyxy_rows", "ultralytics_yolo"}
MaskDecodes == {"segmentation_rows", "ultralytics_yolo_seg"}

RoiLocatorChecks(roi) ==
  /\ roi.backend \in {"template", "fake_yolo", "onnx_yolo", "onnx_yolo_seg"}
  /\ roi.decode \in BoxDecodes \cup MaskDecodes
  /\ roi.bboxFormat \in {"xyxy_pixel", "xyxy_normalized"}
  /\ roi.backend = "onnx_yolo_seg" => roi.decode \in MaskDecodes
  /\ roi.backend \in {"fake_yolo", "onnx_yolo"} => roi.decode \in BoxDecodes
  /\ roi.backend # "template" => roi.hasModel
  /\ Ratio(roi.minConfidence) /\ NonNegative(roi.maxPoseError)
  /\ Ratio(roi.minMaskRatio) /\ Ratio(roi.maxMaskRatio)
  /\ Positive(roi.minMaskArea) /\ Positive(roi.channels)
  /\ UniqueNames(roi.classes)

\* _registration_from_dict, _fusion_from_dict, _decision_threshold_from_dict
RegistrationChecks(registration) ==
  /\ registration.method \in {"fixed_calibration", "ecc"}
  /\ Positive(registration.maxIterations) /\ Positive(registration.epsilon)
  /\ NonNegative(registration.searchRadius) /\ Ratio(registration.minCorrelation)

FusionChecks(fusion) == Ratio(fusion.iou) /\ Positive(fusion.maxPerRoi)

ThresholdChecks(t) ==
  /\ Ratio(t.ng) /\ Ratio(t.recheck) /\ t.recheck <= t.ng
  /\ NonNegative(t.minArea) /\ NonNegative(t.minAspect) /\ NonNegative(t.maxAspect)

\* _models_from_dict and _validate_model_configs
ModelChecks(m) ==
  /\ m.backend \in {"fake", "onnx", "patchcore_knn"}
  /\ m.fakeMode \in {"auto", "ok", "ng", "recheck"}
  /\ m.bboxFormat \in {"xyxy_pixel", "xyxy_normalized"}
  /\ Ratio(m.minRatio) /\ Ratio(m.relative)
  /\ m.family \in {"supervised", "patchcore", "efficientad", "yolo_seg"}
  /\ m.role \in {"primary", "safety_net"}
  /\ UniqueNames(m.channels)
  /\ m.decode \in {"none", "detection_rows", "ultralytics_yolo"}
  /\ Ratio(m.scoreThreshold)
  /\ m.embedding \in {"none", "statistical", "onnx_wideresnet50"}
  /\ m.backend = "patchcore_knn" =>
       /\ m.family = "patchcore"
       /\ m.bank
       /\ m.embedding # "none"
       /\ m.spatial => m.embedding = "onnx_wideresnet50" /\ Names(m.spatialLayers)

\* _validate_lights, _validate_v4_lights, _validate_roi_locator_light and
\* _validate_registration_lights
LightsChecks(order, required) ==
  UniqueNames(order) /\ ToSet(required) \subseteq ToSet(order)

SemanticLight(mapping, semantic) ==
  IF semantic \in DOMAIN mapping THEN mapping[semantic] ELSE semantic

SemanticChecks(r) ==
  /\ Range(r.semantic) \subseteq ToSet(r.lightOrder)
  /\ SemanticLight(r.semantic, r.roi.dome) \in ToSet(r.lightOrder)

BaseLightChecks(r) ==
  {r.registration.base, r.registration.fallback}
    \subseteq ToSet(r.lightOrder) \cap ToSet(r.quality.required)

\* _validate_camera_lights: no view twice, and each camera takes every
\* required light and both of its base lights.
CameraChecks(r) ==
  LET view(i) == <<r.cameras[i].camera, r.cameras[i].pose>>
  IN  /\ \A i, j \in DOMAIN r.cameras : view(i) = view(j) => i = j
      /\ \A i \in DOMAIN r.cameras :
           LET c == r.cameras[i]
           IN  /\ LightsChecks(c.lightOrder, r.quality.required)
               /\ c.base \in ToSet(c.lightOrder) \cap ToSet(r.quality.required)
               /\ r.registration.fallback \in ToSet(c.lightOrder)

\* _validate_model_refs: every reference names a model of the right role.
ModelRefChecks(r) ==
  LET refers(key, role) == key \in DOMAIN r.models /\ r.models[key].role = role
  IN  \A i \in DOMAIN r.cameras :
        LET c == r.cameras[i]
        IN  /\ \A key \in {c.model} \cup Range(c.roiModels) : refers(key, "primary")
            /\ \A key \in ({c.safetyNet} \ {Absent}) \cup Range(c.roiSafetyNets) :
                 refers(key, "safety_net")

\* recipe_from_dict and load_recipe_file: the documents the loader accepts.
Accepted(d) ==
  /\ LightOrder(d) # Absent
  /\ Names(LightOrder(d)) /\ Names(RequiredLights(d))
  /\ UniqueNames(Given(d.defaults.lightOrder, LightOrder(d)))
  /\ QualityChecks(d.quality) /\ RoiLocatorChecks(d.roi)
  /\ RegistrationChecks(d.registration) /\ FusionChecks(d.fusion)
  /\ ThresholdChecks(d.threshold)
  /\ \A key \in DOMAIN Models(d) : ModelChecks(Models(d)[key])
  /\ LET r == RecipeOf(d)
     IN  /\ LightsChecks(r.lightOrder, r.quality.required)
         /\ SemanticChecks(r) /\ BaseLightChecks(r)
         /\ r.cameras # <<>>
         /\ CameraChecks(r) /\ ModelRefChecks(r)

-----------------------------------------------------------------------------
(***************************************************************************)
(* The questions the pipeline asks of a recipe (schema_types.Recipe).      *)
(***************************************************************************)

Views(r) == {<<r.cameras[i].camera, r.cameras[i].pose>> : i \in DOMAIN r.cameras}

IsDefaultView(view) == view[1] = view[2]

\* default_camera_accepts_dynamic_pose: a camera configured without poses of
\* its own stands for every pose of the robot that carries it.
AcceptsDynamicPose(r, camera) ==
  /\ <<camera, camera>> \in Views(r)
  /\ \A view \in Views(r) : view[1] = camera => IsDefaultView(view)

\* accepts_camera_pose
AcceptsView(r, view) == view \in Views(r) \/ AcceptsDynamicPose(r, view[1])

CameraAt(r, view) == CHOOSE c \in ToSet(r.cameras) : <<c.camera, c.pose>> = view

\* camera(): the exact view, or else the camera's default view.
CameraRecipe(r, view) ==
  CASE view \in Views(r) -> CameraAt(r, view)
    [] view \notin Views(r) /\ AcceptsDynamicPose(r, view[1]) ->
         CameraAt(r, <<view[1], view[1]>>)
    [] OTHER -> Absent

\* pose_uses_default_camera
UsesDefaultCamera(r, view) ==
  ~IsDefaultView(view) /\ view \notin Views(r) /\ AcceptsDynamicPose(r, view[1])

\* model_key_for and safety_net_model_keys_for
ModelKeys(r, view, roi) ==
  LET c == CameraRecipe(r, view)
      override(f, default) == IF roi \in DOMAIN f THEN f[roi] ELSE default
      primary == override(c.roiModels, c.model)
      safetyNet == override(c.roiSafetyNets, c.safetyNet)
  IN  CASE c = Absent -> <<"default">>
        [] c # Absent /\ safetyNet = Absent -> <<primary>>
        [] OTHER -> <<primary, safetyNet>>

\* semantic_light_id
DomeLight(r) == SemanticLight(r.semantic, r.roi.dome)
=============================================================================
