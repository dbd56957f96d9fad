------------------------- MODULE MCDetectionPipeline -------------------------
(***************************************************************************)
(* Four installations in order, and what may be wrong with them.           *)
(***************************************************************************)
EXTENDS DetectionPipeline

Diffuse == "DIFFUSE"
Polar == "POLAR_DIFFUSE"
None == <<>>                       \* no overrides

\* A frame as the gate likes it; "robot" is 0 for a camera nobody moves.
Frame(camera, light, seq, calibration, robot) ==
  [camera |-> camera, light |-> light, seq |-> seq, index |-> seq + 1,
   time |-> 100 + seq, shot |-> robot, robotTime |-> robot, tcp |-> robot, rpy |-> robot,
   exposure |-> 10, gain |-> 1, mono8 |-> TRUE, width |-> 8, height |-> 8, channels |-> 1,
   stride |-> 8, bytes |-> 64, saturation |-> 0, dark |-> 0, mean |-> 120, sharpness |-> 9,
   motion |-> 9, calibration |-> calibration, offset |-> <<0, 0>>, texture |-> "grain"]

Bundle(camera, pose, calibration, robot) ==
  [camera |-> camera, pose |-> pose,
   frames |-> [l \in {Diffuse, Polar} |->
                 Frame(camera, l, IF l = Diffuse THEN 0 ELSE 1, calibration, robot)]]

\* The part of a recipe the installations have in common.
View(camera, pose, model, safetyNet) ==
  [camera |-> camera, pose |-> pose, enabled |-> TRUE, lightOrder |-> Absent, base |-> Absent,
   model |-> model, safetyNet |-> safetyNet, roiModels |-> Absent, roiSafetyNets |-> Absent,
   calibration |-> Absent, template |-> Absent]

Roi(backend, decode) ==
  [backend |-> backend, decode |-> decode, bboxFormat |-> "xyxy_pixel", hasModel |-> TRUE,
   dome |-> "DOME", minConfidence |-> 5, maxPoseError |-> 2, minMaskRatio |-> 1,
   maxMaskRatio |-> 10, minMaskArea |-> 4, channels |-> 3, classes |-> <<"seat", "edge">>,
   inputWidth |-> 16, inputHeight |-> 16]

Document(cameras, roi, method, models) ==
  [id |-> "recipe", sku |-> "sku", lightOrder |-> <<Diffuse, Polar>>, semantic |-> Absent, cameras |-> cameras,
   defaults |-> [lightOrder |-> Absent, base |-> Absent, model |-> "default",
                 safetyNet |-> Absent, roiModels |-> None, roiSafetyNets |-> None,
                 calibration |-> "cal", template |-> "tpl"],
   quality |-> [required |-> Absent, minMean |-> 20, maxMean |-> 200, maxSaturation |-> 2,
                maxDark |-> 2, minSharpness |-> 1, minMotion |-> 1, maxMeanDelta |-> 30,
                maxError |-> 1, maxSpan |-> 10, maxExposureDelta |-> 2, maxGainDelta |-> 1,
                maxPoseDelta |-> 1, monotonic |-> TRUE, uniqueIndices |-> TRUE],
   roi |-> roi,
   registration |-> [method |-> method, base |-> Absent, fallback |-> Absent,
                     maxIterations |-> 9, searchRadius |-> 2, minCorrelation |-> 9,
                     epsilon |-> 1],
   fusion |-> [iou |-> 5, maxPerRoi |-> 1],
   threshold |-> [ng |-> 8, recheck |-> 5, minArea |-> 4, minAspect |-> 0, maxAspect |-> 30],
   models |-> models,
   trace |-> [enabled |-> TRUE, saveOk |-> 5, saveNg |-> TRUE, saveRecheck |-> FALSE]]

Model0(backend, family, role) ==
  [backend |-> backend, fakeMode |-> "auto", family |-> family, role |-> role,
   channels |-> Absent, decode |-> "detection_rows", bboxFormat |-> "xyxy_pixel",
   scoreThreshold |-> 3, embedding |-> "statistical", bank |-> TRUE, pca |-> FALSE,
   spatial |-> FALSE, spatialLayers |-> <<"layer2">>, minRatio |-> 5, relative |-> 3]

Detector == Model0("onnx", "supervised", "primary")
SafetyNet ==
  [Model0("patchcore_knn", "patchcore", "safety_net") EXCEPT
     !.embedding = "onnx_wideresnet50", !.spatial = TRUE, !.channels = <<<<"aux_specular_removed">>>>]

\* What is installed: regions of an 8 by 8 image, an upright one and a skewed one.
Seat == [polygon |-> Corners(<<0, 0, 4, 4>>), size |-> <<5, 5>>]
Edge == [polygon |-> <<<<5, 4>>, <<7, 4>>, <<7, 7>>, <<4, 7>>>>, size |-> <<4, 4>>]
Regions == [seat |-> Seat, edge |-> Edge]
OneRegion == [seat |-> Seat]

Assets ==
  [network |-> TRUE, dimensionFits |-> TRUE, pca |-> [valid |-> TRUE, versionFits |-> TRUE],
   faiss |-> FALSE,
   bank |-> [valid |-> TRUE, vectors |-> [sound |-> TRUE], fits |-> TRUE, mean |-> 2, p99 |-> 6,
             thresholds |-> [recheck |-> 4, ng |-> 7]]]

CalibrationFile(camera) ==
  [camera |-> camera, id |-> "cal", width |-> 8, height |-> 8,
   alignment |-> [l \in {Diffuse, Polar} |-> <<0, 0>>], regions |-> OneRegion]

RoiRow(box, score) ==
  [box |-> box, score |-> score, class |-> 0, nan |-> {},
   mask |-> [grid |-> <<4, 4>>, cells |-> <<0, 0, 2, 2>>]]

Site(cameras, template, keys, opencv) ==
  [calibrations |-> [c \in cameras \X {"cal"} |-> CalibrationFile(c[1])],
   templates |-> [name \in {"tpl"} |-> template],
   roiOutput |-> [c \in cameras |->
                    [shape |-> "rows", protos |-> TRUE,
                     rows |-> <<RoiRow(<<0, 0, 4, 4>>, 9), RoiRow(<<0, 0, 4, 4>>, 6)>>]],
   roiModel |-> TRUE, opencv |-> opencv, assets |-> [key \in keys |-> Assets]]

-----------------------------------------------------------------------------
\* A fixed camera over a template; a detector and a spatial safety net.
Fixed ==
  [document |-> Document(<<View("top", Absent, "det", "net")>>, Roi("template", "yolo_xyxy_rows"),
                         "fixed_calibration", [det |-> Detector, net |-> SafetyNet]),
   site |-> Site({"top"}, Regions, {"default", "det", "net"}, FALSE),
   job |-> [recipe |-> "recipe", sku |-> "sku", captureMode |-> 0, bundles |-> <<Bundle("top", Absent, "cal", 0)>>]]

\* A robot's camera at two taught poses; no model has been trained yet.
Taught ==
  [document |-> Document(<<View("eye", Absent, "default", Absent), View("eye", "p1", "default", Absent)>>,
                         Roi("fake_yolo", "yolo_xyxy_rows"), "ecc", None),
   site |-> Site({"eye"}, OneRegion, {"default"}, FALSE),
   job |-> [recipe |-> "recipe", sku |-> "sku", captureMode |-> 2,
            bundles |-> <<Bundle("eye", Absent, "cal", 1), Bundle("eye", "p1", "cal", 2)>>]]

\* A robot's camera that is told its poses on the fly; the seat is segmented,
\* one global anomaly model judges it.
Flying ==
  [document |-> Document(<<View("arm", Absent, "net", Absent)>>,
                         Roi("onnx_yolo_seg", "ultralytics_yolo_seg"), "ecc",
                         [net |-> [SafetyNet EXCEPT !.embedding = "statistical", !.spatial = FALSE,
                                                    !.role = "primary", !.pca = TRUE,
                                                    !.channels = Absent]]),
   site |-> [Site({"arm"}, OneRegion, {"default", "net"}, TRUE) EXCEPT
               !.roiOutput["arm"].rows = <<RoiRow(<<0, 0, 9, 9>>, 9), RoiRow(<<0, 0, 9, 9>>, 6)>>],
   job |-> [recipe |-> "recipe", sku |-> "sku", captureMode |-> 2, bundles |-> <<Bundle("arm", "p7", "cal", 1)>>]]

\* Two fixed cameras; regions and defects by Ultralytics models.
Pair ==
  [document |-> [Document(<<View("left", Absent, "yolo", Absent), View("right", Absent, "yolo", Absent)>>,
                          Roi("onnx_yolo", "ultralytics_yolo"), "fixed_calibration",
                          [yolo |-> [Detector EXCEPT !.decode = "ultralytics_yolo",
                                                     !.bboxFormat = "xyxy_normalized",
                                                     !.family = "yolo_seg"]])
                 EXCEPT !.threshold.minAspect = 5],
   site |-> Site({"left", "right"}, OneRegion, {"default", "yolo"}, FALSE),
   job |-> [recipe |-> "recipe", sku |-> "sku", captureMode |-> 1,
            bundles |-> <<Bundle("left", Absent, "cal", 0), Bundle("right", Absent, "cal", 0)>>]]

MCInstallations == {Fixed, Taught, Flying, Pair}
MCFixedOnly == {Fixed}

-----------------------------------------------------------------------------
\* One field of a recipe, changed by hand.
MCEdits(d) ==
  LET key == CHOOSE k \in DOMAIN d.models \cup {"default"} : k # "net" \/ DOMAIN d.models = {"net"}
      models == IF d.models = None THEN {} ELSE
                  {[d EXCEPT !.models[key].backend = "fake"],
                   [d EXCEPT !.models[key].scoreThreshold = 9],
                   [d EXCEPT !.models[key].role = "safety_net"],
                   [d EXCEPT !.models[key].decode = "none"],
                   [d EXCEPT !.models[key].channels = <<<<"light", "HIGH_LEFT">>>>],
                   [d EXCEPT !.models[key].channels = <<<<"max_min", "DIFFUSE">>>>]}
  IN  models \cup
      {[d EXCEPT !.sku = "other"], [d EXCEPT !.lightOrder = Absent],
       [d EXCEPT !.lightOrder = <<Polar, Diffuse>>],
       [d EXCEPT !.quality.required = <<Diffuse>>],
       [d EXCEPT !.quality.required = <<Diffuse, "HIGH_LEFT">>],
       [d EXCEPT !.quality.maxError = 0],
       [d EXCEPT !.quality.minMean = 210],
       [d EXCEPT !.semantic = [DOME |-> "HIGH_LEFT"]],
       [d EXCEPT !.cameras = Append(@, @[1])],
       [d EXCEPT !.cameras = Append(@, View("new", Absent, "default", Absent))],
       [d EXCEPT !.cameras = Append(@, View(@[1].camera, "p9", "default", Absent))],
       [d EXCEPT !.cameras[1].enabled = FALSE],
       [d EXCEPT !.cameras[1].base = Polar],
       [d EXCEPT !.cameras[1].template = Absent, !.cameras[1].lightOrder = <<Polar, Diffuse>>],
       [d EXCEPT !.cameras[1].roiModels = [seat |-> "default"]],
       [d EXCEPT !.cameras[1].roiSafetyNets = [edge |-> key]],
       [d EXCEPT !.roi.backend = "onnx_yolo"], [d EXCEPT !.roi.minConfidence = 10],
       [d EXCEPT !.roi.bboxFormat = "xyxy_normalized"],
       [d EXCEPT !.roi.classes = <<"edge", "seat">>],
       [d EXCEPT !.roi.minMaskRatio = 6], [d EXCEPT !.roi.inputWidth = 0],
       [d EXCEPT !.registration.base = Polar, !.registration.maxIterations = 1],
       [d EXCEPT !.registration.epsilon = 0], [d EXCEPT !.defaults.lightOrder = <<Polar, Polar>>],
       [d EXCEPT !.fusion.iou = 0], [d EXCEPT !.fusion.maxPerRoi = 3],
       [d EXCEPT !.threshold.recheck = 0], [d EXCEPT !.threshold.recheck = 2],
       [d EXCEPT !.threshold.ng = 4],
       [d EXCEPT !.threshold.minArea = 20],
       [d EXCEPT !.trace.enabled = FALSE], [d EXCEPT !.trace.saveOk = 0],
       [d EXCEPT !.trace.saveOk = 10, !.trace.saveRecheck = TRUE]}

\* Something the cameras, the robot or the controller got wrong.
DisturbedFrames(f) ==
  {[f EXCEPT !.seq = 1], [f EXCEPT !.index = 2], [f EXCEPT !.time = 0], [f EXCEPT !.time = 150],
   [f EXCEPT !.time = 102], [f EXCEPT !.shot = 9], [f EXCEPT !.robotTime = 9],
   [f EXCEPT !.tcp = 9], [f EXCEPT !.tcp = 0, !.rpy = 0], [f EXCEPT !.exposure = 20],
   [f EXCEPT !.gain = 0], [f EXCEPT !.mono8 = FALSE], [f EXCEPT !.width = 9],
   [f EXCEPT !.bytes = 32], [f EXCEPT !.saturation = 5], [f EXCEPT !.mean = 10],
   [f EXCEPT !.mean = 160], [f EXCEPT !.sharpness = 0], [f EXCEPT !.motion = 0],
   [f EXCEPT !.calibration = "old"], [f EXCEPT !.camera = "none"],
   [f EXCEPT !.light = Polar], [f EXCEPT !.texture = "flat"],
   [f EXCEPT !.offset = <<1, 0>>], [f EXCEPT !.offset = <<-1, 1>>],
   [f EXCEPT !.offset = <<3, 0>>]}

MCDisturbances(j) ==
  {[j EXCEPT !.bundles[1].frames[Diffuse] = f] :
     f \in DisturbedFrames(j.bundles[1].frames[Diffuse])} \cup
  {[j EXCEPT !.recipe = "unknown"], [j EXCEPT !.sku = "other"],
   [j EXCEPT !.bundles = Tail(@)], [j EXCEPT !.bundles = Append(@, @[1])],
   [j EXCEPT !.bundles[1].pose = "p8"], [j EXCEPT !.captureMode = 2],
   [j EXCEPT !.bundles[1].frames = [l \in {Polar} |-> @[l]]],
   [j EXCEPT !.bundles[1].frames = [l \in {Diffuse} |-> @[l]]]}

\* A file that is not there, is damaged or belongs to something else.
MCLosses(s) ==
  LET camera == CHOOSE c \in DOMAIN s.roiOutput : TRUE
      trained == DOMAIN s.assets \ {"default"}
      key == IF trained = {} THEN "default" ELSE CHOOSE k \in trained : "net" \in trained => k = "net"
  IN  {[s EXCEPT !.calibrations[<<camera, "cal">>] = Absent],
       [s EXCEPT !.calibrations[<<camera, "cal">>].id = "old"],
       [s EXCEPT !.calibrations[<<camera, "cal">>].width = 16],
       [s EXCEPT !.calibrations[<<camera, "cal">>].alignment = [l \in {Polar} |-> <<2, 0>>]],
       [s EXCEPT !.templates["tpl"] = Absent],
       [s EXCEPT !.templates["tpl"].seat.polygon = <<<<0, 0>>, <<2, 2>>, <<4, 4>>>>],
       [s EXCEPT !.templates["tpl"].seat.polygon = Corners(<<4, 4, 9, 9>>)],
       [s EXCEPT !.roiModel = FALSE], [s EXCEPT !.opencv = ~@],
       [s EXCEPT !.roiOutput[camera].shape = "bad"],
       [s EXCEPT !.roiOutput[camera].rows = <<>>],
       [s EXCEPT !.roiOutput[camera].rows[1].nan = {"box"}],
       [s EXCEPT !.roiOutput[camera].rows[1].box = <<2, 2, 15, 15>>],
       [s EXCEPT !.roiOutput[camera].rows[1].mask.cells = Absent],
       [s EXCEPT !.assets[key].network = FALSE], [s EXCEPT !.assets[key].dimensionFits = FALSE],
       [s EXCEPT !.assets[key].pca = Absent], [s EXCEPT !.assets[key].pca.valid = FALSE],
       [s EXCEPT !.assets[key].faiss = TRUE], [s EXCEPT !.assets[key].bank = Absent],
       [s EXCEPT !.assets[key].bank.valid = FALSE],
       [s EXCEPT !.assets[key].bank.vectors = Absent],
       [s EXCEPT !.assets[key].bank.vectors.sound = FALSE],
       [s EXCEPT !.assets[key].bank.thresholds.recheck = 8],
       [s EXCEPT !.assets[key].bank.thresholds = Absent],
       [s EXCEPT !.assets[key].bank.p99 = Absent], [s EXCEPT !.assets[key].bank.fits = FALSE]}

-----------------------------------------------------------------------------
\* What a network may answer: nothing, something weak, strong, twice, or rubbish.
Detection(box, score) == [box |-> box, score |-> score, class |-> 0, nan |-> {}]

Rows(rows) == [shape |-> "rows", rows |-> rows]

MCObservations(m) ==
  CASE m.backend = "fake" -> {[bright |-> b] : b \in BOOLEAN}
    [] m.backend = "onnx" ->
         {Rows(<<>>), Rows(<<Detection(<<0, 0, 2, 2>>, 4)>>), Rows(<<Detection(<<0, 0, 2, 3>>, 9)>>),
          Rows(<<Detection(<<1, 2, 3, 3>>, 6), Detection(<<0, 0, 1, 1>>, 9)>>),
          Rows(<<Detection(<<0, 1, 3, 3>>, 5), Detection(<<0, 0, 3, 3>>, 7)>>),
          Rows(<<Detection(<<0, 0, 1, 1>>, 4), Detection(<<3, 3, 3, 3>>, 3)>>),
          Rows(<<[Detection(<<0, 0, 1, 1>>, 9) EXCEPT !.nan = {"box"}]>>)}
    [] m.backend = "patchcore_knn" /\ m.spatial ->
         {[distances |-> f] :
            f \in [{1, 2} \X {1, 2} -> {0, 5}] \cup
                  {(<<1, 1>> :> 4 @@ <<1, 2>> :> 0 @@ <<2, 1>> :> 0 @@ <<2, 2>> :> 9),
                   (<<1, 1>> :> Absent @@ <<1, 2>> :> 0 @@ <<2, 1>> :> 0 @@ <<2, 2>> :> 0)}}
    [] m.backend = "patchcore_knn" /\ ~m.spatial ->
         {[distances |-> <<1, 1>> :> d] : d \in {1, 6, 20, Absent}}

-----------------------------------------------------------------------------
\* What the runs give the pipeline, before and after a fault, has its types.
ASSUME MCTyped ==
  \A x \in MCInstallations :
    /\ \A d \in {x.document} \cup MCEdits(x.document) : DocumentTyped(d)
    /\ \A s \in {x.site} \cup MCLosses(x.site) :
         /\ SiteTyped(s) /\ \A j \in {x.job} \cup MCDisturbances(x.job) : JobTyped(j, s)
         /\ \A d \in {x.document} \cup MCEdits(x.document) : AssetsTyped(d, s)

\* The installations are in order.
ASSUME MCInOrder == \A x \in MCInstallations : InOrder(x)
=============================================================================
