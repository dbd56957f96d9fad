------------------------------ MODULE PatchCore ------------------------------
(***************************************************************************)
(* The anomaly model (python_detector/models/patchcore_model.py,           *)
(* patchcore.py, embedding.py, pca.py, spatial_utils.py): how far are the  *)
(* features of a region from those of good seats?                          *)
(*                                                                         *)
(* An observation is the distance of each patch to the memory bank, on the *)
(* grid of the spatial mode or on a grid of one cell for the whole region, *)
(* Absent where it is not a number; a distance without bound is left out.  *)
(* Scores and ratios are in tenths.  "assets" are the files of one model.  *)
(***************************************************************************)
EXTENDS FeatureBuilder

\* The first of several conditions, tried in this order, that does not hold.
FirstFailure(conditions) ==
  LET failed == {i \in DOMAIN conditions : ~conditions[i][1]}
  IN  IF failed = {} THEN "ok" ELSE conditions[Min(failed)][2]

\* _calibrated_score: tanh of the distance beyond the mean, in units of twice
\* the way from the mean to the 99th percentile; clipped below at 0.
Tanh == <<1, 2, 4, 5, 6, 6, 7, 8, 8, 8, 9, 9, 9, 9>>   \* of 1/8, 2/8, ... 14/8

CalibratedScore(distance, bank) ==
  LET span == bank.p99 - bank.mean
      eighths == (4 * (distance - bank.mean)) \div span
  IN  CASE distance <= bank.mean -> 0
        [] distance > bank.mean /\ span <= 0 -> 10
        [] OTHER -> IF eighths = 0 THEN 0
                    ELSE IF eighths \in DOMAIN Tanh THEN Tanh[eighths] ELSE 10

-----------------------------------------------------------------------------
\* create_onnx_session: the network is there and loads.
SessionConditions(m, assets) ==
  <<<<m.embedding = "onnx_wideresnet50" => assets.network, "asset">>>>

\* EmbeddingExtractor.extract and extract_spatial: what it answers has the shape
\* the recipe says.
EmbeddingConditions(m, assets) ==
  SessionConditions(m, assets) \o <<<<assets.dimensionFits, "error">>>>

\* PcaProjector._load, _parse, project and project_batch.
PcaConditions(m, assets) ==
  <<<<m.pca => assets.pca # Absent, "asset">>,
    <<m.pca /\ assets.pca # Absent => assets.pca.valid /\ assets.pca.versionFits, "error">>>>

\* PatchCoreKnnIndex._load and _parse: the file and what it says.
BankConditions(bank) ==
  <<<<bank # Absent, "asset">>, <<bank # Absent => bank.valid, "error">>>>

\* _load_vectors_npy: the vectors of the bank are a file of their own.
VectorConditions(bank) ==
  <<<<bank # Absent => bank.vectors # Absent, "asset">>,
    <<bank # Absent /\ bank.vectors # Absent => bank.vectors.sound, "error">>>>

\* _parse_thresholds and _require_thresholds: none are accepted when the bank is
\* read, but not when it is used.
ThresholdOrder(bank) ==
  <<<<bank # Absent /\ bank.thresholds # Absent =>
        /\ Ratio(bank.thresholds.recheck) /\ Ratio(bank.thresholds.ng)
        /\ bank.thresholds.recheck <= bank.thresholds.ng, "error">>>>

ThresholdsThere(bank) == <<<<bank # Absent => bank.thresholds # Absent, "asset">>>>

\* score and score_spatial: the bank fits the features and is calibrated.
ScoreConditions(bank) ==
  <<<<bank # Absent => bank.fits /\ bank.mean # Absent /\ bank.p99 # Absent, "error">>>>

\* All of them, in the order they are met.
AllConditions(m, assets) ==
  EmbeddingConditions(m, assets) \o PcaConditions(m, assets) \o BankConditions(assets.bank)
    \o VectorConditions(assets.bank) \o ThresholdOrder(assets.bank)
    \o ScoreConditions(assets.bank) \o ThresholdsThere(assets.bank)

\* _nearest_finite_distances: searched with an index, a patch without a finite
\* distance is at distance 0 ...
IndexedDistances(found) ==
  [cell \in DOMAIN found |-> IF found[cell] = Absent THEN 0 ELSE found[cell]]

\* ... but _score_with_faiss hands over to the exact search, which keeps it, and
\* so does an index that is not there, does not load or does not fit.
Distances(found, m, assets) ==
  IF m.spatial /\ assets.faiss THEN IndexedDistances(found) ELSE found

-----------------------------------------------------------------------------
\* _map_roi_bbox_to_source: a box in the region, given in den-ths of a pixel,
\* is scaled to the region's place in the image, rounded outwards and kept there.
\* The scaling of each axis stands for the homography roi_to_source_matrix, which
\* it is for an upright region; a turned or warped one differs by its inner points.
\* Mutant: the box is left in the coordinates of the region.
ToSourceUnmapped(b, den, group) == [i \in 1 .. 4 |-> b[i] \div den]

ToSource(b, den, group) ==
  LET w == BoxSize(group.box)[1]
      h == BoxSize(group.box)[2]
      along(v, size, span) == IF size = 1 THEN <<v, den>>
                              ELSE <<v * (span - 1), den * (size - 1)>>
      floor(q) == q[1] \div q[2]
      ceiling(q) == -((-q[1]) \div q[2])
  IN  <<Clamp(group.box[1] + floor(along(b[1], group.width, w)), group.box[1], group.box[3]),
        Clamp(group.box[2] + floor(along(b[2], group.height, h)), group.box[2], group.box[4]),
        Clamp(group.box[1] + ceiling(along(b[3], group.width, w)), group.box[1], group.box[3]),
        Clamp(group.box[2] + ceiling(along(b[4], group.height, h)), group.box[2], group.box[4])>>

Candidate(group, score, b, thresholds) ==
  [view |-> group.view, roi |-> group.roi, score |-> score, box |-> b, area |-> Area(b),
   evidence |-> group.evidence, recheck |-> thresholds.recheck, ng |-> thresholds.ng]

RecipeThresholds == [recheck |-> Absent, ng |-> Absent]

\* ndimage.label: the connected parts of a set of cells <<row, column>>, where
\* cells touch along an edge.
Touch(c, d) == AbsDifference(c[1], d[1]) + AbsDifference(c[2], d[2]) = 1

Components(cells) ==
  LET closed(C) == \A c \in C, d \in cells \ C : ~Touch(c, d)
      parts == {C \in (SUBSET cells) \ {{}} : closed(C)}
  IN  {C \in parts : \A D \in parts : D \subseteq C => D = C}

\* _anomaly_map_bboxes: the parts of the map above a threshold of their own,
\* each with its highest score and its box in the image.
AnomalyBoxes(map, recheck, m, group) ==
  LET peak == Max(Range(map))
      threshold == Max({recheck * m.minRatio, peak * m.relative})  \* in hundredths
      rows == Max({c[1] : c \in DOMAIN map})
      columns == Max({c[2] : c \in DOMAIN map})
      parts == Components({c \in DOMAIN map : 10 * map[c] >= threshold})
      inRegion(C) == <<(Min({c[2] : c \in C}) - 1) * group.width * rows,
                       (Min({c[1] : c \in C}) - 1) * group.height * columns,
                       Max({c[2] : c \in C}) * group.width * rows,
                       Max({c[1] : c \in C}) * group.height * columns>>
  IN  {[score |-> Max({map[c] : c \in C}),
        box |-> ToSource(inRegion(C), rows * columns, group)] : C \in parts}

\* PatchCoreModel.run: an asset or an error that stops it, or its candidates.
RunPatchCore(m, assets, group, observation) ==
  LET problem == FirstFailure(AllConditions(m, assets))
      bank == assets.bank
      distances == Distances(observation.distances, m, assets)
      finite == Absent \notin Range(distances)
      map == [cell \in DOMAIN distances |-> CalibratedScore(distances[cell], bank)]
      peak == Max(Range(map))
      boxes == AnomalyBoxes(map, bank.thresholds.recheck, m, group)
      spatial == {Candidate(group, x.score, x.box, bank.thresholds) : x \in boxes}
      globally == {Candidate(group, peak, group.box, bank.thresholds)}
  IN  CASE problem # "ok" -> [kind |-> problem]
        [] problem = "ok" /\ ~finite /\ m.spatial -> [kind |-> "error"]
        [] problem = "ok" /\ ~finite /\ ~m.spatial ->
             [kind |-> "ok",
              candidates |-> <<Candidate(group, Absent, group.box, bank.thresholds)>>]
        [] OTHER -> [kind |-> "ok",
                     candidates |-> IF peak < bank.thresholds.recheck THEN <<>>
                                    ELSE SetToSeq(IF m.spatial THEN spatial ELSE globally)]
=============================================================================
