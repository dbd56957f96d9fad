--------------------------- MODULE InferenceEngine ---------------------------
(***************************************************************************)
(* InferenceEngine.infer (python_detector/models/inference_engine.py): the *)
(* models of a recipe and what each finds in the features of a region.     *)
(*                                                                         *)
(* An observation is what the network behind a model answers: the rows of  *)
(* an ONNX detector, the distances of PatchCore and, for the stand-in used *)
(* until a model is trained, whether a feature is brighter than 240.       *)
(***************************************************************************)
EXTENDS PatchCore

\* FakeModel.run: its scores are 0.88 and 0.22.
RunFake(m, group, answer) ==
  LET b == ToSource(<<0, 0, Min({8, group.width}) - 1, Min({8, group.height}) - 1>>, 1, group)
      one(score) == <<Candidate(group, score, b, RecipeThresholds)>>
  IN  [kind |-> "ok",
       candidates |-> CASE m.fakeMode = "ok" -> <<>>
                        [] m.fakeMode = "ng" -> one(9)
                        [] m.fakeMode = "recheck" -> one(2)
                        [] OTHER -> IF answer.bright THEN one(2) ELSE <<>>]

\* OnnxModel._decode_detection_rows and _map_bbox_xyxy: one bad row spoils the
\* output, but a row below the threshold is not looked at.
DetectionOK(row, m, group) ==
  LET b == row.box
      inside(v, size) == IF m.bboxFormat = "xyxy_normalized" THEN Ratio(v) ELSE v \in 0 .. size - 1
  IN  /\ row.class # Absent /\ row.class >= 0 /\ row.nan = {}
      /\ inside(b[1], group.width) /\ inside(b[3], group.width) /\ b[1] <= b[3]
      /\ inside(b[2], group.height) /\ inside(b[4], group.height) /\ b[2] <= b[4]

DetectionBox(row, m, group) ==
  LET w == group.width - 1
      h == group.height - 1
  IN  IF m.bboxFormat = "xyxy_normalized"
      THEN ToSource(<<row.box[1] * w, row.box[2] * h, row.box[3] * w, row.box[4] * h>>, 10, group)
      ELSE ToSource(row.box, 1, group)

RunOnnx(m, group, output) ==
  LET rows == DecodeRows(output, m.scoreThreshold, m.decode)
      kept == Confident(rows, m.scoreThreshold)
      sound == /\ \A i \in DOMAIN rows : "score" \notin rows[i].nan /\ Ratio(rows[i].score)
               /\ \A i \in DOMAIN kept : DetectionOK(kept[i], m, group)
  IN  IF m.decode = "none" \/ rows = Absent \/ ~sound
      THEN [kind |-> "error"]
      ELSE [kind |-> "ok",
            candidates |-> [i \in DOMAIN kept |->
                              Candidate(group, kept[i].score, DetectionBox(kept[i], m, group),
                                        RecipeThresholds)]]

\* get_model and run, with the exceptions infer turns theirs into: a missing
\* file is an "asset" problem, all else an "error".
RunModel(group, r, site, observation) ==
  LET m == r.models[group.key]
      assets == site.assets[group.key]
  IN  CASE m.backend = "fake" -> RunFake(m, group, observation)
        [] m.backend = "onnx" -> IF assets.network THEN RunOnnx(m, group, observation)
                                 ELSE [kind |-> "asset"]
        [] m.backend = "patchcore_knn" -> RunPatchCore(m, assets, group, observation)

\* infer: the groups in order, until one fails.
Infer(groups, r, site, observed) ==
  LET answer == [i \in DOMAIN groups |-> RunModel(groups[i], r, site, observed[i])]
      failed == {i \in DOMAIN groups : answer[i].kind # "ok"}
  IN  IF failed # {}
      THEN answer[Min(failed)]
      ELSE [kind |-> "ok",
            candidates |-> FlattenSeq([i \in DOMAIN answer |-> answer[i].candidates])]
=============================================================================
