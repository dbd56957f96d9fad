----------------------------- MODULE RoiLocator -----------------------------
(***************************************************************************)
(* RoiLocator.locate (python_detector/pipeline/roi_locator.py): where in   *)
(* this image are the regions to inspect?  Either where the template says, *)
(* or where a model sees them in the image of the dome light; then every   *)
(* region of the template must be found, once, near its place.             *)
(*                                                                         *)
(* A reading is what one detection says of a region: its name, confidence, *)
(* polygon, output size, mask and displacement; it is Absent if the code   *)
(* raises ValueError for it.                                               *)
(***************************************************************************)
EXTENDS YoloDecode

\* The regions a class can stand for; classes are numbered from 0.
RegionOf(class, templates, roi) ==
  IF class # Absent /\ class + 1 \in DOMAIN roi.classes
     /\ roi.classes[class + 1] \in DOMAIN templates
  THEN roi.classes[class + 1] ELSE Absent

-----------------------------------------------------------------------------
\* _fake_yolo_rows: the templates themselves, seen with confidence 0.99.
FakeRows(templates, roi) ==
  LET known == At(roi.classes, {i \in DOMAIN roi.classes : roi.classes[i] \in DOMAIN templates})
      class(name) == (CHOOSE i \in DOMAIN roi.classes : roi.classes[i] = name) - 1
  IN  [i \in DOMAIN known |->
         [box |-> Box(templates[known[i]].polygon), score |-> 10,
          class |-> class(known[i]), nan |-> {}]]

\* _letterbox_array: the image is scaled into the model's input and centred;
\* the scale is num / den, the margins are in half pixels.
Letterbox(f, roi) ==
  LET w == IF roi.inputWidth = 0 THEN f.width ELSE roi.inputWidth
      h == IF roi.inputHeight = 0 THEN f.height ELSE roi.inputHeight
      wide == w * f.height <= h * f.width
      num == IF wide THEN w ELSE h
      den == IF wide THEN f.width ELSE f.height
  IN  [width |-> w, height |-> h, num |-> num, den |-> den,
       padX |-> w - Max({1, Rounded(f.width * num, den)}),
       padY |-> h - Max({1, Rounded(f.height * num, den)})]

\* _bbox_from_model_input: back from the model's input to the image.
BoxFromModel(b, t, f) ==
  LET x(v) == Clamp(Rounded((2 * v - t.padX) * t.den, 2 * t.num), 0, f.width - 1)
      y(v) == Clamp(Rounded((2 * v - t.padY) * t.den, 2 * t.num), 0, f.height - 1)
  IN  <<x(b[1]), y(b[2]), x(b[3]), y(b[4])>>

\* _uses_proto_canvas_bbox: the mask covers the model's whole input in a
\* coarser grid.
UsesProtoCanvas(c, t) ==
  /\ c.mask.grid # <<t.width, t.height>>
  /\ c.maskBox = <<0, 0, c.mask.grid[1] - 1, c.mask.grid[2] - 1>>

\* _crop_mask_to_canvas_bbox: the part of such a mask that lies in the box.
CropMask(mask, b, t) ==
  LET low(v, cells, size) == Clamp((Clamp(v, 0, size - 1) * cells) \div size, 0, cells - 1)
      high(v, cells, size) == -((-(Clamp(v, 0, size - 1) + 1) * cells) \div size) - 1
      x0 == low(b[1], mask.grid[1], t.width)
      y0 == low(b[2], mask.grid[2], t.height)
      x1 == Clamp(high(b[3], mask.grid[1], t.width), x0, mask.grid[1] - 1)
      y1 == Clamp(high(b[4], mask.grid[2], t.height), y0, mask.grid[2] - 1)
      set == mask.cells
      inside == <<Max({set[1], x0}) - x0, Max({set[2], y0}) - y0,
                  Min({set[3], x1}) - x0, Min({set[4], y1}) - y0>>
  IN  [grid |-> <<x1 - x0 + 1, y1 - y0 + 1>>,
       cells |-> IF set = Absent THEN Absent
                 ELSE IF inside[1] <= inside[3] /\ inside[2] <= inside[4]
                      THEN inside ELSE Absent]

\* _map_segmentation_candidate_from_model_input
MapCandidate(c, t, f, roi) ==
  LET proto == roi.decode = "ultralytics_yolo_seg" /\ UsesProtoCanvas(c, t)
  IN  [c EXCEPT !.box = BoxFromModel(@, t, f),
                !.maskBox = BoxFromModel(IF proto THEN c.box ELSE @, t, f),
                !.mask = IF proto THEN CropMask(@, c.box, t) ELSE @]

-----------------------------------------------------------------------------
\* _location_from_row; a normalised box is in tenths of the image.  The box is
\* not mapped back from a letterboxed input: the transform was dropped.
RowReading(row, f, templates, roi) ==
  LET name == RegionOf(row.class, templates, roi)
      normalized == roi.bboxFormat = "xyxy_normalized"
      scaled == <<Rounded(row.box[1] * (f.width - 1), 10),
                  Rounded(row.box[2] * (f.height - 1), 10),
                  Rounded(row.box[3] * (f.width - 1), 10),
                  Rounded(row.box[4] * (f.height - 1), 10)>>
      b == IF normalized THEN scaled ELSE row.box
      t == Box(templates[name].polygon)
  IN  IF /\ row.nan = {} /\ Ratio(row.score) /\ name # Absent
         /\ normalized => \A i \in 1 .. 4 : Ratio(row.box[i])
         /\ 0 <= b[1] /\ b[1] <= b[3] /\ b[3] < f.width
         /\ 0 <= b[2] /\ b[2] <= b[4] /\ b[4] < f.height
      THEN [name |-> name, confidence |-> row.score, polygon |-> Corners(b),
            size |-> templates[name].size, mask |-> Absent,
            displacement |-> Max({t[i] - b[i] : i \in 1 .. 4}
                                   \cup {b[i] - t[i] : i \in 1 .. 4})]
      ELSE Absent

\* _mask_to_roi_mask erodes the mask by a pixel on each side: nothing is left
\* of one that is two pixels wide or high.
ErodedMask(size) == [size |-> size, blank |-> size[1] <= 2 \/ size[2] <= 2]

\* _location_from_segmentation: the region is the mask's box in the image.
MaskReading(c, f, templates, roi) ==
  LET name == RegionOf(c.class, templates, roi)
      set == c.mask.cells
      grid == c.mask.grid
      span == <<Max({1, BoxSize(c.maskBox)[1]}), Max({1, BoxSize(c.maskBox)[2]})>>
      edge(low, cell, i) == Rounded(low * grid[i] + cell * span[i], grid[i])
      b == <<Clamp(edge(c.maskBox[1], set[1], 1), 0, f.width - 1),
             Clamp(edge(c.maskBox[2], set[2], 2), 0, f.height - 1),
             Clamp(edge(c.maskBox[1], set[3] + 1, 1) - 1, 0, f.width - 1),
             Clamp(edge(c.maskBox[2], set[4] + 1, 2) - 1, 0, f.height - 1)>>
      area == Area(set) * span[1] * span[2]     \* times the cells of the grid
      cells == grid[1] * grid[2]
      t == Box(templates[name].polygon)
      whole == f.width * f.height * cells
  IN  IF /\ Ratio(c.score) /\ name # Absent /\ set # Absent
         /\ area >= roi.minMaskArea * cells
         /\ 10 * area \in roi.minMaskRatio * whole .. roi.maxMaskRatio * whole
      THEN [name |-> name, confidence |-> c.score, polygon |-> Corners(b),
            size |-> BoxSize(b), mask |-> ErodedMask(BoxSize(b)),
            displacement |-> Max({t[1] - b[1], t[2] - b[2], b[3] - t[3], b[4] - t[4], 0})]
      ELSE Absent

-----------------------------------------------------------------------------
\* Two readings of one region: boxes must be the same, masks may differ a little.
Agree(p, q, exact) == p = q \/ (~exact /\ Overlap(Box(p), Box(q), 9))

\* The second half of _locations_from_detections and
\* _locations_from_segmentations: the most confident reading of each region
\* stands, unless something was wrong with any reading.
Located(readings, templates, roi, exact) ==
  LET wrong(x) == \/ x = Absent
                  \/ x.confidence >= roi.minConfidence /\ x.displacement > roi.maxPoseError
      good == {i \in DOMAIN readings : /\ readings[i] # Absent
                                      /\ readings[i].confidence >= roi.minConfidence}
      before(x, y) == \/ x.confidence > y.confidence
                      \/ x.confidence = y.confidence /\ x.displacement < y.displacement
      of(name) == {i \in good : readings[i].name = name}
      best(name) == readings[CHOOSE i \in of(name) :
                               \A j \in of(name) \ {i} :
                                 \/ before(readings[i], readings[j])
                                 \/ ~before(readings[j], readings[i]) /\ i < j]
      names == {readings[i].name : i \in good}
  IN  IF /\ \A i \in DOMAIN readings : ~wrong(readings[i])
         /\ names = DOMAIN templates /\ names # {}
         /\ \A i \in good :
              Agree(readings[i].polygon, best(readings[i].name).polygon, exact)
      THEN [name \in names |-> [polygon |-> best(name).polygon, size |-> best(name).size,
                                mask |-> best(name).mask]]
      ELSE Absent

\* locate: the regions of this bundle's images, or why there are none: "recheck"
\* when the seat cannot be located, "asset" when the model is not there, "error".
Templates(templates) ==
  [name \in DOMAIN templates |-> [polygon |-> templates[name].polygon,
                                  size |-> templates[name].size, mask |-> Absent]]

Locate(b, templates, r, site) ==
  LET roi == r.roi
      dome == b.frames[DomeLight(r)]
      t == Letterbox(dome, roi)
      output == site.roiOutput[b.camera]
      rows == IF roi.backend = "fake_yolo" THEN FakeRows(templates, roi)
              ELSE DecodeRows(output, roi.minConfidence, roi.decode)
      masks == DecodeMasks(output, roi.minConfidence, roi.decode)
      detected == Located([i \in DOMAIN rows |-> RowReading(rows[i], dome, templates, roi)],
                          templates, roi, TRUE)
      segmented == Located([i \in DOMAIN masks |->
                              MaskReading(MapCandidate(masks[i], t, dome, roi),
                                          dome, templates, roi)],
                           templates, roi, FALSE)
      answer(x) == IF x = Absent THEN [kind |-> "recheck"] ELSE [kind |-> "ok", rois |-> x]
      model == roi.backend \in {"onnx_yolo", "onnx_yolo_seg"}
  IN  CASE DomeLight(r) \notin DOMAIN b.frames -> [kind |-> "recheck"]
        [] DomeLight(r) \in DOMAIN b.frames /\ roi.backend = "template" ->
             answer(Templates(templates))
        [] DomeLight(r) \in DOMAIN b.frames /\ model /\ ~site.roiModel -> [kind |-> "asset"]
        [] DomeLight(r) \in DOMAIN b.frames /\ roi.backend = "onnx_yolo_seg" /\ site.roiModel ->
             IF masks = Absent THEN [kind |-> "error"] ELSE answer(segmented)
        [] OTHER -> IF rows = Absent THEN [kind |-> "error"] ELSE answer(detected)
=============================================================================
