---------------------------- MODULE Preprocessor ----------------------------
(***************************************************************************)
(* Preprocessor.run (python_detector/pipeline/preprocessor.py): each image *)
(* of a bundle is checked against the camera's calibration and the regions *)
(* of interest are cut out of it.                                          *)
(*                                                                         *)
(* Of a cut-out the model keeps its light, its size, its place in the      *)
(* camera's image and the displacement of what it shows; "blank" says that *)
(* a mask has left no pixel of it.                                         *)
(***************************************************************************)
EXTENDS RoiLocator

\* _assert_supported
Supported(f) ==
  /\ f.mono8 /\ f.channels = 1
  /\ f.stride >= f.width * f.channels /\ f.bytes >= f.stride * f.height

\* _assert_calibration_matches
MatchesCalibration(f, calibration) ==
  /\ f.calibration = calibration.id
  /\ f.width = calibration.width /\ f.height = calibration.height

\* _ordered_quad: top left, top right, bottom right, bottom left; a shape whose
\* corners these are not four different ones of is refused.
OrderedQuad(points) ==
  LET first(value(_)) ==
        LET least == Min({value(points[i]) : i \in DOMAIN points})
        IN  SelectSeq(points, LAMBDA p : value(p) = least)[1]
  IN  <<first(LAMBDA p : p[1] + p[2]), first(LAMBDA p : p[2] - p[1]),
        first(LAMBDA p : -p[1] - p[2]), first(LAMBDA p : p[1] - p[2])>>

\* _is_axis_aligned_rectangle
IsRectangle(quad) ==
  /\ Cardinality({quad[i][1] : i \in 1 .. 4}) = 2
  /\ Cardinality({quad[i][2] : i \in 1 .. 4}) = 2

\* _homography: the equations have a solution when no three corners lie on a
\* line, neither those of the quad nor those of the output image.
Solvable(quad, size) ==
  /\ \A i \in 1 .. 4 : TwiceArea([k \in 1 .. 3 |-> quad[((i + k) % 4) + 1]]) > 0
  /\ size[1] >= 2 /\ size[2] >= 2

\* _crop_to_roi: a rectangle of the size asked for is copied, any other shape
\* with four corners is straightened.
CanCrop(f, region) ==
  LET b == Box(region.polygon)
      quad == OrderedQuad(region.polygon)
  IN  /\ b[1] >= 0 /\ b[2] >= 0 /\ b[3] < f.width /\ b[4] < f.height
      /\ Len(region.polygon) = 4 /\ IsInjective(quad)
      /\ \/ IsRectangle(quad) /\ region.size = BoxSize(b)
         \/ Solvable(quad, region.size)
      /\ region.mask # Absent => region.mask.size = region.size

Crop(f, region) ==
  [light |-> f.light, calibration |-> f.calibration,
   width |-> region.size[1], height |-> region.size[2], box |-> Box(region.polygon),
   offset |-> f.offset, texture |-> f.texture,
   blank |-> region.mask # Absent /\ region.mask.blank]

\* run, for one bundle: its cut-outs, by region and light, or what went wrong.
Prepare(b, r, site) ==
  LET c == CameraRecipe(r, ViewOf(b))
      calibration == LoadCalibration(site, c)
      located == Locate(b, calibration.regions, r, site)
      fits == \A l \in DOMAIN b.frames :
                Supported(b.frames[l]) /\ MatchesCalibration(b.frames[l], calibration)
      cuts == \A l \in DOMAIN b.frames : \A name \in DOMAIN located.rois :
                CanCrop(b.frames[l], located.rois[name])
  IN  CASE c = Absent -> [kind |-> "error"]
        [] c # Absent /\ calibration = Absent -> [kind |-> "error"]
        [] c # Absent /\ calibration # Absent /\ ~fits -> [kind |-> "error"]
        [] OTHER ->
             IF located.kind # "ok" \/ ~cuts
             THEN [kind |-> IF located.kind # "ok" THEN located.kind ELSE "error"]
             ELSE [kind |-> "ok", view |-> ViewOf(b), calibration |-> calibration,
                   rois |-> [name \in DOMAIN located.rois |->
                               [l \in DOMAIN b.frames |->
                                  Crop(b.frames[l], located.rois[name])]]]
=============================================================================
