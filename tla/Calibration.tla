----------------------------- MODULE Calibration -----------------------------
(***************************************************************************)
(* Image geometry and the calibration of a camera                          *)
(* (python_detector/config/calibration_manager.py).                        *)
(*                                                                         *)
(* A point is <<x, y>>, a box <<x0, y0, x1, y1>> with both corners inside, *)
(* a polygon a sequence of points.  Coordinates are whole pixels and       *)
(* Rounded is Python's round: to the nearest, a half to the even one.      *)
(*                                                                         *)
(* "site" is what is installed beside the program: calibration files,      *)
(* region templates and model files.                                       *)
(***************************************************************************)
EXTENDS QualityGate

Clamp(x, low, high) == Max({low, Min({x, high})})

Rounded(a, b) ==
  LET q == a \div b
      r == 2 * (a % b)
  IN  IF r > b \/ (r = b /\ q % 2 = 1) THEN q + 1 ELSE q

Box(polygon) ==
  LET xs == {polygon[i][1] : i \in DOMAIN polygon}
      ys == {polygon[i][2] : i \in DOMAIN polygon}
  IN  <<Min(xs), Min(ys), Max(xs), Max(ys)>>

Corners(b) == <<<<b[1], b[2]>>, <<b[3], b[2]>>, <<b[3], b[4]>>, <<b[1], b[4]>>>>

BoxSize(b) == <<b[3] - b[1] + 1, b[4] - b[2] + 1>>
Area(b) == BoxSize(b)[1] * BoxSize(b)[2]

\* The common part of two boxes is at least so many tenths of their union.
Overlap(a, b, tenths) ==
  LET common == <<Max({a[1], b[1]}), Max({a[2], b[2]}),
                  Min({a[3], b[3]}), Min({a[4], b[4]})>>
      shared == IF common[1] <= common[3] /\ common[2] <= common[4]
                THEN Area(common) ELSE 0
  IN  10 * shared >= tenths * (Area(a) + Area(b) - shared)

\* _polygon_area, twice.
TwiceArea(polygon) ==
  LET next(i) == polygon[(i % Len(polygon)) + 1]
      cross == [i \in DOMAIN polygon |->
                  polygon[i][1] * next(i)[2] - next(i)[1] * polygon[i][2]]
      sum == FoldFunction(LAMBDA x, y : x + y, 0, cross)
  IN  IF sum < 0 THEN -sum ELSE sum

\* _parse_rois: every region has a polygon with an area and an output size.
RegionsOK(regions) ==
  /\ DOMAIN regions # {}
  /\ \A name \in DOMAIN regions :
       LET region == regions[name]
       IN  /\ Len(region.polygon) >= 3 /\ IsInjective(region.polygon)
           /\ TwiceArea(region.polygon) > 0
           /\ Positive(region.size[1]) /\ Positive(region.size[2])

\* A file nobody has installed is not there.
FileAt(files, key) == IF key \in DOMAIN files THEN files[key] ELSE Absent

\* CalibrationManager.load: the camera's calibration, with the regions of the
\* camera's template file in place of its own; Absent if a file is missing, is
\* someone else's or is malformed.
LoadCalibration(site, c) ==
  LET file == FileAt(site.calibrations, <<c.camera, c.calibration>>)
      regions == FileAt(site.templates, c.template)
  IN  IF /\ file # Absent /\ regions # Absent
         /\ file.camera = c.camera /\ file.id = c.calibration
         /\ RegionsOK(file.regions) /\ RegionsOK(regions)
      THEN [file EXCEPT !.regions = regions]
      ELSE Absent
=============================================================================
