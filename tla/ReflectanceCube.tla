--------------------------- MODULE ReflectanceCube ---------------------------
(***************************************************************************)
(* ReflectanceCubeBuilder and EccRegistration                              *)
(* (python_detector/pipeline/reflectance_cube.py, ecc_registration.py):    *)
(* the cut-outs of one region under all lights of the camera are brought   *)
(* into register.  "offset" of a cut-out is how far what it shows is       *)
(* displaced, in pixels; a shift is the answer registration gives.         *)
(***************************************************************************)
EXTENDS Preprocessor

Magnitude2(shift) == shift[1] * shift[1] + shift[2] * shift[2]
AbsDifference(a, b) == IF a > b THEN a - b ELSE b - a
Displacement(base, moving) ==
  <<moving.offset[1] - base.offset[1], moving.offset[2] - base.offset[2]>>

\* _normalized_correlation, in tenths, of the part two images share after a
\* shift.  Images of one scene correlate the better the nearer the shift is to
\* their displacement; blank or featureless ones do not correlate at all.
Correlation(base, moving, shift) ==
  LET d == Displacement(base, moving)
      shared(i, size) == size - AbsDifference(shift[i], 0)
      distance == AbsDifference(shift[1], d[1]) + AbsDifference(shift[2], d[2])
  IN  IF \/ base.blank \/ moving.blank \/ "flat" \in {base.texture, moving.texture}
         \/ shared(1, base.width) <= 0 \/ shared(2, base.height) <= 0
         \/ shared(1, base.width) * shared(2, base.height) < 4
      THEN -10 ELSE Max({-10, 10 - distance})

Shifts(radius) == (-radius .. radius) \X (-radius .. radius)

\* _ecc_exhaustive tries the shifts ring by ring, each ring row by row ...
Ring(shift) == Max({AbsDifference(shift[1], 0), AbsDifference(shift[2], 0)})

TriedBefore(s, t) ==
  \/ Ring(s) < Ring(t)
  \/ Ring(s) = Ring(t) /\ (s[2] < t[2] \/ (s[2] = t[2] /\ s[1] < t[1]))

\* ... up to max_iterations of them, and not beyond the first ring that brings
\* no improvement.
Exhaustive(base, moving, registration) ==
  LET radius == Min({registration.searchRadius, 10})
      tried(r) == {s \in Shifts(r) : Cardinality({t \in Shifts(r) : TriedBefore(t, s)})
                                       < registration.maxIterations}
      value(s) == Correlation(base, moving, s)
      best(r) == Max({value(s) : s \in tried(r)} \cup {-10})
      last == CHOOSE r \in 0 .. radius :
                /\ \/ r = radius
                   \/ Cardinality(Shifts(r)) >= registration.maxIterations
                   \/ r > 0 /\ best(r) - best(r - 1) < registration.epsilon
                /\ \A q \in 0 .. r - 1 :
                     /\ Cardinality(Shifts(q)) < registration.maxIterations
                     /\ q > 0 => best(q) - best(q - 1) >= registration.epsilon
      found == {s \in tried(last) : value(s) = best(last)}
  IN  [shift |-> IF best(last) = -10 THEN <<0, 0>>
                 ELSE CHOOSE s \in found : \A t \in found \ {s} : TriedBefore(s, t),
       converged |-> best(last) >= registration.minCorrelation /\ best(last) >= 0]

\* _ecc_opencv: the gradient search of OpenCV, where it is installed and the
\* images correlate; align_translation falls back on the exhaustive search.
\* findTransformECC is outside and idealised: it answers the displacement itself.
Align(base, moving, registration, site) ==
  LET d == Displacement(base, moving)
      value == Correlation(base, moving, d)
  IN  CASE <<base.width, base.height>> # <<moving.width, moving.height>> ->
             [shift |-> <<0, 0>>, converged |-> FALSE]
        [] <<base.width, base.height>> = <<moving.width, moving.height>>
             /\ site.opencv /\ value > -10 ->
             [shift |-> d, converged |-> value >= registration.minCorrelation /\ value >= 0]
        [] OTHER -> Exhaustive(base, moving, registration)

\* Mutant: the shift is applied with the wrong sign.
TranslateAway(f, shift) ==
  [f EXCEPT !.offset = <<@[1] + shift[1], @[2] + shift[2]>>]

\* apply_translation
Translate(f, shift) ==
  [f EXCEPT !.offset = <<@[1] - shift[1], @[2] - shift[2]>>]

-----------------------------------------------------------------------------
\* _registration_report, method "fixed_calibration": the calibrated shift of
\* every light, which is measured and never applied.
FixedReport(frames, base, lights, calibration, q) ==
  LET present == ToSet(lights) \cap DOMAIN frames
  IN  [frames |-> frames,
       pass |-> /\ base \in DOMAIN frames
                /\ present \subseteq DOMAIN calibration.alignment
                /\ \A l \in present :
                     Magnitude2(calibration.alignment[l]) <= q.maxError * q.maxError]

\* _ecc_registration_report and _apply_ecc_alignments: every light is aligned
\* to the base light, and all of them are or none.
EccReport(frames, base, lights, r, site) ==
  LET moving == (ToSet(lights) \cap DOMAIN frames) \ {base}
      found == [l \in moving |-> Align(frames[base], frames[l], r.registration, site)]
      pass == /\ base \in DOMAIN frames
              /\ \A l \in moving :
                   /\ found[l].converged
                   /\ Magnitude2(found[l].shift) <= r.quality.maxError * r.quality.maxError
  IN  [pass |-> pass,
       frames |-> IF ~pass THEN frames
                  ELSE [l \in DOMAIN frames |->
                          IF l \in moving THEN Translate(frames[l], found[l].shift)
                          ELSE frames[l]]]

\* _build_roi_cube
Cube(bundle, name, r, site) ==
  LET c == CameraRecipe(r, bundle.view)
      frames == bundle.rois[name]
      base == IF c.base \in DOMAIN frames THEN c.base ELSE r.registration.fallback
      report == IF r.registration.method = "ecc"
                THEN EccReport(frames, base, c.lightOrder, r, site)
                ELSE FixedReport(frames, base, c.lightOrder, bundle.calibration, r.quality)
      lights == ToSet(c.lightOrder) \cap DOMAIN frames
      shown == IF base \in DOMAIN frames THEN base ELSE CHOOSE l \in DOMAIN frames : TRUE
  IN  [view |-> bundle.view, roi |-> name, base |-> base,
       frames |-> [l \in lights |-> report.frames[l]],
       box |-> frames[shown].box, pass |-> report.pass]

\* build: one cube for each region of each bundle.
Cubes(prepared, r, site) ==
  LET ofBundle(b) == LET names == SetToSeq(DOMAIN b.rois)
                     IN  [i \in DOMAIN names |-> Cube(b, names[i], r, site)]
  IN  FlattenSeq([i \in DOMAIN prepared |-> ofBundle(prepared[i])])
=============================================================================
