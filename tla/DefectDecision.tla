--------------------------- MODULE DefectDecision ---------------------------
(***************************************************************************)
(* From candidates to a verdict (python_detector/pipeline/fusion_engine.py,*)
(* defect_filter.py, rule_engine.py).  A verdict has the fields the        *)
(* controller checks: decision, quality, code and whether there is a       *)
(* defect.                                                                 *)
(***************************************************************************)
EXTENDS InferenceEngine

\* FusionEngine._validate_candidate: what the models gave can be compared.
CandidateOK(c) ==
  /\ Ratio(c.score) /\ c.box[1] <= c.box[3] /\ c.box[2] <= c.box[4]
  /\ c.area > 0 /\ c.evidence # {}

\* _merge_candidates: the box around both, judged by the thresholds of the one
\* with the higher score.
MergedBox(a, b) ==
  <<Min({a[1], b[1]}), Min({a[2], b[2]}), Max({a[3], b[3]}), Max({a[4], b[4]})>>

\* Mutant: what is merged keeps the box of the higher score.
MergeIntoBetter(primary, secondary) ==
  LET keeper == IF primary.score >= secondary.score THEN primary ELSE secondary
  IN  [keeper EXCEPT !.evidence = primary.evidence \cup secondary.evidence]

\* Mutant: what is merged is judged by the levels of what was merged last.
MergeUnderLastLevels(primary, secondary) ==
  LET keeper == IF primary.score >= secondary.score THEN primary ELSE secondary
  IN  [keeper EXCEPT !.box = MergedBox(primary.box, secondary.box),
                     !.area = Area(MergedBox(primary.box, secondary.box)),
                     !.evidence = primary.evidence \cup secondary.evidence,
                     !.recheck = secondary.recheck, !.ng = secondary.ng]

Merge(primary, secondary) ==
  LET keeper == IF primary.score >= secondary.score THEN primary ELSE secondary
  IN  [keeper EXCEPT !.box = MergedBox(primary.box, secondary.box),
                     !.area = Area(MergedBox(primary.box, secondary.box)),
                     !.evidence = primary.evidence \cup secondary.evidence]

\* sorted(..., key=score, reverse=True), which is stable.
ByScore(candidates) ==
  Ranked(DOMAIN candidates, LAMBDA i, j : \/ candidates[i].score > candidates[j].score
                                          \/ candidates[i].score = candidates[j].score /\ i < j)

\* One round of _nms_group: a candidate joins the first one kept of its region
\* that it overlaps, takes a place of its own or overflows.
Place(state, c, fusion) ==
  LET region == {k \in DOMAIN state.kept : state.kept[k].view = c.view /\ state.kept[k].roi = c.roi}
      over == {k \in region : Overlap(state.kept[k].box, c.box, fusion.iou)}
  IN  CASE over # {} -> [state EXCEPT !.kept[Min(over)] = Merge(@, c), !.suppressed = @ + 1]
        [] over = {} /\ Cardinality(region) < fusion.maxPerRoi ->
             [state EXCEPT !.kept = Append(@, c)]
        [] OTHER -> [state EXCEPT !.overflow = @ + 1]

\* _nms_group, for all regions at once: the rounds of one do not depend on those
\* of another.
Suppress(candidates, fusion) ==
  LET order == ByScore(candidates)
      state[n \in 0 .. Len(order)] ==
        IF n = 0 THEN [kept |-> <<>>, suppressed |-> 0, overflow |-> 0]
        ELSE Place(state[n - 1], candidates[order[n]], fusion)
  IN  state[Len(order)]

\* fuse: Absent if a candidate is not fit to be compared.
Fuse(candidates, fusion) ==
  IF \A i \in DOMAIN candidates : CandidateOK(candidates[i])
  THEN Suppress(candidates, fusion)
  ELSE Absent

-----------------------------------------------------------------------------
\* DefectFilter._aspect_ratio_ok: bounds in tenths, 0 for none.
AspectOK(b, t) ==
  LET size == BoxSize(b)
  IN  /\ t.minAspect > 0 => 10 * size[1] >= t.minAspect * size[2]
      /\ t.maxAspect > 0 => 10 * size[1] <= t.maxAspect * size[2]

\* Mutant: a defect that is too small for NG is dropped.
JudgeSmallPasses(c, t) ==
  CASE c.area < t.minArea -> "pass"
    [] c.area >= t.minArea /\ c.score >= Given(c.ng, t.ng) /\ AspectOK(c.box, t) -> "NG"
    [] OTHER -> IF c.score >= Given(c.recheck, t.recheck) THEN "RECHECK" ELSE "pass"

\* DefectFilter.filter: what becomes of one candidate, "pass" if nothing.
Judge(c, t) ==
  LET recheck == Given(c.recheck, t.recheck)
      ng == Given(c.ng, t.ng)
  IN  CASE c.score >= ng /\ c.area >= t.minArea /\ AspectOK(c.box, t) -> "NG"
        [] ~(c.score >= ng /\ c.area >= t.minArea /\ AspectOK(c.box, t))
             /\ c.score >= recheck -> "RECHECK"
        [] OTHER -> "pass"

\* make_quality_fail_result, make_error_result and make_recheck_result
QualityFailed == [decision |-> "RECHECK", quality |-> FALSE, code |-> "QualityFailed",
                  defects |-> FALSE]

InternalError == [decision |-> "ERROR", quality |-> FALSE, code |-> "InternalError",
                  defects |-> FALSE]

AssetUnavailable(quality) == [decision |-> "RECHECK", quality |-> quality,
                              code |-> "ConfigurationError", defects |-> FALSE]

\* Mutant: an overflow is noted, and the decision left as it was.
DecideNotingOverflow(fused, t) ==
  LET judged(j) == \E i \in DOMAIN fused.kept : Judge(fused.kept[i], t) = j
      worst == IF judged("NG") THEN "NG" ELSE IF judged("RECHECK") THEN "RECHECK" ELSE "OK"
  IN  [decision |-> worst, quality |-> TRUE,
       code |-> IF fused.overflow > 0 /\ worst = "OK" THEN "ConfigurationError" ELSE "None",
       defects |-> judged("NG") \/ judged("RECHECK")]

\* Mutant: what was merged counts as not judged.
DecideDistrustingMerged(fused, t) ==
  LET judged(j) == \E i \in DOMAIN fused.kept : Judge(fused.kept[i], t) = j
      worst == IF judged("NG") THEN "NG" ELSE IF judged("RECHECK") THEN "RECHECK" ELSE "OK"
      unjudged == fused.overflow + fused.suppressed > 0 /\ worst = "OK"
  IN  [decision |-> IF unjudged THEN "RECHECK" ELSE worst,
       quality |-> TRUE,
       code |-> IF unjudged THEN "ConfigurationError" ELSE "None",
       defects |-> judged("NG") \/ judged("RECHECK")]

\* RuleEngine.decide: the worst judgement stands; what overflowed was not
\* judged, so it cannot be passed.
Decide(fused, t) ==
  LET judged(j) == \E i \in DOMAIN fused.kept : Judge(fused.kept[i], t) = j
      worst == IF judged("NG") THEN "NG" ELSE IF judged("RECHECK") THEN "RECHECK" ELSE "OK"
      unjudged == fused.overflow > 0 /\ worst = "OK"
  IN  [decision |-> IF unjudged THEN "RECHECK" ELSE worst,
       quality |-> TRUE,
       code |-> IF unjudged THEN "ConfigurationError" ELSE "None",
       defects |-> judged("NG") \/ judged("RECHECK")]
=============================================================================
