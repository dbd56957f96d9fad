---------------------------- MODULE QualityGate ----------------------------
(***************************************************************************)
(* ImageQualityGate.check (python_detector/pipeline/quality_gate.py): may  *)
(* the images of a job be judged at all?                                   *)
(*                                                                         *)
(* A job is what ipc/data_types.py makes of a frame slot.  A bundle holds  *)
(* the frames of one camera at one pose, one per light.  Instead of its    *)
(* pixels a frame carries the statistics the gate takes of them.  The gate *)
(* passes when no check leaves a message, so each check is a predicate.    *)
(***************************************************************************)
EXTENDS Recipe

ViewOf(b) == <<b.camera, Given(b.pose, b.camera)>>

\* The frames of the required lights, at their places in the order in which the
\* recipe requires them; a light without a frame leaves its place out.
RequiredFrames(b, r) ==
  LET lights == r.quality.required
  IN  [i \in {k \in DOMAIN lights : lights[k] \in DOMAIN b.frames} |-> b.frames[lights[i]]]

\* No two values are further apart than the bound.
Within(values, bound) == \A x, y \in values : x - y <= bound

-----------------------------------------------------------------------------
\* _check_light_sequence: each frame was taken at its light's place in the order.
LightSequenceOK(b, r) ==
  /\ \A l \in DOMAIN b.frames :
       LET f == b.frames[l]
       IN  f.seq + 1 \in DOMAIN r.lightOrder /\ r.lightOrder[f.seq + 1] = f.light
  /\ \A k, l \in DOMAIN b.frames : b.frames[k].seq = b.frames[l].seq => k = l

\* _check_robot_pose_consistency: the robot stood still during the bundle, and
\* its position is known when the recipe needs it.  0 is a value not given.
HasPose(f) == f.tcp # 0 \/ f.rpy # 0

StoodStill(fs, q, required) ==
  LET poses == {i \in DOMAIN fs : HasPose(fs[i])}
      near(a, b) == a - b \in -q.maxPoseDelta .. q.maxPoseDelta
      first == CHOOSE i \in DOMAIN fs : \A k \in DOMAIN fs : i <= k
  IN  /\ required => poses = DOMAIN fs
      /\ poses # {} => \A i \in DOMAIN fs :
           near(fs[i].tcp, fs[first].tcp) /\ near(fs[i].rpy, fs[first].rpy)

\* Mutant: positions are compared, the times they were taken at are not.
RobotPoseAtAnyTime(fs, q, required) == StoodStill(fs, q, required)

RobotPoseOK(fs, q, required) ==
  LET same(values) == (\A x, y \in values : x = y) /\ (required => 0 \notin values)
      times == {fs[i].robotTime : i \in DOMAIN fs}
  IN  /\ same({fs[i].shot : i \in DOMAIN fs})
      /\ same(times)
      /\ times = {0} => \A i \in DOMAIN fs : ~HasPose(fs[i])
      /\ StoodStill(fs, q, required)

\* _job_requires_robot_pose
RequiresRobotPose(job, r) ==
  \/ job.captureMode \notin {0, 1}
  \/ \E view \in Views(r) : ~IsDefaultView(view)
  \/ \E i, j \in DOMAIN r.cameras : i # j /\ r.cameras[i].camera = r.cameras[j].camera

\* _check_required_light_capture_params
CaptureParamsOK(fs, q) ==
  LET exposures == {fs[i].exposure : i \in DOMAIN fs}
      gains == {fs[i].gain : i \in DOMAIN fs}
  IN  /\ \A x \in exposures \cup gains : x > 0
      /\ Within(exposures, q.maxExposureDelta)
      /\ Within(gains, q.maxGainDelta)

\* _check_capture_consistency: nothing to compare with fewer than two frames.
CaptureOK(b, r, required) ==
  LET fs == RequiredFrames(b, r)
      times == {fs[i].time : i \in DOMAIN fs}
  IN  /\ LightSequenceOK(b, r)
      /\ (\E i, j \in DOMAIN fs : i # j) =>
           /\ \A t \in times : t > 0
           /\ Within(times, r.quality.maxSpan)
           /\ r.quality.monotonic =>
                \A i, j \in DOMAIN fs : i < j => fs[i].time <= fs[j].time
           /\ r.quality.uniqueIndices =>
                \A i, j \in DOMAIN fs : fs[i].index = fs[j].index => i = j
           /\ \A i, j \in DOMAIN fs : fs[i].seq = fs[j].seq => i = j
           /\ RobotPoseOK(fs, r.quality, required)
           /\ CaptureParamsOK(fs, r.quality)

-----------------------------------------------------------------------------
\* _frame_meta_messages: only whole 8-bit mono images can be measured.
FrameMetaOK(f) ==
  /\ f.mono8
  /\ f.width > 0 /\ f.height > 0 /\ f.channels = 1
  /\ f.stride >= f.width * f.channels

\* _sharpness and _motion_gradient are 0 on images too small to have one.
Sharpness(f) == IF f.width < 3 \/ f.height < 3 THEN 0 ELSE f.sharpness
MotionGradient(f) == IF f.width < 2 \/ f.height < 2 THEN 0 ELSE f.motion

\* _check_frame
FrameOK(f, q) ==
  /\ FrameMetaOK(f)
  /\ f.bytes >= f.stride * f.height
  /\ f.saturation <= q.maxSaturation /\ f.dark <= q.maxDark
  /\ f.mean \in q.minMean .. q.maxMean
  /\ Sharpness(f) >= q.minSharpness /\ MotionGradient(f) >= q.minMotion

\* _check_light_stability: the required lights are about equally bright.
LightStabilityOK(b, r) ==
  LET fs == RequiredFrames(b, r)
      usable == {i \in DOMAIN fs : FrameOK(fs[i], r.quality)}
  IN  Within({fs[i].mean : i \in usable}, r.quality.maxMeanDelta)

\* _check_camera_bundle
BundleOK(b, r, required) ==
  /\ ToSet(r.quality.required) \subseteq DOMAIN b.frames
  /\ CaptureOK(b, r, required)
  /\ \A l \in DOMAIN b.frames :
       /\ b.frames[l].camera = b.camera /\ b.frames[l].light = l
       /\ FrameOK(b.frames[l], r.quality)
  /\ LightStabilityOK(b, r)

\* The views the job brought images of.
SeenViews(job) == {ViewOf(job.bundles[i]) : i \in DOMAIN job.bundles}

\* A required view nobody photographed; but any pose of a camera will do for
\* the view named like the camera.
\* Mutant: a view counts as seen when its camera was.
MissingCamera(view, job) == \A seen \in SeenViews(job) : seen[1] # view[1]

Missing(view, job) ==
  /\ view \notin SeenViews(job)
  /\ IsDefaultView(view) => \A seen \in SeenViews(job) : seen[1] # view[1]

\* check
GatePasses(job, r) ==
  /\ job.sku = r.sku
  /\ \A i, j \in DOMAIN job.bundles :
       ViewOf(job.bundles[i]) = ViewOf(job.bundles[j]) => i = j
  /\ \A i \in DOMAIN job.bundles :
       /\ AcceptsView(r, ViewOf(job.bundles[i]))
       /\ BundleOK(job.bundles[i], r, RequiresRobotPose(job, r))
  /\ \A view \in Views(r) : ~Missing(view, job)
=============================================================================
