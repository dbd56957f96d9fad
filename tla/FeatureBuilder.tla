--------------------------- MODULE FeatureBuilder ---------------------------
(***************************************************************************)
(* FeatureBuilder.build (python_detector/pipeline/feature_builder.py):     *)
(* what each model gets to see of a cube.  A channel is a name split at    *)
(* its colons; of its values only the lights they come from are kept.      *)
(***************************************************************************)
EXTENDS ReflectanceCube

\* _CHANNEL_ALIASES
Aliases ==
  [ch0_diffuse |-> <<"light", "DIFFUSE">>,
   ch1_polar_diffuse |-> <<"light", "POLAR_DIFFUSE">>,
   ch2_high_left |-> <<"light", "HIGH_LEFT">>,
   ch3_high_right |-> <<"light", "HIGH_RIGHT">>,
   ch4_high_max_min |-> <<"max_min", "HIGH_LEFT", "HIGH_RIGHT">>,
   optional_dark_low_lr_diff |-> <<"abs_diff", "LOW_LEFT", "LOW_RIGHT">>,
   optional_dark_low_max_min |-> <<"max_min", "LOW_LEFT", "LOW_RIGHT">>,
   aux_local_contrast |-> <<"local_contrast", "DIFFUSE">>,
   aux_specular_removed |-> <<"abs_diff", "DIFFUSE", "POLAR_DIFFUSE">>]

\* _parse_channel_spec: the operation and its lights; Absent if it is neither an
\* alias nor a known operation with the number of lights it takes.
ChannelSpec(channel) ==
  LET spec == IF Len(channel) = 1 /\ channel[1] \in DOMAIN Aliases
              THEN Aliases[channel[1]] ELSE channel
      takes == Len(spec) - 1
  IN  IF \/ spec[1] \in {"light", "local_contrast"} /\ takes = 1
         \/ spec[1] = "abs_diff" /\ takes = 2
         \/ spec[1] = "max_min" /\ takes >= 2
      THEN spec ELSE Absent

SpecLights(spec) == ToSet(Tail(spec))

\* _build_channel: every light of the channel must be in the cube, and a channel
\* of several lights needs cut-outs of one size.
CanBuild(channel, cube) ==
  LET spec == ChannelSpec(channel)
  IN  /\ spec # Absent
      /\ SpecLights(spec) \subseteq DOMAIN cube.frames
      /\ \A k, l \in DOMAIN cube.frames :
           cube.frames[k].width * cube.frames[k].height
             = cube.frames[l].width * cube.frames[l].height

\* _make_feature_group; evidence is what evidence_lights() makes of it.
FeatureGroup(cube, key, r) ==
  LET f == cube.frames[CHOOSE l \in DOMAIN cube.frames : TRUE]
      channels == r.models[key].channels
  IN  [view |-> cube.view, roi |-> cube.roi, key |-> key, box |-> cube.box,
       width |-> f.width, height |-> f.height,
       evidence |-> UNION {SpecLights(ChannelSpec(channels[i])) : i \in DOMAIN channels}]

\* build: a group for the region's primary model and one for its safety net, or
\* Absent if a channel of any of them cannot be built.
FeatureGroups(cubes, r) ==
  LET keys(cube) == ModelKeys(r, cube.view, cube.roi)
      channels(cube) == UNION {ToSet(r.models[keys(cube)[i]].channels) : i \in DOMAIN keys(cube)}
      groups(cube) == [i \in DOMAIN keys(cube) |-> FeatureGroup(cube, keys(cube)[i], r)]
  IN  IF \A i \in DOMAIN cubes :
           /\ DOMAIN cubes[i].frames # {}
           /\ \A channel \in channels(cubes[i]) : CanBuild(channel, cubes[i])
      THEN FlattenSeq([i \in DOMAIN cubes |-> groups(cubes[i])])
      ELSE Absent
=============================================================================
