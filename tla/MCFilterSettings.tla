-------------------------- MODULE MCFilterSettings --------------------------
(* An instance of FilterSettings for TLC: scenes, edits and shapings. *)
EXTENDS FilterSettings

Scene(version, mode, model, legacy, label, tuning) ==
  [version |-> version, mode |-> mode, model |-> model, legacy |-> legacy,
   label |-> label, tuning |-> tuning]

OwnTuning == [DefaultTuning EXCEPT !.temporalSmoothFactor = 99, !.edgeSoftness = 0]

\* a new filter; scenes of older versions; a scene of this one
MCSavedSettings ==
  {Defaults,
   Scene(0, "auto", "seg", None, "custom", Preset["crisp"]),
   Scene(0, "auto", "depth", None, "custom", OwnTuning),
   Scene(0, "auto", "mediapipe", None, "soft", OwnTuning),
   Scene(2, "legacy", "rvm", "seg", "clean", Preset["natural"])}

\* among them one that leaves a style, and one that returns to it
MCEdits ==
  {<<"temporalSmoothFactor", 99>>, <<"temporalSmoothFactor", 84>>, <<"numThreads", 1>>,
   <<"maskEveryXFrames", 2>>, <<"enableThreshold", FALSE>>}

\* strengths that mean something on so small a picture
Shaping(softness, cleanup, contour, smooth, expansion, feather) ==
  [enableThreshold |-> TRUE, threshold |-> 50, edgeSoftness |-> softness,
   foregroundCleanup |-> cleanup, contourFilter |-> contour, smoothContour |-> smooth,
   maskExpansion |-> expansion, feather |-> feather]

MCShapings ==
  {Shaping(10, 22, 30, 5, -1, 5), Shaping(0, 100, 0, 5, 1, 0), Shaping(18, 50, 0, 0, 0, 0)}
=============================================================================
