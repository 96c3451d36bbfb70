--------------------------- MODULE FilterSettings ---------------------------
(***************************************************************************)
(* The settings of the background filter on their way from a saved scene,  *)
(* the properties dialog or another client into the filter, and what the   *)
(* masks of its segmentation models become under them                      *)
(* (src/src/background-filter.cpp).                                        *)
(*                                                                         *)
(* OBS keeps one settings object per filter.  The user's thread writes     *)
(* into it and runs the dialog's callbacks; an update runs later on the    *)
(* graphics thread, which OBS owes for as long as `pending' is TRUE, and   *)
(* writes into the same object.  An update is three steps here: it reads   *)
(* the style, it writes the style's values, it copies all of them.         *)
(***************************************************************************)
EXTENDS MaskOperations

CONSTANTS
  SavedSettings,   \* what a scene may hold when it is loaded
  Edits,           \* the values the user may give: <<field, value>>
  Shapings,        \* further settings of PostProcess to examine
  Confidences,     \* what the model may say of the one pixel followed here
  MaxEdits,        \* bound on what users and clients change
  MaxFrames,       \* bound on the masks computed
  None

Modes  == {"auto", "quality", "performance", "legacy"}
Models == {"rvm", "mediapipe", "depth", "seg"}   \* "seg": any other segmentation model

Style(threshold, softness, refinement, cleanup, contour, smooth, temporal, similarity, expansion, every, threads) ==
  [enableThreshold |-> TRUE, threshold |-> threshold, edgeSoftness |-> softness,
   edgeRefinement |-> refinement, foregroundCleanup |-> cleanup,
   contourFilter |-> contour, smoothContour |-> smooth,
   temporalSmoothFactor |-> temporal, imageSimilarityThreshold |-> similarity,
   enableImageSimilarity |-> TRUE, maskExpansion |-> expansion,
   maskEveryXFrames |-> every, numThreads |-> threads]

\* BGOBS_PRESETS, in hundredths
Preset ==
  [natural     |-> Style(50, 10, 40, 22, 3, 58, 84, 35, 0, 1, 1),
   studio      |-> Style(47, 18, 55, 20, 2, 74, 88, 34, 1, 1, 1),
   crisp       |-> Style(54, 5, 28, 26, 4, 40, 78, 36, 0, 1, 1),
   performance |-> Style(52, 4, 15, 10, 5, 32, 65, 38, 0, 2, 1)]

Styles == DOMAIN Preset
Labels == Styles \cup {"custom", "clean", "soft"}

\* background_filter_defaults: natural's values, but an automatic number of threads
DefaultTuning == [Preset["natural"] EXCEPT !.numThreads = 0]

TuningFields == DOMAIN DefaultTuning

Defaults == [version |-> 0, mode |-> "auto", model |-> "rvm", legacy |-> None,
             label |-> "natural", tuning |-> DefaultTuning]

IsTuning(t) == t = [f \in TuningFields |-> t[f]]

IsScene(s) ==
  /\ s = [version |-> s.version, mode |-> s.mode, model |-> s.model, legacy |-> s.legacy,
          label |-> s.label, tuning |-> s.tuning]
  /\ s.version \in Nat /\ s.mode \in Modes /\ s.model \in Models
  /\ s.legacy \in Models \cup {None} /\ s.label \in Labels /\ IsTuning(s.tuning)

ASSUME BoundsAssumption     == MaxEdits \in Nat /\ MaxFrames \in Nat
ASSUME ConfidenceAssumption == Confidences \subseteq Byte
ASSUME SavedAssumption      == \A s \in SavedSettings :
                                 IsScene(s) /\ (s.version < 2 => s.legacy = None)
ASSUME EditsAssumption      == \A e \in Edits : e[1] \in TuningFields
ASSUME ShapingsAssumption   == \A s \in Shapings : IsShaping(s)
ASSUME NoneAssumption       == None \notin Models \cup Modes \cup Labels /\ None \notin Byte

VARIABLES
  settings,   \* OBS's object: version, mode, model, legacy, label and tuning
  pending,    \* whether OBS owes an update
  ui,         \* the dialog: "idle", or the callback to run: "tuning", "style"
  update,     \* the update: its next step, or "idle", and its locals
  filter,     \* the filter's copy, or None before the first update
  pixel,      \* one pixel of lastBackgroundMask, or None
  frames, edits,                  \* counters for the bounds
  saved, chosenMode, lastEdit     \* history: for the properties

vars == <<settings, pending, ui, update, filter, pixel, frames, edits, saved,
          chosenMode, lastEdit>>

NoUpdate == [stage |-> "idle", preset |-> None, label |-> "custom", mode |-> "auto"]

Init ==
  /\ settings \in SavedSettings
  /\ pending = TRUE          \* background_filter_create calls update itself
  /\ ui = "idle"
  /\ update = NoUpdate
  /\ filter = None
  /\ pixel = None
  /\ frames = 0 /\ edits = 0
  /\ saved = settings
  /\ chosenMode = None /\ lastEdit = None

\* The definitions named Variant... are those beside them with one plausible slip;
\* no specification uses them.  They show which slip each property would catch.

-----------------------------------------------------------------------------
(* Styles and their values. *)

\* findBeautyPreset
PresetOf(label) ==
  IF label \in Styles THEN label
  ELSE IF label = "clean" THEN "natural" ELSE IF label = "soft" THEN "studio" ELSE None

\* findMatchingBeautyPreset; the presets differ, so their order does not matter
Matching(tuning) ==
  IF \E p \in Styles : tuning = Preset[p]
  THEN CHOOSE p \in Styles : tuning = Preset[p] ELSE None

\* applyBeautyPreset, and the style's own name in place of an old one
Styled(s, preset) ==
  IF preset = None THEN s ELSE [s EXCEPT !.tuning = Preset[preset], !.label = preset]

VariantKeepsNamedStyle(s) ==
  IF PresetOf(s.label) # None THEN s
  ELSE [s EXCEPT !.label = IF Matching(s.tuning) # None THEN Matching(s.tuning) ELSE "custom"]

\* markBeautyPresetCustom
MarkedCustom(s) ==
  IF PresetOf(s.label) # None /\ s.tuning = Preset[PresetOf(s.label)] THEN s
  ELSE [s EXCEPT !.label = IF Matching(s.tuning) # None THEN Matching(s.tuning) ELSE "custom"]

-----------------------------------------------------------------------------
(* What an update does to the settings. *)

VariantMigratesAgain(s) ==
  IF s.version >= 2 THEN s
  ELSE [s EXCEPT !.mode   = IF s.model = "depth" THEN "legacy" ELSE "auto",
                 !.legacy = IF s.model \notin {"rvm", "depth"} THEN s.model ELSE @,
                 !.model  = IF s.model \notin {"rvm", "depth"} THEN "rvm" ELSE @]

\* migrateBackgroundSettings
Migrated(s) ==
  IF s.version >= 2 THEN s
  ELSE [s EXCEPT !.version = 2,
                 !.mode    = IF s.model = "depth" THEN "legacy" ELSE "auto",
                 !.legacy  = IF s.model \notin {"rvm", "depth"} THEN s.model ELSE @,
                 !.model   = IF s.model \notin {"rvm", "depth"} THEN "rvm" ELSE @]

\* the modes that want RVM select it
ModelOverridden(s) ==
  IF s.mode \in {"legacy", "performance"} THEN s ELSE [s EXCEPT !.model = "rvm"]

VariantWantsNamed(s) == PresetOf(s.label)

\* the style an update applies: the one named, or the one a custom filter equals
Wanted(s) == IF s.label = "custom" THEN Matching(s.tuning) ELSE PresetOf(s.label)

\* effectiveModelSelection, and MediaPipe for performance
EffectiveModel(s, mode) ==
  IF mode = "performance" THEN "mediapipe"
  ELSE IF mode = "legacy" /\ s.legacy # None THEN s.legacy ELSE s.model

CopyOf(s, label, mode) ==
  [label |-> label, tuning |-> s.tuning, model |-> EffectiveModel(s, mode),
   native |-> EffectiveModel(s, mode) = "rvm" /\ mode # "legacy", mode |-> mode]

-----------------------------------------------------------------------------
(* background_filter_update, on the graphics thread or in create. *)

\* an edit whose callback is still to come, or that comes amid an update, is not
\* followed any further (see EditsSurvive)
UpdateBegins ==
  /\ pending /\ update.stage = "idle"
  /\ LET s == ModelOverridden(Migrated(settings)) IN
     /\ settings' = s
     /\ update' = [stage |-> "apply", preset |-> Wanted(s), label |-> s.label, mode |-> s.mode]
  /\ pending' = FALSE
  /\ lastEdit' = IF ui = "idle" THEN lastEdit ELSE None
  /\ UNCHANGED <<ui, filter, pixel, frames, edits, saved, chosenMode>>

UpdateApplies ==
  /\ update.stage = "apply"
  /\ settings' = Styled(settings, update.preset)
  /\ update' = [update EXCEPT !.stage = "copy",
                              !.label = IF update.preset = None THEN @ ELSE update.preset]
  /\ UNCHANGED <<pending, ui, filter, pixel, frames, edits, saved,
                 chosenMode, lastEdit>>

\* the copies, the model, and invalidateInference, which drops the last mask
UpdateCopies ==
  /\ update.stage = "copy"
  /\ filter' = CopyOf(settings, update.label, update.mode)
  /\ update' = NoUpdate
  /\ pixel' = None
  /\ UNCHANGED <<settings, pending, ui, frames, edits, saved, chosenMode, lastEdit>>

-----------------------------------------------------------------------------
(* The properties dialog and other clients: OBS writes a value, runs the   *)
(* property's callback if it has one, and owes an update.                  *)

MayChange == filter # None /\ ui = "idle" /\ edits < MaxEdits

WriteTuning ==
  /\ MayChange
  /\ \E e \in Edits :
       /\ settings' = [settings EXCEPT !.tuning[e[1]] = e[2]]
       /\ lastEdit' = IF update.stage = "idle" THEN e ELSE None
  /\ ui' = "tuning"
  /\ edits' = edits + 1
  /\ UNCHANGED <<pending, update, filter, pixel, frames, saved, chosenMode>>

\* beauty_tuning_modified, enable_threshold_modified, enable_image_similarity
TuningModified ==
  /\ ui = "tuning"
  /\ settings' = MarkedCustom(settings)
  /\ ui' = "idle"
  /\ pending' = TRUE
  /\ lastEdit' = IF update.stage = "idle" THEN lastEdit ELSE None
  /\ UNCHANGED <<update, filter, pixel, frames, edits, saved, chosenMode>>

WriteStyle ==
  /\ MayChange
  /\ \E label \in Styles \cup {"custom"} : settings' = [settings EXCEPT !.label = label]
  /\ ui' = "style"
  /\ edits' = edits + 1
  /\ lastEdit' = None
  /\ UNCHANGED <<pending, update, filter, pixel, frames, saved, chosenMode>>

\* beauty_preset_modified
StyleModified ==
  /\ ui = "style"
  /\ settings' = Styled(settings, PresetOf(settings.label))
  /\ ui' = "idle"
  /\ pending' = TRUE
  /\ UNCHANGED <<update, filter, pixel, frames, edits, saved, chosenMode, lastEdit>>

\* matting_mode and model_select have no callback
WriteMode ==
  /\ MayChange
  /\ \E mode \in Modes :
       /\ settings' = [settings EXCEPT !.mode = mode]
       /\ chosenMode' = mode
  /\ pending' = TRUE
  /\ edits' = edits + 1
  /\ UNCHANGED <<ui, update, filter, pixel, frames, saved, lastEdit>>

WriteModel ==
  /\ MayChange
  /\ \E model \in Models : settings' = [settings EXCEPT !.model = model]
  /\ pending' = TRUE
  /\ edits' = edits + 1
  /\ UNCHANGED <<ui, update, filter, pixel, frames, saved, chosenMode, lastEdit>>

\* a client of OBS writes a value; no callback of the dialog runs
ClientWrites ==
  /\ MayChange
  /\ \E e \in Edits : settings' = [settings EXCEPT !.tuning[e[1]] = e[2]]
  /\ pending' = TRUE
  /\ edits' = edits + 1
  /\ lastEdit' = None
  /\ UNCHANGED <<ui, update, filter, pixel, frames, saved, chosenMode>>

\* background_filter_properties: OBS runs every callback on the settings as they are,
\* the style's first
Rebuilt(s) == MarkedCustom(Styled(s, PresetOf(s.label)))

OpenProperties ==
  /\ filter # None /\ ui = "idle"
  /\ settings' = Rebuilt(settings)
  /\ UNCHANGED <<pending, ui, update, filter, pixel, frames, edits, saved,
                 chosenMode, lastEdit>>

\* the scene is saved and loaded again: destroy and create
Reload ==
  /\ filter # None /\ ui = "idle" /\ update.stage = "idle"
  /\ filter' = None
  /\ pixel' = None
  /\ pending' = TRUE
  /\ UNCHANGED <<settings, ui, update, frames, edits, saved, chosenMode, lastEdit>>

-----------------------------------------------------------------------------
(* The worker computes a mask; an RVM alpha is not smoothed. *)

SmoothMask(background) ==
  IF pixel = None THEN background
  ELSE SmoothedPixel(background, pixel, filter.tuning.temporalSmoothFactor)

ComputesMask ==
  filter # None /\ ~filter.native /\ update.stage = "idle" /\ frames < MaxFrames

MayPanic == pixel # None /\ Panics(filter.tuning.temporalSmoothFactor)

Frame ==
  /\ ComputesMask
  /\ ~MayPanic
  /\ \E c \in Confidences : pixel' = SmoothMask(Background(c, filter.tuning))
  /\ frames' = frames + 1
  /\ UNCHANGED <<settings, pending, ui, update, filter, edits, saved, chosenMode, lastEdit>>

\* the process ends: no thread takes another step
Abort ==
  /\ ComputesMask
  /\ MayPanic
  /\ ui' = "ended"
  /\ update' = [update EXCEPT !.stage = "ended"]
  /\ UNCHANGED <<settings, pending, filter, pixel, frames, edits, saved, chosenMode, lastEdit>>

-----------------------------------------------------------------------------
Update == UpdateBegins \/ UpdateApplies \/ UpdateCopies

User ==
  \/ WriteTuning \/ TuningModified \/ WriteStyle \/ StyleModified
  \/ WriteMode \/ WriteModel \/ ClientWrites \/ OpenProperties \/ Reload

Ended == ui = "ended" /\ UNCHANGED vars

Next == Update \/ User \/ Frame \/ Abort \/ Ended

Spec == Init /\ [][Next]_vars

-----------------------------------------------------------------------------
(* What the settings promise. *)

Settled == ui = "idle" /\ ~pending /\ update.stage = "idle"

\* what one undisturbed update makes of the settings
Updated(s) ==
  LET t == ModelOverridden(Migrated(s)) IN Styled(t, Wanted(t))

\* Whatever the user's thread wrote while an update ran: once no update is owed, the
\* filter has copied the settings, a style's name and its values agree, and neither
\* another update, nor a reload, nor the opening of the dialog changes them
\* ("Preserve the selected BGOBS style when OBS rebuilds filter properties or saves a
\* scene collection", CHANGELOG.md:87-88).
SettingsSettle ==
  Settled =>
    /\ filter = CopyOf(settings, settings.label, settings.mode)
    /\ settings = Updated(settings) /\ settings = Rebuilt(settings)

\* A value the user gave in the dialog reaches the filter, although an update applies
\* the named style's values over the settings: the callback has renamed the style by
\* then ("manual adjustments still switch the style to Custom", CHANGELOG.md:94-95).
\* It holds of edits that no update ran amid.
EditsSurvive ==
  Settled /\ lastEdit # None => filter.tuning[lastEdit[1]] = lastEdit[2]

\* A saved scene is migrated once: the mode chosen since stays, and the legacy mode
\* brings back the model the scene was saved with; a depth filter stays one until
\* another mode is chosen (docs/BACKGROUND-MATTING.md:19, 28-30).
MigrationKeepsModel ==
  Settled /\ saved.version < 2 =>
    /\ chosenMode # None => filter.mode = chosenMode
    /\ filter.mode = "legacy" /\ saved.model \notin {"rvm", "depth"} => filter.model = saved.model
    /\ chosenMode = None /\ saved.model = "depth" /\ settings.model = "depth"
         => filter.model = "depth" /\ ~filter.native

\* Under a named style the smoothing cannot end the process, and what is left of an
\* older mask goes away with every frame (mask.rs:257-266).
NamedStylesSmooth ==
  filter # None /\ filter.label \in Styles /\ filter.tuning = Preset[filter.label] =>
    /\ ui # "ended"
    /\ pixel # None => \A c \in Confidences :
         Approaches(Background(c, filter.tuning), pixel, filter.tuning.temporalSmoothFactor)

\* Nothing the post-processing does to a hard mask reverses it, whatever its strengths:
\* for that the two limits of the cleanup must not cross (mask.rs:190-191,
\* mask-post-processing.cpp:160-162).
ShapingKeepsOrder ==
  filter = None /\ settings = Defaults => \A s \in Shapings : ShapingIsMonotone(s)
=============================================================================
