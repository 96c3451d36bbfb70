---------------------------- MODULE FilterProofs ----------------------------
(***************************************************************************)
(* What the background filter's settings promise, proved for all saved     *)
(* scenes, all edits and any number of changes and updates; and that no    *)
(* shaping of a mask reverses it, for pictures of every size.              *)
(***************************************************************************)
EXTENDS FilterSettings, FiniteSetTheorems, WellFoundedInduction, TLAPS

-----------------------------------------------------------------------------
(* Scenes and styles. *)

LEMMA StyleNames == Styles = {"natural", "studio", "crisp", "performance"}
  BY DEF Styles, Preset

\* Every style is a full set of values.
LEMMA StylesAreTunings ==
  ASSUME NEW p \in Styles PROVE IsTuning(Preset[p])
<1> DEFINE D == {"enableThreshold", "threshold", "edgeSoftness", "edgeRefinement",
                 "foregroundCleanup", "contourFilter", "smoothContour",
                 "temporalSmoothFactor", "imageSimilarityThreshold",
                 "enableImageSimilarity", "maskExpansion", "maskEveryXFrames", "numThreads"}
<1>1. TuningFields = D
  BY DEF TuningFields, DefaultTuning, Preset, Style
<1>2. CASE p = "natural"
  BY <1>1, <1>2 DEF IsTuning, Preset, Style
<1>3. CASE p = "studio"
  BY <1>1, <1>3 DEF IsTuning, Preset, Style
<1>4. CASE p = "crisp"
  BY <1>1, <1>4 DEF IsTuning, Preset, Style
<1>5. CASE p = "performance"
  BY <1>1, <1>5 DEF IsTuning, Preset, Style
<1> QED
  BY <1>2, <1>3, <1>4, <1>5, StyleNames

\* The style of a label is a style, and a custom filter has none.
LEMMA LabelsAndStyles ==
  /\ \A label \in Labels : PresetOf(label) \in Styles \cup {None}
  /\ PresetOf("custom") = None
  /\ \A p \in Styles : PresetOf(p) = p /\ p \in Labels /\ p # None
  /\ \A label \in Labels : label # "custom" => PresetOf(label) # None
  BY StyleNames, NoneAssumption DEF PresetOf, Labels

\* A style that matches some values has those values.
LEMMA MatchingStyle ==
  ASSUME NEW t
  PROVE  /\ Matching(t) \in Styles \cup {None}
         /\ Matching(t) # None => t = Preset[Matching(t)]
         /\ Matching(t) = None => \A p \in Styles : t # Preset[p]
<1>1. CASE \E p \in Styles : t = Preset[p]
  <2>1. Matching(t) \in Styles /\ t = Preset[Matching(t)]
    BY <1>1 DEF Matching
  <2> QED
    BY <2>1, LabelsAndStyles
<1>2. CASE ~\E p \in Styles : t = Preset[p]
  BY <1>2 DEF Matching
<1> QED
  BY <1>1, <1>2

LEMMA WantedStyle ==
  ASSUME NEW s, IsScene(s)
  PROVE  Wanted(s) \in Styles \cup {None}
  BY LabelsAndStyles, MatchingStyle DEF Wanted, IsScene

LEMMA RelabelledScene ==
  ASSUME NEW s, IsScene(s), NEW l \in Labels
  PROVE  IsScene([s EXCEPT !.label = l])
  BY DEF IsScene

\* The callbacks and an update make scenes of scenes.
LEMMA ScenesStayScenes ==
  ASSUME NEW s, IsScene(s)
  PROVE  /\ IsScene(Migrated(s)) /\ IsScene(ModelOverridden(s)) /\ IsScene(MarkedCustom(s))
         /\ \A p \in Styles \cup {None} : IsScene(Styled(s, p))
         /\ \A l \in Labels : IsScene([s EXCEPT !.label = l])
         /\ \A m \in Modes : IsScene([s EXCEPT !.mode = m])
         /\ \A m \in Models : IsScene([s EXCEPT !.model = m])
<1>1. IsScene(Migrated(s))
  BY DEF IsScene, Migrated, Modes, Models
<1>2. IsScene(ModelOverridden(s))
  BY DEF IsScene, ModelOverridden, Models
<1>3. \A l \in Labels : IsScene([s EXCEPT !.label = l])
  BY RelabelledScene
<1>4. IsScene(MarkedCustom(s))
  BY <1>3, MatchingStyle, LabelsAndStyles DEF MarkedCustom, Labels
<1>5. \A p \in Styles \cup {None} : IsScene(Styled(s, p))
  <2> SUFFICES ASSUME NEW p \in Styles PROVE IsScene([s EXCEPT !.tuning = Preset[p], !.label = p])
    BY DEF Styled
  <2>1. IsTuning(Preset[p]) /\ p \in Labels
    BY StylesAreTunings, LabelsAndStyles
  <2>2. ASSUME NEW t, IsTuning(t), NEW l \in Labels
        PROVE  IsScene([s EXCEPT !.tuning = t, !.label = l])
    <3> DEFINE r == [s EXCEPT !.tuning = t]
    <3>1. IsScene(r)
      BY <2>2 DEF IsScene
    <3>2. [s EXCEPT !.tuning = t, !.label = l] = [r EXCEPT !.label = l]
      BY DEF IsScene
    <3> QED
      BY <2>2, <3>1, <3>2, RelabelledScene
  <2> QED
    BY <2>1, <2>2
<1>6. \A m \in Modes : IsScene([s EXCEPT !.mode = m])
  BY DEF IsScene
<1>7. \A m \in Models : IsScene([s EXCEPT !.model = m])
  BY DEF IsScene
<1> QED
  BY <1>1, <1>2, <1>3, <1>4, <1>5, <1>6, <1>7

\* A value written into a scene's tuning is all that changes.
LEMMA EditsAreScenes ==
  ASSUME NEW s, IsScene(s), NEW e \in Edits
  PROVE  /\ IsScene([s EXCEPT !.tuning[e[1]] = e[2]])
         /\ [s EXCEPT !.tuning[e[1]] = e[2]].tuning[e[1]] = e[2]
<1> DEFINE t == [s.tuning EXCEPT ![e[1]] = e[2]]
<1>1. IsTuning(t) /\ t[e[1]] = e[2]
  BY EditsAssumption DEF IsScene, IsTuning
<1>2. [s EXCEPT !.tuning[e[1]] = e[2]] = [s EXCEPT !.tuning = t]
  BY DEF IsScene
<1> QED
  BY <1>1, <1>2 DEF IsScene

-----------------------------------------------------------------------------
(* What is left of an update's and the dialog's work when it is done again. *)

Normal(s) == s.version >= 2 /\ (s.mode \in {"legacy", "performance"} \/ s.model = "rvm")

Stable(s) == Styled(s, Wanted(s)) = s /\ Rebuilt(s) = s

LEMMA UpdateNormalises ==
  ASSUME NEW s, IsScene(s)
  PROVE  /\ Normal(ModelOverridden(Migrated(s)))
         /\ Normal(s) => ModelOverridden(Migrated(s)) = s
<1>1. Migrated(s).version >= 2
  BY DEF IsScene, Migrated
<1>2. Normal(ModelOverridden(Migrated(s)))
  <2> DEFINE t == Migrated(s)
  <2>1. IsScene(t)
    BY ScenesStayScenes
  <2> HIDE DEF t
  <2> QED
    BY <1>1, <2>1 DEF Normal, ModelOverridden, IsScene, t
<1>3. ASSUME Normal(s) PROVE ModelOverridden(Migrated(s)) = s
  BY <1>3 DEF Normal, ModelOverridden, Migrated, IsScene
<1> QED
  BY <1>2, <1>3

LEMMA StylingKeepsNormal ==
  ASSUME NEW s, IsScene(s), NEW p
  PROVE  /\ Styled(s, p).mode = s.mode /\ (Normal(s) => Normal(Styled(s, p)))
         /\ MarkedCustom(s).mode = s.mode /\ (Normal(s) => Normal(MarkedCustom(s)))
<1>1. Styled(s, p).mode = s.mode /\ (Normal(s) => Normal(Styled(s, p)))
  BY DEF Normal, Styled, IsScene
<1>2. MarkedCustom(s).mode = s.mode /\ (Normal(s) => Normal(MarkedCustom(s)))
  BY DEF Normal, MarkedCustom, IsScene
<1> QED
  BY <1>1, <1>2

\* What styling with a style makes of a scene.
LEMMA StyledScene ==
  ASSUME NEW s, IsScene(s), NEW p \in Styles
  PROVE  /\ Styled(s, p).label = p /\ Styled(s, p).tuning = Preset[p]
         /\ Stable(Styled(s, p)) /\ Wanted(Styled(s, p)) = p
         /\ MarkedCustom(Styled(s, p)) = Styled(s, p)
<1> DEFINE t == Styled(s, p)
<1>1. IsScene(t) /\ t.label = p /\ t.tuning = Preset[p]
  <2>1. IsScene(t)
    BY ScenesStayScenes
  <2>2. t = [s EXCEPT !.tuning = Preset[p], !.label = p]
    BY LabelsAndStyles DEF Styled
  <2> QED
    BY <2>1, <2>2 DEF IsScene
<1> HIDE DEF t
<1>2. PresetOf(p) = p /\ p # None /\ p # "custom"
  BY LabelsAndStyles
<1>3. Wanted(t) = p
  BY <1>1, <1>2 DEF Wanted
<1>4. Styled(t, p) = t
  <2>1. Styled(t, p) = [[t EXCEPT !.tuning = Preset[p]] EXCEPT !.label = p]
    BY <1>1, <1>2 DEF Styled, IsScene
  <2>2. [t EXCEPT !.tuning = Preset[p]] = t
    BY <1>1 DEF IsScene
  <2>3. [t EXCEPT !.label = p] = t
    BY <1>1 DEF IsScene
  <2> QED
    BY <2>1, <2>2, <2>3
<1>5. MarkedCustom(t) = t
  BY <1>1, <1>2 DEF MarkedCustom
<1>6. Stable(t)
  BY <1>1, <1>2, <1>3, <1>4, <1>5 DEF Stable, Rebuilt
<1> QED
  BY <1>1, <1>3, <1>5, <1>6 DEF t

\* A custom scene whose values are nobody's is left alone.
LEMMA CustomScene ==
  ASSUME NEW s, IsScene(s), Wanted(s) = None
  PROVE  s.label = "custom" /\ Stable(s) /\ Styled(s, None) = s /\ Rebuilt(s) = s
<1>1. s.label = "custom" /\ Matching(s.tuning) = None
  BY LabelsAndStyles DEF Wanted, IsScene
<1>2. Styled(s, None) = s
  BY DEF Styled
<1>3. MarkedCustom(s) = s
  <2>1. MarkedCustom(s) = [s EXCEPT !.label = "custom"]
    BY <1>1, LabelsAndStyles DEF MarkedCustom
  <2> QED
    BY <1>1, <2>1 DEF IsScene
<1> QED
  BY <1>1, <1>2, <1>3, LabelsAndStyles DEF Stable, Rebuilt

LEMMA StylingIsStable ==
  ASSUME NEW s, IsScene(s)
  PROVE  Stable(Styled(s, Wanted(s)))
<1>1. CASE Wanted(s) = None
  BY <1>1, CustomScene
<1>2. CASE Wanted(s) \in Styles
  BY <1>2, StyledScene
<1> QED
  BY <1>1, <1>2, WantedStyle

\* The dialog may open amid an update: the style the update wants stays wanted.
LEMMA RebuildingKeepsWish ==
  ASSUME NEW s, IsScene(s)
  PROVE  /\ IsScene(Rebuilt(s)) /\ Rebuilt(s).mode = s.mode
         /\ Normal(s) => Normal(Rebuilt(s))
         /\ Wanted(Rebuilt(s)) = Wanted(s)
         /\ Wanted(s) = None => Rebuilt(s).label = s.label
<1> DEFINE t == Styled(s, PresetOf(s.label))
<1>1. PresetOf(s.label) \in Styles \cup {None}
  BY LabelsAndStyles DEF IsScene
<1>2. IsScene(t) /\ t.mode = s.mode /\ (Normal(s) => Normal(t))
  BY <1>1, ScenesStayScenes, StylingKeepsNormal
<1>3. IsScene(Rebuilt(s)) /\ Rebuilt(s).mode = s.mode /\ (Normal(s) => Normal(Rebuilt(s)))
  BY <1>2, ScenesStayScenes, StylingKeepsNormal DEF Rebuilt
<1>4. CASE PresetOf(s.label) \in Styles
  <2>1. Wanted(s) = PresetOf(s.label)
    BY <1>4, LabelsAndStyles DEF Wanted
  <2>2. Rebuilt(s) = t /\ Wanted(t) = PresetOf(s.label)
    BY <1>4, StyledScene DEF Rebuilt
  <2> QED
    BY <1>3, <1>4, <2>1, <2>2, LabelsAndStyles
<1>5. CASE PresetOf(s.label) = None /\ Wanted(s) = None
  BY <1>3, <1>5, CustomScene
<1>6. CASE PresetOf(s.label) = None /\ Wanted(s) # None
  <2>1. s.label = "custom" /\ Wanted(s) = Matching(s.tuning)
    BY <1>6, LabelsAndStyles DEF Wanted, IsScene
  <2>2. Wanted(s) \in Styles
    BY <1>6, WantedStyle
  <2>3. Rebuilt(s) = [s EXCEPT !.label = Wanted(s)]
    BY <1>6, <2>1 DEF Rebuilt, Styled, MarkedCustom
  <2>4. Rebuilt(s).label = Wanted(s)
    BY <2>3 DEF IsScene
  <2> QED
    BY <1>3, <1>6, <2>2, <2>4, LabelsAndStyles DEF Wanted
<1> QED
  BY <1>1, <1>4, <1>5, <1>6

-----------------------------------------------------------------------------
(* The inductive invariant. *)

TypeOK ==
  /\ IsScene(settings)
  /\ pending \in BOOLEAN
  /\ ui \in {"idle", "tuning", "style", "ended"}
  /\ update \in [stage : {"idle", "apply", "copy", "ended"}, preset : Styles \cup {None},
                  label : Labels, mode : Modes]

Ready == ui = "idle" /\ ~pending

\* As long as nobody has written since an update began, it has read what is there.
UpdateIsCurrent ==
  Ready =>
    /\ Normal(settings)
    /\ update.stage = "apply" =>
         /\ update.preset = Wanted(settings) /\ update.mode = settings.mode
         /\ update.preset = None => update.label = settings.label
    /\ update.stage = "copy" =>
         Stable(settings) /\ update.label = settings.label /\ update.mode = settings.mode
    /\ update.stage = "idle" =>
         Stable(settings) /\ filter = CopyOf(settings, settings.label, settings.mode)

\* A style's name and its values agree.
Agree(s) == PresetOf(s.label) # None => s.tuning = Preset[PresetOf(s.label)]

\* The edit that is followed stands in the settings, its callback has run before an
\* update reads them, and the style the update applies has the same values.
EditStands ==
  lastEdit # None =>
    /\ settings.tuning[lastEdit[1]] = lastEdit[2]
    /\ ui # "style"
    /\ ui = "tuning" => update.stage = "idle"
    /\ ui = "idle" => Agree(settings)
    /\ update.stage = "apply" /\ update.preset # None => settings.tuning = Preset[update.preset]

\* Every step keeps every variable in its type.
LEMMA TypeStep ==
  ASSUME TypeOK, [Next]_vars PROVE TypeOK'
<1> USE LabelsAndStyles
<1>1. CASE UpdateBegins
  <2> DEFINE s == ModelOverridden(Migrated(settings))
  <2>1. IsScene(s)
    BY ScenesStayScenes DEF TypeOK
  <2>2. settings' = s /\ update' = [stage |-> "apply", preset |-> Wanted(s), label |-> s.label, mode |-> s.mode]
       /\ pending' = FALSE /\ ui' = ui
    BY <1>1 DEF UpdateBegins
  <2> HIDE DEF s
  <2>3. Wanted(s) \in Styles \cup {None} /\ s.label \in Labels /\ s.mode \in Modes
    BY <2>1, WantedStyle DEF IsScene
  <2> QED
    BY <2>1, <2>2, <2>3 DEF TypeOK
<1>2. CASE UpdateApplies
  <2>1. IsScene(settings')
    BY <1>2, ScenesStayScenes DEF TypeOK, UpdateApplies
  <2> QED
    BY <1>2, <2>1 DEF TypeOK, UpdateApplies
<1>3. CASE UpdateCopies
  <2>1. NoUpdate \in [stage : {"idle", "apply", "copy", "ended"}, preset : Styles \cup {None},
                      label : Labels, mode : Modes]
    BY DEF NoUpdate, Labels, Modes
  <2> QED
    BY <1>3, <2>1 DEF TypeOK, UpdateCopies
<1>4. CASE WriteTuning \/ ClientWrites
  <2>1. IsScene(settings')
    BY <1>4, EditsAreScenes DEF TypeOK, WriteTuning, ClientWrites
  <2> QED
    BY <1>4, <2>1 DEF TypeOK, WriteTuning, ClientWrites
<1>5. CASE TuningModified
  BY <1>5, ScenesStayScenes DEF TypeOK, TuningModified
<1>6. CASE WriteStyle
  <2>1. IsScene(settings')
    BY <1>6, ScenesStayScenes DEF TypeOK, WriteStyle, Labels
  <2> QED
    BY <1>6, <2>1 DEF TypeOK, WriteStyle
<1>7. CASE StyleModified
  <2>1. PresetOf(settings.label) \in Styles \cup {None}
    BY DEF TypeOK, IsScene
  <2>2. IsScene(settings')
    BY <1>7, <2>1, ScenesStayScenes DEF TypeOK, StyleModified
  <2> QED
    BY <1>7, <2>2 DEF TypeOK, StyleModified
<1>8. CASE WriteMode \/ WriteModel
  <2>1. IsScene(settings')
    BY <1>8, ScenesStayScenes DEF TypeOK, WriteMode, WriteModel
  <2> QED
    BY <1>8, <2>1 DEF TypeOK, WriteMode, WriteModel
<1>9. CASE OpenProperties
  BY <1>9, RebuildingKeepsWish DEF TypeOK, OpenProperties
<1>10. CASE Reload \/ Frame
  BY <1>10 DEF TypeOK, Reload, Frame
<1>11. CASE Abort
  BY <1>11 DEF TypeOK, Abort
<1>12. CASE UNCHANGED vars
  BY <1>12 DEF TypeOK, vars
<1> QED
  BY <1>1, <1>2, <1>3, <1>4, <1>5, <1>6, <1>7, <1>8, <1>9, <1>10, <1>11, <1>12
     DEF Next, Update, User, Ended

\* No step makes an update work from what is out of date without another one owed.
LEMMA CurrentStep ==
  ASSUME TypeOK, UpdateIsCurrent, [Next]_vars PROVE UpdateIsCurrent'
<1>1. CASE UpdateBegins
  <2> DEFINE s == ModelOverridden(Migrated(settings))
  <2>1. Normal(s)
    BY UpdateNormalises DEF TypeOK
  <2>2. settings' = s /\ update' = [stage |-> "apply", preset |-> Wanted(s), label |-> s.label, mode |-> s.mode]
    BY <1>1 DEF UpdateBegins
  <2> HIDE DEF s
  <2> QED
    BY <2>1, <2>2 DEF UpdateIsCurrent
<1>2. CASE UpdateApplies
  <2> SUFFICES ASSUME Ready' PROVE UpdateIsCurrent'
    BY DEF UpdateIsCurrent
  <2>1. Ready /\ update.stage = "apply" /\ settings' = Styled(settings, update.preset)
    BY <1>2 DEF UpdateApplies, Ready
  <2>2. /\ update'.stage = "copy" /\ update'.mode = update.mode
        /\ update'.label = IF update.preset = None THEN update.label ELSE update.preset
    BY <1>2 DEF UpdateApplies, TypeOK
  <2>3. update.preset = Wanted(settings) /\ Normal(settings) /\ update.mode = settings.mode
    BY <2>1 DEF UpdateIsCurrent
  <2>4. Normal(settings') /\ Stable(settings') /\ settings'.mode = settings.mode
    BY <2>1, <2>3, StylingKeepsNormal, StylingIsStable DEF TypeOK
  <2>5. update'.label = settings'.label
    <3>1. CASE update.preset = None
      BY <2>1, <2>2, <3>1 DEF UpdateIsCurrent, Styled
    <3>2. CASE update.preset \in Styles
      BY <2>1, <2>2, <3>2, StyledScene, LabelsAndStyles DEF TypeOK
    <3> QED
      BY <3>1, <3>2 DEF TypeOK
  <2> QED
    BY <2>2, <2>3, <2>4, <2>5 DEF UpdateIsCurrent
<1>3. CASE UpdateCopies
  BY <1>3 DEF UpdateIsCurrent, UpdateCopies, Ready, NoUpdate
<1>4. CASE WriteTuning \/ ClientWrites \/ TuningModified \/ WriteStyle \/ StyleModified
           \/ WriteMode \/ WriteModel \/ Reload
  <2>1. ~Ready'
    BY <1>4 DEF Ready, WriteTuning, ClientWrites, TuningModified, WriteStyle, StyleModified,
                WriteMode, WriteModel, Reload
  <2> QED
    BY <2>1 DEF UpdateIsCurrent
<1>5. CASE OpenProperties
  <2> SUFFICES ASSUME Ready' PROVE UpdateIsCurrent'
    BY DEF UpdateIsCurrent
  <2>1. Ready /\ settings' = Rebuilt(settings) /\ UNCHANGED <<update, filter>>
    BY <1>5 DEF OpenProperties, Ready
  <2>2. Normal(settings') /\ settings'.mode = settings.mode /\ Wanted(settings') = Wanted(settings)
    BY <2>1, RebuildingKeepsWish DEF UpdateIsCurrent, TypeOK
  <2>3. Wanted(settings) = None => settings'.label = settings.label
    BY <2>1, RebuildingKeepsWish DEF TypeOK
  <2>4. Stable(settings) => settings' = settings
    BY <2>1 DEF Stable
  <2> QED
    BY <2>1, <2>2, <2>3, <2>4 DEF UpdateIsCurrent
<1>6. CASE Frame
  BY <1>6 DEF UpdateIsCurrent, Frame, Ready
<1>7. CASE Abort
  BY <1>7 DEF UpdateIsCurrent, Abort, Ready
<1>8. CASE UNCHANGED vars
  BY <1>8 DEF UpdateIsCurrent, vars, Ready
<1> QED
  BY <1>1, <1>2, <1>3, <1>4, <1>5, <1>6, <1>7, <1>8 DEF Next, Update, User, Ended

LEMMA AgreeWanted ==
  ASSUME NEW s, IsScene(s), Agree(s), Wanted(s) # None
  PROVE  s.tuning = Preset[Wanted(s)]
<1>1. CASE s.label = "custom"
  BY <1>1, MatchingStyle DEF Wanted
<1>2. CASE s.label # "custom"
  BY <1>2 DEF Wanted, Agree
<1> QED
  BY <1>1, <1>2

\* The dialog's callbacks change no value that agrees with its style.
LEMMA CallbacksKeepValues ==
  ASSUME NEW s, IsScene(s)
  PROVE  /\ MarkedCustom(s).tuning = s.tuning /\ Agree(MarkedCustom(s))
         /\ Agree(s) => Rebuilt(s).tuning = s.tuning /\ Agree(Rebuilt(s))
<1>1. ASSUME NEW t, IsScene(t) PROVE MarkedCustom(t).tuning = t.tuning /\ Agree(MarkedCustom(t))
  <2>1. MarkedCustom(t).tuning = t.tuning
    BY <1>1 DEF MarkedCustom, IsScene
  <2>2. CASE PresetOf(t.label) # None /\ t.tuning = Preset[PresetOf(t.label)]
    BY <2>2 DEF MarkedCustom, Agree
  <2>3. CASE ~(PresetOf(t.label) # None /\ t.tuning = Preset[PresetOf(t.label)])
    <3> DEFINE m == Matching(t.tuning)
    <3>1. MarkedCustom(t).label = IF m # None THEN m ELSE "custom"
      BY <1>1, <2>3 DEF MarkedCustom, IsScene
    <3>2. m \in Styles \cup {None} /\ (m # None => t.tuning = Preset[m])
      BY MatchingStyle
    <3> QED
      BY <2>1, <3>1, <3>2, LabelsAndStyles DEF Agree
  <2> QED
    BY <2>1, <2>2, <2>3
<1>2. ASSUME Agree(s) PROVE Rebuilt(s).tuning = s.tuning /\ Agree(Rebuilt(s))
  <2> DEFINE t == Styled(s, PresetOf(s.label))
  <2>1. PresetOf(s.label) \in Styles \cup {None}
    BY LabelsAndStyles DEF IsScene
  <2>2. IsScene(t)
    BY <2>1, ScenesStayScenes
  <2>3. t.tuning = s.tuning
    <3>1. CASE PresetOf(s.label) = None
      BY <3>1 DEF Styled
    <3>2. CASE PresetOf(s.label) \in Styles
      BY <1>2, <3>2, StyledScene, LabelsAndStyles DEF Agree
    <3> QED
      BY <2>1, <3>1, <3>2
  <2> QED
    BY <1>1, <2>2, <2>3 DEF Rebuilt
<1> QED
  BY <1>1, <1>2

\* No step takes the edit that is followed out of the settings.
LEMMA EditStep ==
  ASSUME TypeOK, EditStands, [Next]_vars PROVE EditStands'
<1> SUFFICES ASSUME lastEdit' # None PROVE EditStands'
  BY DEF EditStands
<1>1. CASE UpdateBegins
  <2> DEFINE s == ModelOverridden(Migrated(settings))
  <2>1. /\ settings' = s /\ update'.stage = "apply" /\ update'.preset = Wanted(s)
        /\ ui = "idle" /\ UNCHANGED <<lastEdit, ui>>
    BY <1>1 DEF UpdateBegins
  <2>2. IsScene(s)
    BY ScenesStayScenes DEF TypeOK
  <2>3. s.tuning = settings.tuning /\ s.label = settings.label
    <3>1. Migrated(settings).tuning = settings.tuning /\ Migrated(settings).label = settings.label
      BY DEF Migrated, TypeOK, IsScene
    <3> DEFINE t == Migrated(settings)
    <3>2. IsScene(t)
      BY ScenesStayScenes DEF TypeOK
    <3> HIDE DEF t
    <3>3. ModelOverridden(t).tuning = t.tuning /\ ModelOverridden(t).label = t.label
      BY <3>2 DEF ModelOverridden, IsScene
    <3> QED
      BY <3>1, <3>3 DEF t
  <2> HIDE DEF s
  <2>4. Agree(settings) /\ settings.tuning[lastEdit[1]] = lastEdit[2]
    BY <2>1 DEF EditStands
  <2>5. Agree(s)
    BY <2>3, <2>4 DEF Agree
  <2>6. Wanted(s) # None => s.tuning = Preset[Wanted(s)]
    BY <2>2, <2>5, AgreeWanted
  <2> QED
    BY <2>1, <2>3, <2>4, <2>5, <2>6 DEF EditStands
<1>2. CASE UpdateApplies
  <2>1. /\ UNCHANGED <<lastEdit, ui>> /\ update.stage = "apply" /\ update'.stage = "copy"
        /\ settings' = Styled(settings, update.preset)
    BY <1>2 DEF UpdateApplies, TypeOK
  <2>2. settings.tuning[lastEdit[1]] = lastEdit[2] /\ ui \notin {"style", "tuning"}
    BY <2>1 DEF EditStands
  <2>3. CASE update.preset = None
    BY <2>1, <2>2, <2>3 DEF EditStands, Styled
  <2>4. CASE update.preset \in Styles
    <3>1. settings'.tuning = Preset[update.preset] /\ settings'.label = update.preset
      BY <2>1, <2>4, StyledScene DEF TypeOK
    <3>2. settings.tuning = Preset[update.preset]
      BY <2>1, <2>4, LabelsAndStyles DEF EditStands
    <3> QED
      BY <2>1, <2>2, <2>4, <3>1, <3>2, LabelsAndStyles DEF EditStands, Agree
  <2> QED
    BY <2>3, <2>4 DEF TypeOK
<1>3. CASE UpdateCopies
  BY <1>3 DEF EditStands, UpdateCopies, NoUpdate
<1>4. CASE WriteTuning
  <2>1. PICK e \in Edits : /\ settings' = [settings EXCEPT !.tuning[e[1]] = e[2]]
                           /\ lastEdit' = IF update.stage = "idle" THEN e ELSE None
    BY <1>4 DEF WriteTuning
  <2>2. settings'.tuning[e[1]] = e[2]
    BY <2>1, EditsAreScenes DEF TypeOK
  <2> QED
    BY <1>4, <2>1, <2>2 DEF EditStands, WriteTuning
<1>5. CASE TuningModified
  BY <1>5, CallbacksKeepValues DEF EditStands, TuningModified, TypeOK
<1>6. CASE WriteStyle \/ ClientWrites
  BY <1>6 DEF WriteStyle, ClientWrites
<1>7. CASE StyleModified
  BY <1>7 DEF EditStands, StyleModified
<1>8. CASE WriteMode \/ WriteModel
  <2>1. settings'.tuning = settings.tuning /\ settings'.label = settings.label
    BY <1>8 DEF WriteMode, WriteModel, TypeOK, IsScene
  <2>2. UNCHANGED <<ui, update, lastEdit>>
    BY <1>8 DEF WriteMode, WriteModel
  <2> QED
    BY <2>1, <2>2 DEF EditStands, Agree
<1>9. CASE OpenProperties
  <2>1. /\ UNCHANGED <<ui, update, lastEdit>> /\ ui = "idle" /\ settings' = Rebuilt(settings)
    BY <1>9 DEF OpenProperties
  <2>2. settings'.tuning = settings.tuning /\ Agree(settings')
    BY <2>1, CallbacksKeepValues DEF EditStands, TypeOK
  <2> QED
    BY <2>1, <2>2 DEF EditStands
<1>10. CASE Reload
  BY <1>10 DEF EditStands, Reload
<1>11. CASE Frame
  BY <1>11 DEF EditStands, Frame
<1>12. CASE Abort
  BY <1>12 DEF EditStands, Abort, TypeOK
<1>13. CASE UNCHANGED vars
  BY <1>13 DEF EditStands, vars
<1> QED
  BY <1>1, <1>2, <1>3, <1>4, <1>5, <1>6, <1>7, <1>8, <1>9, <1>10, <1>11, <1>12, <1>13
     DEF Next, Update, User, Ended

-----------------------------------------------------------------------------
LEMMA InvariantHolds == Spec => [](TypeOK /\ UpdateIsCurrent /\ EditStands)
<1>1. Init => TypeOK /\ UpdateIsCurrent /\ EditStands
  <2> SUFFICES ASSUME Init PROVE TypeOK /\ UpdateIsCurrent /\ EditStands
    OBVIOUS
  <2>1. NoUpdate \in [stage : {"idle", "apply", "copy", "ended"}, preset : Styles \cup {None},
                      label : Labels, mode : Modes]
    BY DEF NoUpdate, Labels, Modes
  <2>2. IsScene(settings)
    BY SavedAssumption DEF Init
  <2> QED
    BY <2>1, <2>2 DEF Init, TypeOK, UpdateIsCurrent, EditStands, Ready
<1>2. TypeOK /\ UpdateIsCurrent /\ EditStands /\ [Next]_vars
        => (TypeOK /\ UpdateIsCurrent /\ EditStands)'
  BY TypeStep, CurrentStep, EditStep
<1> QED
  BY <1>1, <1>2, PTL DEF Spec

\* The dialog, other clients and updates may interleave in any way: once no update is
\* owed, the filter has the settings, and another update, a reload or the dialog's
\* callbacks change nothing.
THEOREM SettingsAlwaysSettle == Spec => []SettingsSettle
<1>1. TypeOK /\ UpdateIsCurrent => SettingsSettle
  <2> SUFFICES ASSUME TypeOK, UpdateIsCurrent, Settled
               PROVE  /\ filter = CopyOf(settings, settings.label, settings.mode)
                      /\ settings = Updated(settings) /\ settings = Rebuilt(settings)
    BY DEF SettingsSettle
  <2>1. /\ Normal(settings) /\ Stable(settings)
        /\ filter = CopyOf(settings, settings.label, settings.mode)
    BY DEF UpdateIsCurrent, Settled, Ready
  <2>2. ModelOverridden(Migrated(settings)) = settings
    BY <2>1, UpdateNormalises DEF TypeOK
  <2> QED
    BY <2>1, <2>2 DEF Stable, Updated
<1> QED
  BY <1>1, InvariantHolds, PTL

\* A value given in the dialog, no update running meanwhile, reaches the filter.
THEOREM EditsReachTheFilter == Spec => []EditsSurvive
<1>1. TypeOK /\ UpdateIsCurrent /\ EditStands => EditsSurvive
  <2> SUFFICES ASSUME TypeOK, UpdateIsCurrent, EditStands, Settled, lastEdit # None
               PROVE  filter.tuning[lastEdit[1]] = lastEdit[2]
    BY DEF EditsSurvive
  <2>1. filter = CopyOf(settings, settings.label, settings.mode)
    BY DEF UpdateIsCurrent, Settled, Ready
  <2> QED
    BY <2>1 DEF CopyOf, EditStands
<1> QED
  BY <1>1, InvariantHolds, PTL

-----------------------------------------------------------------------------
(* Smoothing under the named styles. *)

LEMMA ClampBounds ==
  ASSUME NEW x \in Int, NEW low \in Int, NEW high \in Int, low <= high
  PROVE  Clamp(x, low, high) \in low .. high
  BY DEF Clamp, Lower, Higher

LEMMA NaturalProduct ==
  ASSUME NEW a \in Nat, NEW b \in Nat PROVE a * b \in Nat
  BY SMT

LEMMA SmoothstepBounds ==
  ASSUME NEW a \in 0 .. 100 PROVE Smoothstep(a) \in 0 .. 100
<1> DEFINE b == 100 - a
           e == (a * a) * (300 - 2 * a)
<1>1. a * a \in Nat /\ b * b \in Nat
  BY NaturalProduct, SMT
<1>2. (a * a) * (300 - 2 * a) \in Nat /\ (b * b) * (100 + 2 * a) \in Nat
  BY <1>1, NaturalProduct, SMT
<1>3. e = 100 * 10000 - (b * b) * (100 + 2 * a)
  BY SMT
<1>4. e \in Nat /\ e <= 100 * 10000
  BY <1>2, <1>3, SMT
<1>5. Smoothstep(a) = (2 * e + 10000) \div 20000
  BY SMT DEF Smoothstep, Rounded
<1> HIDE DEF e
<1> QED
  BY <1>4, <1>5, SMT

LEMMA HardIsByte ==
  ASSUME NEW v, NEW threshold PROVE Hard(v, threshold) \in Byte
<1>1. 0 \in Byte /\ 255 \in Byte
  BY SMT DEF Byte
<1> QED
  BY <1>1, Zenon DEF Hard

\* the soft edge between two limits in two-hundredths
Ramp(v, low, high) ==
  Rounded((100 - Smoothstep(Clamp(((200 * v - 255 * low) * 100) \div (255 * (high - low)),
                                  0, 100))) * 255, 100)

LEMMA RampIsByte ==
  ASSUME NEW v \in Byte, NEW low \in 0 .. 200, NEW high \in 0 .. 200, low < high
  PROVE  Ramp(v, low, high) \in Byte
<1> DEFINE x == ((200 * v - 255 * low) * 100) \div (255 * (high - low))
<1>1. x \in Int
  BY SMT DEF Byte
<1> HIDE DEF x
<1> DEFINE z == Clamp(x, 0, 100)
<1>2. z \in 0 .. 100
  BY <1>1, SMT DEF Clamp, Lower, Higher
<1> HIDE DEF z
<1> DEFINE y == Smoothstep(z)
<1>3. y \in 0 .. 100
  BY <1>2, SmoothstepBounds
<1> HIDE DEF y
<1>4. Rounded((100 - y) * 255, 100) \in Byte
  BY <1>3, SMT DEF Rounded, Byte
<1> QED
  BY <1>4 DEF Ramp, x, y, z

LEMMA SoftBounds ==
  ASSUME NEW v \in Byte, NEW threshold \in 0 .. 100, NEW softness \in 0 .. 100
  PROVE  Soft(v, threshold, softness) \in Byte
<1> DEFINE low  == Clamp(2 * threshold - softness, 0, 200)
           high == Clamp(2 * threshold + softness, 0, 200)
<1>1. Soft(v, threshold, softness)
        = IF high <= low THEN Hard(v, threshold) ELSE Ramp(v, low, high)
  BY Zenon DEF Soft, Ramp
<1>2. low \in 0 .. 200 /\ high \in 0 .. 200
  <2>1. ASSUME NEW n \in Int PROVE Clamp(n, 0, 200) \in 0 .. 200
    BY <2>1, SMT DEF Clamp, Lower, Higher
  <2>2. 2 * threshold - softness \in Int /\ 2 * threshold + softness \in Int
    BY SMT
  <2> QED
    BY <2>1, <2>2, Zenon
<1> HIDE DEF low, high
<1>3. ASSUME ~(high <= low) PROVE Ramp(v, low, high) \in Byte
  <2>1. low < high
    BY <1>2, <1>3, SMT
  <2> QED
    BY <1>2, <2>1, RampIsByte, Zenon
<1> QED
  BY <1>1, <1>3, HardIsByte, Zenon

\* the styles' parts that masks depend on
LEMMA StyleFactors ==
  ASSUME NEW p \in Styles
  PROVE  /\ Preset[p].enableThreshold = TRUE
         /\ Preset[p].threshold \in 0 .. 100 /\ Preset[p].edgeSoftness \in 1 .. 100
         /\ Preset[p].temporalSmoothFactor \in {84, 88, 78, 65}
  BY StyleNames DEF Preset, Style

LEMMA BackgroundIsByte ==
  ASSUME NEW c \in Byte, NEW s, s.enableThreshold = TRUE,
         s.threshold \in 0 .. 100, s.edgeSoftness \in 1 .. 100
  PROVE  Background(c, s) \in Byte
<1> DEFINE t == Clamp(s.threshold, 0, 100)
           e == Clamp(s.edgeSoftness, 0, 100)
<1>1. t \in 0 .. 100 /\ e \in 0 .. 100
  BY SMT DEF Clamp, Lower, Higher
<1>2. ~(s.edgeSoftness <= 0)
  BY SMT
<1>3. Background(c, s) = Soft(c, t, e)
  BY <1>2, Zenon DEF Background
<1> HIDE DEF t, e
<1>4. Soft(c, t, e) \in Byte
  BY <1>1, SoftBounds, Zenon
<1> QED
  BY <1>3, <1>4, Zenon

LEMMA StyleBackground ==
  ASSUME NEW p \in Styles, NEW c \in Byte
  PROVE  Background(c, Preset[p]) \in Byte
<1> DEFINE s == Preset[p]
<1>1. s.enableThreshold = TRUE /\ s.threshold \in 0 .. 100 /\ s.edgeSoftness \in 1 .. 100
  BY StyleFactors
<1> HIDE DEF s
<1>2. Background(c, s) \in Byte
  BY <1>1, BackgroundIsByte
<1> QED
  BY <1>2 DEF s

\* a share of a distance
LEMMA Share ==
  ASSUME NEW d \in Nat, NEW u \in Nat, NEW top \in Nat, u <= top
  PROVE  d * u \in Nat /\ d * u <= d * top
<1>1. d * u \in Nat /\ d * (top - u) \in Nat
  BY NaturalProduct, SMT
<1>2. d * (top - u) = d * top - d * u
  BY SMT
<1>3. d * top \in Int
  BY SMT
<1> QED
  BY <1>1, <1>2, <1>3, SMT

\* the nearest integer to a share of the way from one integer to another
LEMMA NearestOnTheWay ==
  ASSUME NEW p \in Int, NEW d \in Nat, NEW w \in Nat, w <= d * 10000
  PROVE  /\ p <= (2 * (p * 10000 + w) + 10000) \div 20000
         /\ (2 * (p * 10000 + w) + 10000) \div 20000 <= p + d
         /\ (2 * (p * 10000 + w) + 10000) \div 20000 = p => 2 * w <= 10000
         /\ p - d <= (2 * (p * 10000 - w) + 10000) \div 20000
         /\ (2 * (p * 10000 - w) + 10000) \div 20000 <= p
         /\ (2 * (p * 10000 - w) + 10000) \div 20000 = p => 2 * w <= 10000
  BY SMT

\* A blend lies between its parts, and nearer to the first unless rounding takes all.
LEMMA BlendApproaches ==
  ASSUME NEW c \in Byte, NEW p \in Byte, NEW u \in Nat, u <= 10000
  PROVE  /\ Blend(c, p, u) \in Byte
         /\ Lower(c, p) <= Blend(c, p, u) /\ Blend(c, p, u) <= Higher(c, p)
         /\ \/ p = c
            \/ Distance(Blend(c, p, u), c) < Distance(p, c)
            \/ 2 * u * Distance(p, c) <= 10000
<1> DEFINE r == Blend(c, p, u)
<1>1. c \in 0 .. 255 /\ p \in 0 .. 255
  BY DEF Byte
<1>2. CASE c >= p
  <2> DEFINE d == c - p
             w == d * u
  <2>1. d \in Nat /\ c = p + d
    BY <1>1, <1>2, SMT
  <2>2. w \in Nat /\ w <= d * 10000
    <3> HIDE DEF d
    <3> QED
      BY <2>1, Share, SMT
  <2>3. r = (2 * (p * 10000 + w) + 10000) \div 20000
    <3>1. c * u + p * (10000 - u) = p * 10000 + w
      BY <1>1, SMT
    <3> HIDE DEF w
    <3> QED
      BY <1>1, <2>2, <3>1, SMT DEF Blend, Rounded
  <2>4. 2 * u * d = 2 * w
    BY <1>1, SMT
  <2> HIDE DEF d, w, r
  <2>5. r \in Int /\ p <= r /\ r <= c /\ (r = p => 2 * w <= 10000)
    BY <1>1, <2>1, <2>2, <2>3, NearestOnTheWay, SMT
  <2>6. Distance(p, c) = d /\ Distance(r, c) = c - r /\ Lower(c, p) = p /\ Higher(c, p) = c
    BY <1>1, <1>2, <2>1, <2>5, SMT DEF Distance, Lower, Higher
  <2>7. r \in Byte
    BY <1>1, <2>5, SMT DEF Byte
  <2>8. p = c \/ c - r < d \/ 2 * u * d <= 10000
    BY <1>1, <2>1, <2>4, <2>5, SMT
  <2> QED
    BY <2>5, <2>6, <2>7, <2>8 DEF r
<1>3. CASE c < p
  <2> DEFINE d == p - c
             w == d * u
  <2>1. d \in Nat /\ c = p - d
    BY <1>1, <1>3, SMT
  <2>2. w \in Nat /\ w <= d * 10000
    <3> HIDE DEF d
    <3> QED
      BY <2>1, Share, SMT
  <2>3. r = (2 * (p * 10000 - w) + 10000) \div 20000
    <3>1. c * u + p * (10000 - u) = p * 10000 - w
      BY <1>1, SMT
    <3> HIDE DEF w
    <3> QED
      BY <1>1, <2>2, <3>1, SMT DEF Blend, Rounded
  <2>4. 2 * u * d = 2 * w
    BY <1>1, SMT
  <2> HIDE DEF d, w, r
  <2>5. r \in Int /\ c <= r /\ r <= p /\ (r = p => 2 * w <= 10000)
    BY <1>1, <2>1, <2>2, <2>3, NearestOnTheWay, SMT
  <2>6. Distance(p, c) = d /\ Distance(r, c) = r - c /\ Lower(c, p) = c /\ Higher(c, p) = p
    BY <1>1, <1>3, <2>1, <2>5, SMT DEF Distance, Lower, Higher
  <2>7. r \in Byte
    BY <1>1, <2>5, SMT DEF Byte
  <2>8. p = c \/ r - c < d \/ 2 * u * d <= 10000
    BY <1>1, <2>1, <2>4, <2>5, SMT
  <2> QED
    BY <2>5, <2>6, <2>7, <2>8 DEF r
<1> QED
  BY <1>1, <1>2, <1>3, SMT

\* Whatever factor does not end the process, every pixel comes nearer to what the model
\* says now (smoothTemporalBackgroundMask).
THEOREM SmoothingApproaches ==
  ASSUME NEW current \in Byte, NEW previous \in Byte, NEW factor \in Int, ~Panics(factor)
  PROVE  /\ Approaches(current, previous, factor)
         /\ SmoothedPixel(current, previous, factor) \in Byte
<1>1. CASE ~Smooths(factor)
  <2>1. SmoothedPixel(current, previous, factor) = current
    BY <1>1, SMT DEF SmoothedPixel
  <2>2. current \in 0 .. 255 /\ previous \in 0 .. 255
    BY DEF Byte
  <2>3. /\ Lower(current, previous) <= current /\ current <= Higher(current, previous)
        /\ (previous = current \/ Distance(current, current) < Distance(previous, current))
    BY <2>2, SMT DEF Lower, Higher, Distance
  <2> QED
    BY <2>1, <2>3, SMT DEF Approaches
<1>2. CASE Smooths(factor)
  <2> DEFINE u == UpdateFactor(current, previous, factor)
  <2>1. factor \in 5 .. 98
    BY <1>2, SMT DEF Smooths, Panics
  <2>2. u \in Nat /\ u <= 10000
    <3>1. LoseForeground(factor) \in Nat /\ LoseForeground(factor) <= 10000
      BY <2>1, SMT DEF LoseForeground, Clamp, Lower, Higher
    <3>2. RecoverForeground(factor) \in Nat /\ RecoverForeground(factor) <= 10000
      BY <2>1, SMT DEF RecoverForeground, Clamp, Lower, Higher
    <3> QED
      BY <3>1, <3>2, SMT DEF UpdateFactor
  <2>3. SmoothedPixel(current, previous, factor) = Blend(current, previous, u)
    BY <1>2, SMT DEF SmoothedPixel
  <2>4. Approaches(current, previous, factor)
          <=> /\ Lower(current, previous) <= Blend(current, previous, u)
              /\ Blend(current, previous, u) <= Higher(current, previous)
              /\ \/ previous = current
                 \/ Distance(Blend(current, previous, u), current) < Distance(previous, current)
                 \/ 2 * u * Distance(previous, current) <= 10000
    BY <2>3, SMT DEF Approaches
  <2> HIDE DEF u
  <2>5. /\ Blend(current, previous, u) \in Byte
        /\ Lower(current, previous) <= Blend(current, previous, u)
        /\ Blend(current, previous, u) <= Higher(current, previous)
        /\ \/ previous = current
           \/ Distance(Blend(current, previous, u), current) < Distance(previous, current)
           \/ 2 * u * Distance(previous, current) <= 10000
    BY <2>2, BlendApproaches, SMT
  <2> QED
    BY <2>3, <2>4, <2>5, SMT
<1> QED
  BY <1>1, <1>2

LEMMA StylesApproach ==
  ASSUME NEW current \in Byte, NEW previous \in Byte, NEW factor \in {84, 88, 78, 65}
  PROVE  /\ Approaches(current, previous, factor)
         /\ SmoothedPixel(current, previous, factor) \in Byte
<1>1. factor \in Int /\ ~Panics(factor)
  BY SMT DEF Panics, Smooths
<1> QED
  BY <1>1, SmoothingApproaches

-----------------------------------------------------------------------------
(* The pixel that is followed. *)

\* A filter copies the values of the style it is named after, and those never end the
\* process; a pixel computed under them is a byte.
Smoothing ==
  /\ filter # None /\ filter.label \in Styles /\ filter.tuning = Preset[filter.label]
       => ui # "ended" /\ (pixel # None => pixel \in Byte)
  /\ ui = "ended" => update.stage = "ended"

LEMMA SmoothingStep ==
  ASSUME Smoothing, [Next]_vars PROVE Smoothing'
<1>1. CASE UpdateBegins
  BY <1>1 DEF Smoothing, UpdateBegins
<1>2. CASE UpdateApplies
  BY <1>2 DEF Smoothing, UpdateApplies
<1>3. CASE UpdateCopies
  BY <1>3 DEF Smoothing, UpdateCopies
<1>4. CASE WriteTuning
  BY <1>4 DEF Smoothing, WriteTuning, MayChange
<1>5. CASE TuningModified
  BY <1>5 DEF Smoothing, TuningModified
<1>6. CASE WriteStyle
  BY <1>6 DEF Smoothing, WriteStyle, MayChange
<1>7. CASE StyleModified
  BY <1>7 DEF Smoothing, StyleModified
<1>8. CASE WriteMode \/ WriteModel \/ ClientWrites
  BY <1>8 DEF Smoothing, WriteMode, WriteModel, ClientWrites
<1>9. CASE OpenProperties
  BY <1>9 DEF Smoothing, OpenProperties
<1>10. CASE Reload
  BY <1>10 DEF Smoothing, Reload
<1>11. CASE Frame
  <2>1. UNCHANGED <<filter, ui, update>> /\ filter # None
    BY <1>11 DEF Frame, ComputesMask
  <2> SUFFICES ASSUME filter.label \in Styles, filter.tuning = Preset[filter.label]
               PROVE  pixel' \in Byte
    BY <2>1 DEF Smoothing
  <2>2. PICK c \in Confidences : pixel' = SmoothMask(Background(c, filter.tuning))
    BY <1>11 DEF Frame
  <2>3. Background(c, filter.tuning) \in Byte
    BY ConfidenceAssumption, StyleBackground
  <2>4. CASE pixel = None
    BY <2>2, <2>3, <2>4 DEF SmoothMask
  <2>5. CASE pixel # None
    <3>1. pixel \in Byte
      BY <2>1, <2>5 DEF Smoothing
    <3>2. filter.tuning.temporalSmoothFactor \in {84, 88, 78, 65}
      BY StyleFactors
    <3>3. SmoothedPixel(Background(c, filter.tuning), pixel, filter.tuning.temporalSmoothFactor) \in Byte
      BY <2>3, <3>1, <3>2, StylesApproach
    <3> QED
      BY <2>2, <2>5, <3>3 DEF SmoothMask
  <2> QED
    BY <2>4, <2>5
<1>12. CASE Abort
  <2>1. UNCHANGED filter /\ ui' = "ended" /\ filter # None /\ Panics(filter.tuning.temporalSmoothFactor)
    BY <1>12 DEF Abort, ComputesMask, MayPanic
  <2>2. ~(filter.label \in Styles /\ filter.tuning = Preset[filter.label])
    <3> SUFFICES ASSUME filter.label \in Styles, filter.tuning = Preset[filter.label] PROVE FALSE
      OBVIOUS
    <3>1. filter.tuning.temporalSmoothFactor \in {84, 88, 78, 65}
      BY StyleFactors
    <3>2. ~Panics(filter.tuning.temporalSmoothFactor)
      BY <3>1, SMT DEF Panics, Smooths
    <3> QED
      BY <2>1, <3>2
  <2>3. update'.stage = "ended"
    BY <1>12 DEF Abort
  <2> QED
    BY <2>1, <2>2, <2>3 DEF Smoothing
<1>13. CASE UNCHANGED vars
  BY <1>13 DEF Smoothing, vars
<1> QED
  BY <1>1, <1>2, <1>3, <1>4, <1>5, <1>6, <1>7, <1>8, <1>9, <1>10, <1>11, <1>12, <1>13
     DEF Next, Update, User, Ended

\* Under a named style, whatever the model says and for any number of frames, smoothing
\* neither ends the process nor keeps an older mask.
THEOREM NamedStylesAlwaysSmooth == Spec => []NamedStylesSmooth
<1>1. Init => Smoothing
  BY DEF Init, Smoothing
<1>2. Smoothing /\ [Next]_vars => Smoothing'
  BY SmoothingStep
<1>3. Smoothing => NamedStylesSmooth
  <2> SUFFICES ASSUME Smoothing, filter # None, filter.label \in Styles,
                      filter.tuning = Preset[filter.label]
               PROVE  /\ ui # "ended"
                      /\ pixel # None => \A c \in Confidences :
                           Approaches(Background(c, filter.tuning), pixel,
                                      filter.tuning.temporalSmoothFactor)
    BY DEF NamedStylesSmooth
  <2>1. ui # "ended" /\ (pixel # None => pixel \in Byte)
    BY DEF Smoothing
  <2>2. ASSUME pixel # None, NEW c \in Confidences
        PROVE  Approaches(Background(c, filter.tuning), pixel, filter.tuning.temporalSmoothFactor)
    <3>1. Background(c, filter.tuning) \in Byte
      BY ConfidenceAssumption, StyleBackground
    <3>2. filter.tuning.temporalSmoothFactor \in {84, 88, 78, 65}
      BY StyleFactors
    <3> QED
      BY <2>1, <2>2, <3>1, <3>2, StylesApproach
  <2> QED
    BY <2>1, <2>2
<1> QED
  BY <1>1, <1>2, <1>3, PTL DEF Spec

-----------------------------------------------------------------------------
(* What becomes of an older scene's model. *)

\* The fields that styles and their values leave alone.
SameModel(s, t) ==
  t.version = s.version /\ t.mode = s.mode /\ t.model = s.model /\ t.legacy = s.legacy

LEMMA CallbacksKeepModel ==
  ASSUME NEW s, IsScene(s)
  PROVE  /\ \A p \in Styles \cup {None} : SameModel(s, Styled(s, p))
         /\ SameModel(s, MarkedCustom(s)) /\ SameModel(s, Rebuilt(s))
         /\ \A e \in Edits : SameModel(s, [s EXCEPT !.tuning[e[1]] = e[2]])
         /\ \A l : SameModel(s, [s EXCEPT !.label = l])
<1>1. \A p \in Styles \cup {None} : SameModel(s, Styled(s, p))
  BY DEF SameModel, Styled, IsScene
<1>2. ASSUME NEW t, IsScene(t) PROVE SameModel(t, MarkedCustom(t))
  BY <1>2 DEF SameModel, MarkedCustom, IsScene
<1>3. SameModel(s, Rebuilt(s))
  <2>1. PresetOf(s.label) \in Styles \cup {None}
    BY LabelsAndStyles DEF IsScene
  <2> DEFINE t == Styled(s, PresetOf(s.label))
  <2>2. IsScene(t) /\ SameModel(s, t)
    BY <1>1, <2>1, ScenesStayScenes
  <2> HIDE DEF t
  <2>3. SameModel(t, MarkedCustom(t))
    BY <1>2, <2>2
  <2> QED
    BY <2>2, <2>3 DEF SameModel, Rebuilt, t
<1>4. \A e \in Edits : SameModel(s, [s EXCEPT !.tuning[e[1]] = e[2]])
  BY DEF SameModel, IsScene
<1>5. \A l : SameModel(s, [s EXCEPT !.label = l])
  BY DEF SameModel, IsScene
<1> QED
  BY <1>1, <1>2, <1>3, <1>4, <1>5

Untouched ==
  filter = None /\ chosenMode = None /\ settings.model = saved.model /\ settings.legacy = None

MigratedOnce ==
  /\ settings.mode = IF chosenMode # None THEN chosenMode
                     ELSE IF saved.model = "depth" THEN "legacy" ELSE "auto"
  /\ settings.legacy = IF saved.model \in {"rvm", "depth"} THEN None ELSE saved.model

\* An older scene is untouched until its update begins, and migrated from then on.
Migration ==
  /\ saved.model \in Models
  /\ filter # None \/ update.stage # "idle" => settings.version >= 2
  /\ saved.version < 2 => IF settings.version < 2 THEN Untouched ELSE MigratedOnce

LEMMA MigrationStep ==
  ASSUME TypeOK, Migration, [Next]_vars PROVE Migration'
<1> USE DEF Migration, Untouched, MigratedOnce
<1>1. CASE UpdateBegins
  <2> DEFINE s == Migrated(settings)
             t == ModelOverridden(s)
  <2>1. settings' = t /\ UNCHANGED <<filter, saved, chosenMode>>
    BY <1>1 DEF UpdateBegins
  <2>2. IsScene(s) /\ s.version >= 2
    <3>1. IsScene(settings)
      BY DEF TypeOK
    <3>2. IsScene(s)
      BY <3>1, ScenesStayScenes
    <3>3. s.version >= 2
      BY <3>1 DEF IsScene, Migrated
    <3> QED
      BY <3>2, <3>3
  <2>3. t.version = s.version /\ t.mode = s.mode /\ t.legacy = s.legacy
    <3> HIDE DEF s
    <3> QED
      BY <2>2 DEF ModelOverridden, IsScene
  <2>4. CASE settings.version >= 2
    <3>1. s = settings
      BY <2>4 DEF Migrated
    <3> HIDE DEF s, t
    <3>2. settings'.version >= 2 /\ settings'.mode = settings.mode
          /\ settings'.legacy = settings.legacy
      BY <2>1, <2>3, <2>4, <3>1
    <3>3. ~(settings.version < 2) /\ ~(settings'.version < 2)
      <4>1. settings.version \in Int /\ s.version \in Int
        BY <2>2 DEF TypeOK, IsScene
      <4> QED
        BY <2>1, <2>2, <2>3, <2>4, <4>1
    <3> QED
      BY <2>1, <3>2, <3>3
  <2>5. CASE settings.version < 2
    <3>1. /\ s.mode = IF settings.model = "depth" THEN "legacy" ELSE "auto"
          /\ s.legacy = IF settings.model \in {"rvm", "depth"} THEN settings.legacy
                        ELSE settings.model
      BY <2>5 DEF TypeOK, IsScene, Migrated
    <3> HIDE DEF s, t
    <3>2. settings'.version >= 2 /\ ~(settings'.version < 2)
      <4>1. s.version \in Int
        BY <2>2 DEF IsScene
      <4> QED
        BY <2>1, <2>2, <2>3, <4>1
    <3>3. settings'.mode = s.mode /\ settings'.legacy = s.legacy
      BY <2>1, <2>3
    <3> QED
      BY <2>1, <2>5, <3>1, <3>2, <3>3
  <2> QED
    BY <2>4, <2>5 DEF TypeOK, IsScene
<1>2. CASE UpdateApplies
  <2>1. SameModel(settings, settings')
    BY <1>2, CallbacksKeepModel DEF TypeOK, UpdateApplies
  <2> QED
    BY <1>2, <2>1 DEF UpdateApplies, SameModel
<1>3. CASE UpdateCopies
  BY <1>3 DEF UpdateCopies, TypeOK, IsScene
<1>4. CASE WriteTuning \/ ClientWrites
  <2>1. SameModel(settings, settings')
    BY <1>4, CallbacksKeepModel DEF TypeOK, WriteTuning, ClientWrites
  <2> QED
    BY <1>4, <2>1 DEF WriteTuning, ClientWrites, SameModel
<1>5. CASE TuningModified
  <2>1. SameModel(settings, settings')
    BY <1>5, CallbacksKeepModel DEF TypeOK, TuningModified
  <2> QED
    BY <1>5, <2>1 DEF TuningModified, SameModel
<1>6. CASE WriteStyle
  <2>1. SameModel(settings, settings')
    BY <1>6, CallbacksKeepModel DEF TypeOK, WriteStyle
  <2> QED
    BY <1>6, <2>1 DEF WriteStyle, SameModel
<1>7. CASE StyleModified
  <2>1. PresetOf(settings.label) \in Styles \cup {None}
    BY LabelsAndStyles DEF TypeOK, IsScene
  <2>2. SameModel(settings, settings')
    BY <1>7, <2>1, CallbacksKeepModel DEF TypeOK, StyleModified
  <2> QED
    BY <1>7, <2>2 DEF StyleModified, SameModel
<1>8. CASE WriteMode
  BY <1>8, NoneAssumption DEF WriteMode, MayChange, TypeOK, IsScene
<1>9. CASE WriteModel
  BY <1>9 DEF WriteModel, MayChange, TypeOK, IsScene
<1>10. CASE OpenProperties
  <2>1. SameModel(settings, settings')
    BY <1>10, CallbacksKeepModel DEF TypeOK, OpenProperties
  <2> QED
    BY <1>10, <2>1 DEF OpenProperties, SameModel
<1>11. CASE Reload \/ Frame
  BY <1>11 DEF Reload, Frame, TypeOK
<1>12. CASE Abort
  BY <1>12 DEF Abort, ComputesMask, TypeOK
<1>13. CASE UNCHANGED vars
  BY <1>13 DEF vars
<1> QED
  BY <1>1, <1>2, <1>3, <1>4, <1>5, <1>6, <1>7, <1>8, <1>9, <1>10, <1>11, <1>12, <1>13
     DEF Next, Update, User, Ended

\* An older scene is migrated once, whatever updates, reloads and edits follow: the mode
\* chosen since stays, the legacy mode has the scene's model, and a depth filter stays one.
THEOREM MigrationAlwaysKeepsModel == Spec => []MigrationKeepsModel
<1>1. Init => Migration
  BY SavedAssumption DEF Init, Migration, Untouched, NoUpdate, IsScene
<1>2. TypeOK /\ Migration /\ [Next]_vars => Migration'
  BY MigrationStep
<1>3. TypeOK /\ UpdateIsCurrent /\ Migration => MigrationKeepsModel
  <2> SUFFICES ASSUME TypeOK, UpdateIsCurrent, Migration, Settled, saved.version < 2
               PROVE  MigrationKeepsModel
    BY DEF MigrationKeepsModel
  <2>1. filter = CopyOf(settings, settings.label, settings.mode) /\ settings.version >= 2
    BY DEF UpdateIsCurrent, Settled, Ready, Normal
  <2>2. filter.mode = settings.mode /\ filter.model = EffectiveModel(settings, settings.mode)
        /\ filter.native = (filter.model = "rvm" /\ settings.mode # "legacy")
    BY <2>1 DEF CopyOf
  <2>3. MigratedOnce
    BY <2>1 DEF Migration, TypeOK, IsScene
  <2>4. saved.model \notin {"rvm", "depth"} => saved.model # None
    BY NoneAssumption DEF Migration
  <2> QED
    BY <2>2, <2>3, <2>4 DEF MigrationKeepsModel, MigratedOnce, EffectiveModel
<1> QED
  BY <1>1, <1>2, <1>3, InvariantHolds, PTL DEF Spec
-----------------------------------------------------------------------------
(* Sets of a finite set's elements. *)

NatLess == {ss \in Nat \X Nat : ss[1] < ss[2]}

LEMMA NatLessWellFounded == IsWellFoundedOn(NatLess, Nat)
BY NatLessThanWellFounded DEF OpToRel, NatLess

\* induction over the natural numbers, by the set of those for which a claim holds
LEMMA SetInduction ==
  ASSUME NEW S \in SUBSET Nat, 0 \in S, \A n \in S : n + 1 \in S
  PROVE  S = Nat
<1>1. SUFFICES ASSUME Nat \ S # {} PROVE FALSE
  OBVIOUS
<1>2. PICK x \in Nat \ S : \A y \in Nat \ S : ~(<<y, x>> \in NatLess)
  BY <1>1, NatLessWellFounded, WFMin
<1>3. x # 0 /\ x - 1 \in Nat \ S
  BY <1>2
<1>4. <<x - 1, x>> \in NatLess
  BY <1>3 DEF NatLess
<1> QED
  BY <1>2, <1>3, <1>4

LEMMA ComputedIsMask == ASSUME NEW mask PROVE Computed(mask) = mask
BY DEF Computed

LEMMA DivisionKeepsOrder ==
  ASSUME NEW a \in Int, NEW b \in Int, NEW d \in Nat \ {0}, a <= b
  PROVE  a \div d \in Int /\ b \div d \in Int /\ a \div d <= b \div d
<1>1. PICK q \in Int, r \in Int : q = a \div d /\ a = d * q + r /\ 0 <= r /\ r < d
  <2>1. a \div d \in Int /\ a % d \in 0 .. d - 1 /\ a = (d * (a \div d)) + (a % d)
    OBVIOUS
  <2> QED
    BY <2>1
<1>2. PICK u \in Int, v \in Int : u = b \div d /\ b = d * u + v /\ 0 <= v /\ v < d
  <2>1. b \div d \in Int /\ b % d \in 0 .. d - 1 /\ b = (d * (b \div d)) + (b % d)
    OBVIOUS
  <2> QED
    BY <2>1
<1>3. q <= u
  <2>1. SUFFICES ASSUME q >= u + 1 PROVE FALSE
    OBVIOUS
  <2>2. PICK e \in Nat : q = u + 1 + e
    BY <2>1
  <2>3. d * q = d * u + d + d * e
    BY <2>2
  <2>4. d * e \in Nat /\ d * u \in Int
    OBVIOUS
  <2> QED
    BY <1>1, <1>2, <2>3, <2>4
<1> QED
  BY <1>1, <1>2, <1>3

LEMMA RoundingKeepsOrder ==
  ASSUME NEW a \in Int, NEW b \in Int, NEW d \in Nat \ {0}, a <= b
  PROVE  Rounded(a, d) \in Int /\ Rounded(b, d) \in Int /\ Rounded(a, d) <= Rounded(b, d)
<1>1. 2 * a + d \in Int /\ 2 * b + d \in Int /\ 2 * a + d <= 2 * b + d /\ 2 * d \in Nat \ {0}
  OBVIOUS
<1> QED
  BY <1>1, DivisionKeepsOrder DEF Rounded

\* The samples around a pixel are some of the picture's pixels, itself among them.
LEMMA NearIsInPicture ==
  ASSUME NEW p \in Pixels, NEW radius \in Nat
  PROVE  /\ p \in Near(p, radius) /\ Near(p, radius) \subseteq Pixels
         /\ IsFiniteSet(Near(p, radius)) /\ Cardinality(Near(p, radius)) \in Nat \ {0}
<1> DEFINE rows    == Higher(1, p[1] - radius) .. Lower(Height, p[1] + radius)
           columns == Higher(1, p[2] - radius) .. Lower(Width, p[2] + radius)
<1>1. p = <<p[1], p[2]>> /\ p[1] \in 1 .. Height /\ p[2] \in 1 .. Width
  BY DEF Pixels
<1>2. /\ p[1] \in rows /\ rows \subseteq 1 .. Height /\ Higher(1, p[1] - radius) \in Int
      /\ Lower(Height, p[1] + radius) \in Int
  BY <1>1, SizeAssumption DEF Higher, Lower
<1>3. /\ p[2] \in columns /\ columns \subseteq 1 .. Width /\ Higher(1, p[2] - radius) \in Int
      /\ Lower(Width, p[2] + radius) \in Int
  BY <1>1, SizeAssumption DEF Higher, Lower
<1>4. IsFiniteSet(rows)
  BY <1>2, FS_Interval
<1>5. IsFiniteSet(columns)
  BY <1>3, FS_Interval
<1> HIDE DEF rows, columns
<1>6. IsFiniteSet(rows \X columns)
  BY <1>4, <1>5, FS_Product
<1>7. p \in rows \X columns /\ rows \X columns \subseteq Pixels
  BY <1>1, <1>2, <1>3 DEF Pixels
<1>8. Near(p, radius) = rows \X columns
  BY DEF Near, rows, columns
<1>9. Cardinality(rows \X columns) \in Nat /\ Cardinality(rows \X columns) # 0
  BY <1>6, <1>7, FS_CardinalityType, FS_EmptySet
<1> QED
  BY <1>6, <1>7, <1>8, <1>9

LEMMA PixelsAreFinite == IsFiniteSet(Pixels)
<1>1. IsFiniteSet(1 .. Height) /\ IsFiniteSet(1 .. Width)
  BY SizeAssumption, FS_Interval
<1> QED
  BY <1>1, FS_Product DEF Pixels

\* Among sets of elements of a finite set, one contains no other.
LEMMA SmallestSet ==
  ASSUME NEW S, IsFiniteSet(S), NEW D \in SUBSET SUBSET S, D # {}
  PROVE  \E T \in D : \A U \in D : U \subseteq T => U = T
<1>1. IsWellFoundedOn(StrictSubsetOrdering(S), SUBSET S)
  BY FS_StrictSubsetOrderingWellFounded, FS_FiniteSubsetsOfFinite
<1>2. PICK T \in D : \A U \in D : ~(<<U, T>> \in StrictSubsetOrdering(S))
  BY <1>1, WFMin
<1>3. ASSUME NEW U \in D, U \subseteq T
      PROVE  U = T
  BY <1>2, <1>3 DEF StrictSubsetOrdering
<1> QED
  BY <1>3

\* and one is contained in no other.
LEMMA LargestSet ==
  ASSUME NEW S, IsFiniteSet(S), NEW D \in SUBSET SUBSET S, D # {}
  PROVE  \E T \in D : \A U \in D : T \subseteq U => U = T
<1> DEFINE Rests == {S \ T : T \in D}
<1>1. Rests \in SUBSET SUBSET S /\ Rests # {}
  <2>1. \A T \in D : S \ T \in SUBSET S
    OBVIOUS
  <2>2. PICK T : T \in D
    OBVIOUS
  <2>3. S \ T \in Rests
    BY <2>2
  <2>4. \A R \in Rests : R \in SUBSET S
    BY <2>1
  <2> HIDE DEF Rests
  <2> QED
    BY <2>3, <2>4
<1> HIDE DEF Rests
<1>2. PICK R \in Rests : \A U \in Rests : U \subseteq R => U = R
  BY <1>1, SmallestSet
<1>3. PICK T \in D : R = S \ T
  BY DEF Rests
<1>4. ASSUME NEW U \in D, T \subseteq U
      PROVE  U = T
  <2>1. S \ U \in Rests /\ S \ U \subseteq R
    BY <1>3, <1>4 DEF Rests
  <2>2. S \ U = S \ T
    BY <1>2, <1>3, <2>1
  <2>3. U \subseteq S /\ T \subseteq S
    OBVIOUS
  <2> QED
    BY <2>2, <2>3
<1> QED
  BY <1>4

-----------------------------------------------------------------------------
(* The sum of a mask over some samples. *)

OneOf(samples) == CHOOSE q \in samples : TRUE

\* sum gives the sum of a mask's values for every set of domain.
Sums(sum, mask, domain) ==
  sum = [T \in domain |-> IF T = {} THEN 0 ELSE mask[OneOf(T)] + sum[T \ {OneOf(T)}]]

LEMMA SumsExist ==
  ASSUME NEW mask, NEW samples, IsFiniteSet(samples)
  PROVE  \E sum : Sums(sum, mask, SUBSET samples)
<1> DEFINE Small(n) == {T \in SUBSET samples : Cardinality(T) <= n}
           Have == {n \in Nat : \E sum : Sums(sum, mask, Small(n))}
<1>1. \A T \in SUBSET samples : /\ Cardinality(T) \in Nat /\ (Cardinality(T) = 0 <=> T = {})
                                /\ T # {} => OneOf(T) \in T
                                /\ T # {} => Cardinality(T \ {OneOf(T)}) = Cardinality(T) - 1
  <2> TAKE T \in SUBSET samples
  <2>1. IsFiniteSet(T)
    BY FS_Subset
  <2>2. T # {} => OneOf(T) \in T
    BY DEF OneOf
  <2> QED
    BY <2>1, <2>2, FS_CardinalityType, FS_EmptySet, FS_RemoveElement
<1>2. 0 \in Have
  <2>1. ASSUME NEW T \in Small(0) PROVE T = {}
    <3>1. T \in SUBSET samples /\ Cardinality(T) <= 0 /\ Cardinality(T) \in Nat
      BY <1>1
    <3>2. Cardinality(T) = 0
      BY <3>1
    <3> QED
      BY <1>1, <3>1, <3>2
  <2> DEFINE zero == [T \in Small(0) |-> 0]
  <2>2. Sums(zero, mask, Small(0))
    <3>1. zero = [T \in Small(0) |-> IF T = {} THEN 0 ELSE mask[OneOf(T)] + zero[T \ {OneOf(T)}]]
      BY <2>1
    <3> QED
      BY <3>1 DEF Sums
  <2> QED
    BY <2>2
<1>3. ASSUME NEW n \in Have
      PROVE  n + 1 \in Have
  <2>1. PICK sum : Sums(sum, mask, Small(n))
    OBVIOUS
  <2> DEFINE Sum(T, g) == IF T = {} THEN 0 ELSE mask[OneOf(T)] + g[T \ {OneOf(T)}]
             next == [T \in Small(n + 1) |-> Sum(T, sum)]
  <2>2. \A T \in Small(n) : T \in Small(n + 1) /\ sum[T] = Sum(T, sum)
    <3>1. ASSUME NEW T \in Small(n) PROVE T \in Small(n + 1)
      <4>1. T \in SUBSET samples /\ Cardinality(T) \in Nat /\ Cardinality(T) <= n
        BY <1>1
      <4> QED
        BY <4>1
    <3>2. sum = [T \in Small(n) |-> Sum(T, sum)]
      BY <2>1 DEF Sums
    <3> HIDE DEF Sum, Small
    <3> QED
      BY <3>1, <3>2
  <2>3. ASSUME NEW T \in Small(n + 1), T # {} PROVE T \ {OneOf(T)} \in Small(n)
    <3>1. T \in SUBSET samples /\ Cardinality(T) <= n + 1
      OBVIOUS
    <3>2. Cardinality(T) \in Nat /\ Cardinality(T \ {OneOf(T)}) = Cardinality(T) - 1
      BY <1>1, <2>3, <3>1
    <3>3. T \ {OneOf(T)} \in SUBSET samples
      BY <3>1
    <3> QED
      BY <3>1, <3>2, <3>3
  <2>4. ASSUME NEW T \in Small(n + 1)
        PROVE  Sum(T, next) = Sum(T, sum)
    <3>1. CASE T = {}
      BY <3>1
    <3>2. CASE T # {}
      <4>1. T \ {OneOf(T)} \in Small(n) /\ T \ {OneOf(T)} \in Small(n + 1)
        BY <2>2, <2>3, <3>2
      <4>2. next[T \ {OneOf(T)}] = Sum(T \ {OneOf(T)}, sum)
        BY <4>1
      <4>3. sum[T \ {OneOf(T)}] = Sum(T \ {OneOf(T)}, sum)
        BY <2>2, <4>1
      <4> QED
        BY <4>2, <4>3
    <3> QED
      BY <3>1, <3>2
  <2>5. next = [T \in Small(n + 1) |-> Sum(T, next)]
    BY <2>4
  <2>6. Sums(next, mask, Small(n + 1))
    BY <2>5 DEF Sums
  <2> HIDE DEF next, Small
  <2>7. \E g : Sums(g, mask, Small(n + 1))
    BY <2>6
  <2> QED
    BY <2>7
<1>4. Have = Nat
  BY <1>2, <1>3, SetInduction
<1>5. Small(Cardinality(samples)) = SUBSET samples
  BY FS_Subset
<1>6. Cardinality(samples) \in Have
  BY <1>1, <1>4
<1> QED
  BY <1>5, <1>6

\* What SumFunctionOnSet computes, from the fold of the community modules.
LEMMA SumIsASum ==
  ASSUME NEW mask, NEW samples, IsFiniteSet(samples)
  PROVE  \E sum : Sums(sum, mask, SUBSET samples) /\ SumFunctionOnSet(mask, samples) = sum[samples]
<1> DEFINE Sum(g) == [T \in SUBSET samples |->
                        IF T = {} THEN 0 ELSE mask[OneOf(T)] + g[T \ {OneOf(T)}]]
           chosen == CHOOSE sum : sum = Sum(sum)
<1>1. SumFunctionOnSet(mask, samples) = chosen[samples]
  BY DEF SumFunctionOnSet, FoldFunctionOnSet, MapThenFoldSet, OneOf
<1>2. \E sum : sum = Sum(sum)
  <2>1. PICK sum : Sums(sum, mask, SUBSET samples)
    BY SumsExist
  <2>2. sum = Sum(sum)
    BY <2>1, Zenon DEF Sums
  <2> HIDE DEF Sum
  <2> QED
    BY <2>2
<1> HIDE DEF Sum
<1>3. chosen = Sum(chosen)
  BY <1>2
<1> QED
  BY <1>1, <1>3 DEF Sums, Sum

\* A mask with more background has the larger sum.
LEMMA SumKeepsOrder ==
  ASSUME NEW samples, IsFiniteSet(samples), NEW mask, NEW other,
         \A q \in samples : mask[q] \in Int /\ other[q] \in Int /\ mask[q] <= other[q]
  PROVE  /\ SumFunctionOnSet(mask, samples) \in Int /\ SumFunctionOnSet(other, samples) \in Int
         /\ SumFunctionOnSet(mask, samples) <= SumFunctionOnSet(other, samples)
<1>1. PICK a : Sums(a, mask, SUBSET samples) /\ SumFunctionOnSet(mask, samples) = a[samples]
  BY SumIsASum
<1>2. PICK b : Sums(b, other, SUBSET samples) /\ SumFunctionOnSet(other, samples) = b[samples]
  BY SumIsASum
<1> DEFINE Ordered(T) == a[T] \in Int /\ b[T] \in Int /\ a[T] <= b[T]
           Bad == {T \in SUBSET samples : ~Ordered(T)}
<1>3. ASSUME Bad # {} PROVE FALSE
  <2>1. PICK T \in Bad : \A U \in Bad : U \subseteq T => U = T
    <3>1. Bad \in SUBSET SUBSET samples
      OBVIOUS
    <3> HIDE DEF Bad
    <3> QED
      BY <1>3, <3>1, SmallestSet
  <2>2. CASE T = {}
    BY <1>1, <1>2, <2>2 DEF Sums
  <2>3. CASE T # {}
    <3> DEFINE q == OneOf(T)  U == T \ {q}
    <3>1. q \in T
      BY <2>3 DEF OneOf
    <3>2. U \in SUBSET samples /\ U \subseteq T /\ U # T
      BY <3>1
    <3>3. Ordered(U)
      BY <2>1, <3>2
    <3>4. a[T] = mask[q] + a[U] /\ b[T] = other[q] + b[U]
      BY <1>1, <1>2, <2>3 DEF Sums
    <3>5. mask[q] \in Int /\ other[q] \in Int /\ mask[q] <= other[q]
      BY <3>1
    <3> HIDE DEF q, U
    <3>6. Ordered(T)
      BY <3>3, <3>4, <3>5
    <3> QED
      BY <3>6
  <2> QED
    BY <2>2, <2>3
<1>4. Ordered(samples)
  BY <1>3
<1> QED
  BY <1>1, <1>2, <1>4

-----------------------------------------------------------------------------
(* Each step of the shaping keeps the order of two masks. *)

IntegerMask == [Pixels -> Int]

Ordered(mask, other) ==
  mask \in IntegerMask /\ other \in IntegerMask /\ LessBackground(mask, other)

LEMMA OrderedPixels ==
  ASSUME NEW mask, NEW other, Ordered(mask, other), NEW q \in Pixels
  PROVE  mask[q] \in Int /\ other[q] \in Int /\ mask[q] <= other[q]
BY DEF Ordered, IntegerMask, LessBackground

LEMMA BlurKeepsOrder ==
  ASSUME NEW mask, NEW other, Ordered(mask, other), NEW kernelSize \in Nat
  PROVE  Ordered(Blur(mask, kernelSize), Blur(other, kernelSize))
<1> DEFINE N(p) == Near(p, kernelSize \div 2)
           Mean(m, p) == Rounded(SumFunctionOnSet(m, N(p)), Cardinality(N(p)))
<1>1. ASSUME NEW p \in Pixels
      PROVE  Mean(mask, p) \in Int /\ Mean(other, p) \in Int /\ Mean(mask, p) <= Mean(other, p)
  <2>1. kernelSize \div 2 \in Nat
    OBVIOUS
  <2>2. /\ N(p) \subseteq Pixels /\ IsFiniteSet(N(p)) /\ Cardinality(N(p)) \in Nat \ {0}
    BY <2>1, NearIsInPicture
  <2> HIDE DEF N
  <2>3. \A q \in N(p) : mask[q] \in Int /\ other[q] \in Int /\ mask[q] <= other[q]
    BY <2>2, OrderedPixels
  <2>4. /\ SumFunctionOnSet(mask, N(p)) \in Int /\ SumFunctionOnSet(other, N(p)) \in Int
        /\ SumFunctionOnSet(mask, N(p)) <= SumFunctionOnSet(other, N(p))
    BY <2>2, <2>3, SumKeepsOrder
  <2> QED
    BY <2>2, <2>4, RoundingKeepsOrder
<1>2. \A m : Blur(m, kernelSize) = [p \in Pixels |-> Mean(m, p)]
  BY Zenon DEF Blur
<1> HIDE DEF Mean
<1> QED
  BY <1>1, <1>2 DEF Ordered, IntegerMask, LessBackground

LEMMA BinaryKeepsOrder ==
  ASSUME NEW mask, NEW other, Ordered(mask, other)
  PROVE  Ordered(Binary(mask), Binary(other))
<1>1. ASSUME NEW p \in Pixels PROVE mask[p] > 128 => other[p] > 128
  BY OrderedPixels
<1> QED
  BY <1>1 DEF Ordered, IntegerMask, LessBackground, Binary

\* A mask takes a least value on some samples.
LEMMA LeastValue ==
  ASSUME NEW samples, IsFiniteSet(samples), samples # {},
         NEW mask, \A q \in samples : mask[q] \in Int
  PROVE  \E q \in samples : \A r \in samples : mask[q] <= mask[r]
<1> DEFINE Below(q) == {r \in samples : mask[r] <= mask[q]}
           D == {Below(q) : q \in samples}
<1>1. D \in SUBSET SUBSET samples /\ D # {}
  <2>1. \A q \in samples : Below(q) \in SUBSET samples
    OBVIOUS
  <2> HIDE DEF Below
  <2>2. PICK q : q \in samples
    OBVIOUS
  <2>3. Below(q) \in D
    BY <2>2
  <2>4. \A T \in D : T \in SUBSET samples
    BY <2>1
  <2> HIDE DEF D
  <2> QED
    BY <2>3, <2>4
<1>2. PICK T \in D : \A U \in D : U \subseteq T => U = T
  <2> HIDE DEF D
  <2> QED
    BY <1>1, SmallestSet
<1>3. PICK q \in samples : T = Below(q)
  OBVIOUS
<1>4. ASSUME NEW r \in samples PROVE mask[q] <= mask[r]
  <2>1. SUFFICES ASSUME mask[r] < mask[q] PROVE FALSE
    OBVIOUS
  <2>2. Below(r) \in D /\ Below(r) \subseteq T
    BY <1>3, <2>1
  <2>3. q \in Below(q) /\ q \notin Below(r)
    BY <2>1
  <2> HIDE DEF D, Below
  <2> QED
    BY <1>2, <1>3, <2>2, <2>3
<1> QED
  BY <1>4

LEMMA GreatestValue ==
  ASSUME NEW samples, IsFiniteSet(samples), samples # {},
         NEW mask, \A q \in samples : mask[q] \in Int
  PROVE  \E q \in samples : \A r \in samples : mask[q] >= mask[r]
<1> DEFINE negated == [q \in samples |-> -mask[q]]
<1>1. \A q \in samples : negated[q] \in Int /\ negated[q] = -mask[q]
  OBVIOUS
<1> HIDE DEF negated
<1>2. PICK q \in samples : \A r \in samples : negated[q] <= negated[r]
  BY <1>1, LeastValue
<1> QED
  BY <1>1, <1>2

LEMMA ErodeKeepsOrder ==
  ASSUME NEW mask, NEW other, Ordered(mask, other), NEW iterations \in Nat
  PROVE  Ordered(Erode(mask, iterations), Erode(other, iterations))
<1> DEFINE N(p) == Near(p, iterations)
           Least(m, p) == CHOOSE v \in {m[q] : q \in N(p)} : \A q \in N(p) : v <= m[q]
<1>1. ASSUME NEW p \in Pixels
      PROVE  Least(mask, p) \in Int /\ Least(other, p) \in Int /\ Least(mask, p) <= Least(other, p)
  <2>1. N(p) \subseteq Pixels /\ IsFiniteSet(N(p)) /\ p \in N(p)
    BY NearIsInPicture
  <2> HIDE DEF N
  <2>2. \A q \in N(p) : mask[q] \in Int /\ other[q] \in Int /\ mask[q] <= other[q]
    BY <2>1, OrderedPixels
  <2>3. ASSUME NEW m, \A q \in N(p) : m[q] \in Int
        PROVE  \E q \in N(p) : Least(m, p) = m[q] /\ \A r \in N(p) : m[q] <= m[r]
    <3>1. PICK q \in N(p) : \A r \in N(p) : m[q] <= m[r]
      BY <2>1, <2>3, LeastValue
    <3>2. Least(m, p) \in {m[r] : r \in N(p)} /\ \A r \in N(p) : Least(m, p) <= m[r]
      BY <3>1
    <3> HIDE DEF Least
    <3> QED
      BY <3>2
  <2> HIDE DEF Least
  <2>4. PICK q \in N(p) : Least(mask, p) = mask[q] /\ \A r \in N(p) : mask[q] <= mask[r]
    BY <2>2, <2>3
  <2>5. PICK s \in N(p) : Least(other, p) = other[s] /\ \A r \in N(p) : other[s] <= other[r]
    BY <2>2, <2>3
  <2>6. mask[q] <= mask[s] /\ mask[s] <= other[s]
    BY <2>2, <2>4
  <2> QED
    BY <2>2, <2>4, <2>5, <2>6
<1>2. \A m : Erode(m, iterations) = [p \in Pixels |-> Least(m, p)]
  BY Zenon DEF Erode
<1> HIDE DEF Least
<1> QED
  BY <1>1, <1>2 DEF Ordered, IntegerMask, LessBackground

LEMMA DilateKeepsOrder ==
  ASSUME NEW mask, NEW other, Ordered(mask, other), NEW iterations \in Nat
  PROVE  Ordered(Dilate(mask, iterations), Dilate(other, iterations))
<1> DEFINE N(p) == Near(p, iterations)
           Greatest(m, p) == CHOOSE v \in {m[q] : q \in N(p)} : \A q \in N(p) : v >= m[q]
<1>1. ASSUME NEW p \in Pixels
      PROVE  /\ Greatest(mask, p) \in Int /\ Greatest(other, p) \in Int
             /\ Greatest(mask, p) <= Greatest(other, p)
  <2>1. N(p) \subseteq Pixels /\ IsFiniteSet(N(p)) /\ p \in N(p)
    BY NearIsInPicture
  <2> HIDE DEF N
  <2>2. \A q \in N(p) : mask[q] \in Int /\ other[q] \in Int /\ mask[q] <= other[q]
    BY <2>1, OrderedPixels
  <2>3. ASSUME NEW m, \A q \in N(p) : m[q] \in Int
        PROVE  \E q \in N(p) : Greatest(m, p) = m[q] /\ \A r \in N(p) : m[q] >= m[r]
    <3>1. PICK q \in N(p) : \A r \in N(p) : m[q] >= m[r]
      BY <2>1, <2>3, GreatestValue
    <3>2. Greatest(m, p) \in {m[r] : r \in N(p)} /\ \A r \in N(p) : Greatest(m, p) >= m[r]
      BY <3>1
    <3> HIDE DEF Greatest
    <3> QED
      BY <3>2
  <2> HIDE DEF Greatest
  <2>4. PICK q \in N(p) : Greatest(mask, p) = mask[q] /\ \A r \in N(p) : mask[q] >= mask[r]
    BY <2>2, <2>3
  <2>5. PICK s \in N(p) : Greatest(other, p) = other[s] /\ \A r \in N(p) : other[s] >= other[r]
    BY <2>2, <2>3
  <2>6. mask[q] <= other[q] /\ other[q] <= other[s]
    BY <2>2, <2>5
  <2> QED
    BY <2>2, <2>4, <2>5, <2>6
<1>2. \A m : Dilate(m, iterations) = [p \in Pixels |-> Greatest(m, p)]
  BY Zenon DEF Dilate
<1> HIDE DEF Greatest
<1> QED
  BY <1>1, <1>2 DEF Ordered, IntegerMask, LessBackground

-----------------------------------------------------------------------------
(* Components of the background. *)

BackgroundOf(mask) == {q \in Pixels : mask[q] > 128}

\* some pixels of the background and those next to them
Wider(mask, S) == BackgroundOf(mask) \cap UNION {Near(q, 1) : q \in S}

\* background pixels that no other background pixel is next to
IsClosed(mask, C) == C \in SUBSET BackgroundOf(mask) /\ Wider(mask, C) = C

Grows(grown, mask) ==
  grown = [S \in SUBSET BackgroundOf(mask) |->
             IF Wider(mask, S) = S THEN S ELSE grown[Wider(mask, S)]]

LEMMA WiderContains ==
  ASSUME NEW mask, NEW S \in SUBSET BackgroundOf(mask)
  PROVE  Wider(mask, S) \in SUBSET BackgroundOf(mask) /\ S \subseteq Wider(mask, S)
<1>1. \A q \in S : q \in Near(q, 1) /\ q \in BackgroundOf(mask)
  BY NearIsInPicture DEF BackgroundOf
<1> QED
  BY <1>1 DEF Wider

LEMMA WiderKeepsOrder ==
  ASSUME NEW mask, NEW other, BackgroundOf(mask) \subseteq BackgroundOf(other),
         NEW S, NEW T, S \subseteq T
  PROVE  Wider(mask, S) \subseteq Wider(other, T)
BY DEF Wider

\* There is such a growth: what every closed set around S has in common.
LEMMA GrowthExists ==
  ASSUME NEW mask
  PROVE  \E grown : Grows(grown, mask)
<1> DEFINE B == BackgroundOf(mask)
           Common(S) == {q \in B : \A C \in SUBSET B : IsClosed(mask, C) /\ S \subseteq C => q \in C}
           grown == [S \in SUBSET B |-> Common(S)]
<1>1. ASSUME NEW S \in SUBSET B, Wider(mask, S) = S PROVE Common(S) = S
  BY <1>1 DEF IsClosed
<1>2. ASSUME NEW S \in SUBSET B PROVE Common(Wider(mask, S)) = Common(S)
  <2>1. ASSUME NEW C \in SUBSET B, IsClosed(mask, C)
        PROVE  S \subseteq C <=> Wider(mask, S) \subseteq C
    <3>1. S \subseteq C => Wider(mask, S) \subseteq C
      BY <2>1, WiderKeepsOrder DEF IsClosed
    <3>2. S \subseteq Wider(mask, S)
      BY WiderContains
    <3> QED
      BY <3>1, <3>2
  <2> QED
    BY <2>1
<1>3. \A S \in SUBSET B : Wider(mask, S) \in SUBSET B
  BY WiderContains
<1> HIDE DEF Common, B
<1>4. \A S \in SUBSET B : grown[S] = IF Wider(mask, S) = S THEN S ELSE grown[Wider(mask, S)]
  BY <1>1, <1>2, <1>3
<1>5. Grows(grown, mask)
  <2>1. grown = [S \in SUBSET B |-> IF Wider(mask, S) = S THEN S ELSE grown[Wider(mask, S)]]
    BY <1>4
  <2> QED
    BY <2>1, Zenon DEF Grows, B
<1> QED
  BY <1>5

LEMMA ComponentGrows ==
  ASSUME NEW mask, NEW p
  PROVE  \E grown : Grows(grown, mask) /\ ComponentOf(mask, p) = grown[{p}]
<1> DEFINE B == BackgroundOf(mask)
           Grown(g) == [S \in SUBSET BackgroundOf(mask) |->
                          IF Wider(mask, S) = S THEN S ELSE g[Wider(mask, S)]]
           chosen == CHOOSE grown : grown = Grown(grown)
<1>1. ComponentOf(mask, p) = chosen[{p}]
  BY DEF ComponentOf, BackgroundOf, Wider
<1>2. \E grown : grown = Grown(grown)
  <2>1. PICK grown : Grows(grown, mask)
    BY GrowthExists
  <2>2. grown = Grown(grown)
    BY <2>1, Zenon DEF Grows
  <2> HIDE DEF Grown
  <2> QED
    BY <2>2
<1>3. chosen = Grown(chosen)
  <2> HIDE DEF Grown
  <2> QED
    BY <1>2
<1>4. Grows(chosen, mask)
  <2> HIDE DEF chosen
  <2> QED
    BY <1>3, Zenon DEF Grows
<1> QED
  BY <1>1, <1>4

\* A component is the least closed set of background pixels around its pixel.
LEMMA ComponentIsLeast ==
  ASSUME NEW mask, NEW p \in BackgroundOf(mask)
  PROVE  /\ p \in ComponentOf(mask, p) /\ IsClosed(mask, ComponentOf(mask, p))
         /\ \A C : IsClosed(mask, C) /\ p \in C => ComponentOf(mask, p) \subseteq C
<1> DEFINE B == BackgroundOf(mask)
<1>1. PICK grown : Grows(grown, mask) /\ ComponentOf(mask, p) = grown[{p}]
  BY ComponentGrows
<1> DEFINE Least(S) == /\ S \subseteq grown[S] /\ IsClosed(mask, grown[S])
                       /\ \A C : IsClosed(mask, C) /\ S \subseteq C => grown[S] \subseteq C
           Bad == {S \in SUBSET B : ~Least(S)}
<1>2. \A S \in SUBSET B : grown[S] = IF Wider(mask, S) = S THEN S ELSE grown[Wider(mask, S)]
  BY <1>1, Zenon DEF Grows
<1>3. IsFiniteSet(B)
  BY PixelsAreFinite, FS_Subset DEF BackgroundOf
<1>4. ASSUME Bad # {} PROVE FALSE
  <2>1. PICK S \in Bad : \A U \in Bad : S \subseteq U => U = S
    <3>1. Bad \in SUBSET SUBSET B
      OBVIOUS
    <3> HIDE DEF Bad, B
    <3> QED
      BY <1>3, <1>4, <3>1, LargestSet
  <2>2. S \in SUBSET B
    OBVIOUS
  <2>3. S \subseteq Wider(mask, S) /\ Wider(mask, S) \in SUBSET B
    BY <2>2, WiderContains
  <2>4. CASE Wider(mask, S) = S
    <3>1. grown[S] = S
      BY <1>2, <2>2, <2>4
    <3>2. Least(S)
      BY <2>2, <2>4, <3>1 DEF IsClosed
    <3> QED
      BY <3>2
  <2>5. CASE Wider(mask, S) # S
    <3> DEFINE W == Wider(mask, S)
    <3>1. grown[S] = grown[W]
      BY <1>2, <2>2, <2>5
    <3>2. Least(W)
      BY <2>1, <2>3, <2>5
    <3>3. ASSUME NEW C, IsClosed(mask, C), S \subseteq C PROVE W \subseteq C
      BY <3>3, WiderKeepsOrder DEF IsClosed
    <3> HIDE DEF W
    <3>4. Least(S)
      BY <2>3, <3>1, <3>2, <3>3 DEF W
    <3> QED
      BY <3>4
  <2> QED
    BY <2>4, <2>5
<1>5. Least({p})
  BY <1>4
<1> QED
  BY <1>1, <1>5

\* Where there is more background, components only grow.
LEMMA ComponentKeepsOrder ==
  ASSUME NEW mask, NEW other, BackgroundOf(mask) \subseteq BackgroundOf(other),
         NEW p \in BackgroundOf(mask)
  PROVE  /\ ComponentOf(mask, p) \subseteq ComponentOf(other, p)
         /\ ComponentOf(other, p) \subseteq Pixels
<1> DEFINE C == ComponentOf(other, p)
           D == C \cap BackgroundOf(mask)
<1>1. p \in C /\ IsClosed(other, C)
  BY ComponentIsLeast
<1> HIDE DEF C
<1>2. Wider(mask, D) \subseteq D
  <2>1. Wider(mask, D) \subseteq Wider(other, C)
    BY WiderKeepsOrder
  <2>2. Wider(mask, D) \subseteq BackgroundOf(mask)
    BY DEF Wider
  <2> QED
    BY <1>1, <2>1, <2>2 DEF IsClosed
<1>3. D \subseteq Wider(mask, D)
  BY WiderContains
<1>4. IsClosed(mask, D) /\ p \in D
  BY <1>1, <1>2, <1>3 DEF IsClosed
<1>5. ComponentOf(mask, p) \subseteq D
  BY <1>4, ComponentIsLeast
<1>6. C \subseteq Pixels
  BY <1>1 DEF IsClosed, BackgroundOf
<1> QED
  BY <1>5, <1>6 DEF C

LEMMA FilterKeepsOrder ==
  ASSUME NEW mask, NEW other, Ordered(mask, other), \A q \in Pixels : other[q] >= 0,
         NEW contourFilter \in Int
  PROVE  Ordered(FilterSmallBackgroundComponents(mask, contourFilter),
                 FilterSmallBackgroundComponents(other, contourFilter))
<1> DEFINE Limit == Height * Width * contourFilter
           Kept(m, p) == m[p] > 128 /\ 100 * Cardinality(ComponentOf(m, p)) > Limit
           Filtered(m) == [p \in Pixels |-> IF Kept(m, p) THEN m[p] ELSE 0]
<1>1. Limit \in Int
  BY SizeAssumption
<1>2. \A m : FilterSmallBackgroundComponents(m, contourFilter)
               = IF contourFilter <= 0 \/ contourFilter >= 100 THEN m ELSE Filtered(m)
  BY Zenon DEF FilterSmallBackgroundComponents
<1>3. ASSUME NEW p \in Pixels, Kept(mask, p)
      PROVE  Kept(other, p)
  <2>1. BackgroundOf(mask) \subseteq BackgroundOf(other)
    <3>1. \A q \in Pixels : mask[q] > 128 => other[q] > 128
      BY OrderedPixels
    <3> QED
      BY <3>1 DEF BackgroundOf
  <2>2. p \in BackgroundOf(mask) /\ other[p] > 128
    BY <1>3, OrderedPixels DEF BackgroundOf
  <2>3. /\ ComponentOf(mask, p) \in SUBSET ComponentOf(other, p)
        /\ ComponentOf(other, p) \in SUBSET Pixels
    BY <2>1, <2>2, ComponentKeepsOrder
  <2>4. IsFiniteSet(ComponentOf(other, p))
    BY <2>3, PixelsAreFinite, FS_Subset
  <2>5. /\ Cardinality(ComponentOf(mask, p)) <= Cardinality(ComponentOf(other, p))
        /\ IsFiniteSet(ComponentOf(mask, p))
    BY <2>3, <2>4, FS_Subset
  <2>6. Cardinality(ComponentOf(mask, p)) \in Nat /\ Cardinality(ComponentOf(other, p)) \in Nat
    BY <2>4, <2>5, FS_CardinalityType
  <2>7. 100 * Cardinality(ComponentOf(mask, p)) > Limit
    BY <1>3
  <2> HIDE DEF Limit
  <2> QED
    BY <1>1, <2>2, <2>5, <2>6, <2>7
<1> HIDE DEF Kept
<1>4. Ordered(Filtered(mask), Filtered(other))
  <2>1. \A p \in Pixels : mask[p] \in Int /\ other[p] \in Int /\ mask[p] <= other[p] /\ other[p] >= 0
    BY OrderedPixels
  <2> QED
    BY <1>3, <2>1 DEF Ordered, IntegerMask, LessBackground
<1> HIDE DEF Filtered
<1> QED
  BY <1>2, <1>4

-----------------------------------------------------------------------------
(* The cleanup, of hard masks: its two limits do not cross. *)

LEMMA CleanupLimits ==
  ASSUME NEW cleanup \in 0 .. 100
  PROVE  /\ CleanupRadius(cleanup) \in Nat
         /\ HoleLimit(cleanup) \in Nat /\ SpeckLimit(cleanup) \in Nat
         /\ HoleLimit(cleanup) < SpeckLimit(cleanup)
<1>1. Rounded(2 * cleanup, 100) \in Int
  BY DEF Rounded
<1>2. CleanupRadius(cleanup) \in 1 .. 3
  BY <1>1 DEF CleanupRadius, Clamp, Lower, Higher
<1> QED
  BY <1>2 DEF HoleLimit, SpeckLimit

LEMMA CleanPixelKeepsOrder ==
  ASSUME NEW mask \in HardConfidence, NEW other \in HardConfidence, LessBackground(mask, other),
         NEW cleanup \in 0 .. 100, NEW p \in Pixels
  PROVE  /\ CleanPixel(mask, p, cleanup) \in {0, 255} /\ CleanPixel(other, p, cleanup) \in {0, 255}
         /\ CleanPixel(mask, p, cleanup) <= CleanPixel(other, p, cleanup)
<1> DEFINE N == Near(p, CleanupRadius(cleanup))
           Dark(m) == 40000 * Cardinality({q \in N : m[q] >= 192})
           Low == HoleLimit(cleanup) * Cardinality(N)
           High == SpeckLimit(cleanup) * Cardinality(N)
           Result(m) == IF m[p] >= 192 /\ Dark(m) <= Low THEN 0
                        ELSE IF m[p] <= 64 /\ Dark(m) >= High THEN 255 ELSE m[p]
<1>1. CleanPixel(mask, p, cleanup) = Result(mask) /\ CleanPixel(other, p, cleanup) = Result(other)
  BY SMT DEF CleanPixel, BackgroundRatioAtMost, BackgroundRatioAtLeast
<1>2. N \subseteq Pixels /\ IsFiniteSet(N) /\ Cardinality(N) \in Nat \ {0}
  BY CleanupLimits, NearIsInPicture
<1> HIDE DEF N
<1>3. \A q \in Pixels : /\ mask[q] \in {0, 255} /\ other[q] \in {0, 255} /\ mask[q] <= other[q]
  BY DEF HardConfidence, LessBackground
<1>4. Dark(mask) \in Int /\ Dark(other) \in Int /\ Dark(mask) <= Dark(other)
  <2> DEFINE M == {q \in N : mask[q] >= 192}
             O == {q \in N : other[q] >= 192}
  <2>1. M \in SUBSET O
    BY <1>2, <1>3
  <2>2. IsFiniteSet(O)
    BY <1>2, FS_Subset
  <2> HIDE DEF M, O
  <2>3. IsFiniteSet(M) /\ Cardinality(M) <= Cardinality(O)
    BY <2>1, <2>2, FS_Subset
  <2>4. Cardinality(M) \in Nat /\ Cardinality(O) \in Nat
    BY <2>2, <2>3, FS_CardinalityType
  <2>5. 40000 * Cardinality(M) \in Int /\ 40000 * Cardinality(O) \in Int
        /\ 40000 * Cardinality(M) <= 40000 * Cardinality(O)
    BY <2>3, <2>4
  <2> QED
    BY <2>5 DEF M, O
<1>5. Low \in Int /\ High \in Int /\ Low < High
  <2>1. PICK n \in Nat \ {0} : n = Cardinality(N)
    BY <1>2
  <2>2. PICK l \in Nat, h \in Nat : l = HoleLimit(cleanup) /\ h = SpeckLimit(cleanup) /\ l < h
    BY CleanupLimits
  <2>3. l * n < h * n
    <3>1. PICK e \in Nat \ {0} : h = l + e
      <4>1. h - l \in Nat \ {0} /\ h = l + (h - l)
        BY <2>2
      <4> QED
        BY <4>1
    <3>2. h * n = l * n + e * n /\ e * n > 0
      BY <3>1
    <3> QED
      BY <3>2
  <2> QED
    BY <2>1, <2>2, <2>3
<1> HIDE DEF Dark, Low, High
<1>6. Result(mask) \in {0, 255} /\ Result(other) \in {0, 255} /\ Result(mask) <= Result(other)
  BY <1>3, <1>4, <1>5
<1> QED
  BY <1>1, <1>6

LEMMA CleanKeepsOrder ==
  ASSUME NEW mask \in HardConfidence, NEW other \in HardConfidence, LessBackground(mask, other),
         NEW cleanup \in Int
  PROVE  /\ Clean(mask, cleanup) \in HardConfidence /\ Clean(other, cleanup) \in HardConfidence
         /\ LessBackground(Clean(mask, cleanup), Clean(other, cleanup))
<1> DEFINE strength == Clamp(cleanup, 0, 100)
<1>1. strength \in 0 .. 100
  BY DEF Clamp, Lower, Higher
<1> HIDE DEF strength
<1>2. \A p \in Pixels :
        /\ CleanPixel(mask, p, strength) \in {0, 255} /\ CleanPixel(other, p, strength) \in {0, 255}
        /\ CleanPixel(mask, p, strength) <= CleanPixel(other, p, strength)
  BY <1>1, CleanPixelKeepsOrder
<1>3. \A m : Clean(m, cleanup)
               = IF cleanup <= 0 THEN m ELSE [p \in Pixels |-> CleanPixel(m, p, strength)]
  BY Zenon DEF Clean, strength
<1> QED
  BY <1>2, <1>3 DEF HardConfidence, LessBackground

-----------------------------------------------------------------------------
(* The background of a certain confidence is certain. *)

LEMMA HardDecides ==
  ASSUME NEW threshold \in Int
  PROVE  Hard(255, threshold) = 0 /\ Hard(0, threshold) \in {0, 255}
<1>1. Clamp(threshold, 0, 100) \in 0 .. 100
  BY DEF Clamp, Lower, Higher
<1>2. (Clamp(threshold, 0, 100) * 255) \div 100 <= 255
  BY <1>1
<1> QED
  BY <1>1, <1>2 DEF Hard

LEMMA SoftDecides ==
  ASSUME NEW threshold \in 0 .. 100, NEW softness \in 0 .. 100
  PROVE  Soft(255, threshold, softness) = 0 /\ Soft(0, threshold, softness) \in {0, 255}
<1> DEFINE low  == Clamp(2 * threshold - softness, 0, 200)
           high == Clamp(2 * threshold + softness, 0, 200)
<1>1. \A v : Soft(v, threshold, softness)
               = IF high <= low THEN Hard(v, threshold) ELSE Ramp(v, low, high)
  BY Zenon DEF Soft, Ramp
<1>2. low \in 0 .. 200 /\ high \in 0 .. 200
  <2>1. 2 * threshold - softness \in Int /\ 2 * threshold + softness \in Int
    OBVIOUS
  <2>2. \A n \in Int : Clamp(n, 0, 200) \in 0 .. 200
    BY DEF Clamp, Lower, Higher
  <2> QED
    BY <2>1, <2>2, Zenon
<1> HIDE DEF low, high
<1>3. ASSUME ~(high <= low) PROVE Ramp(255, low, high) = 0 /\ Ramp(0, low, high) = 255
  <2> DEFINE Steps(v) == ((200 * v - 255 * low) * 100) \div (255 * (high - low))
  <2>1. PICK d \in Nat \ {0} : d = 255 * (high - low) /\ 255 * (high - low) <= 255 * (200 - low)
    BY <1>2, <1>3
  <2>2. Steps(0) \in Int /\ Steps(0) <= 0
    <3>1. (200 * 0 - 255 * low) * 100 <= 0 /\ (200 * 0 - 255 * low) * 100 \in Int
      BY <1>2
    <3>2. 0 \div d = 0
      OBVIOUS
    <3> QED
      BY <2>1, <3>1, <3>2, DivisionKeepsOrder
  <2>3. Steps(255) \in Int /\ Steps(255) >= 100
    <3>1. (200 * 255 - 255 * low) * 100 \in Int /\ 100 * d \in Int
          /\ 100 * d <= (200 * 255 - 255 * low) * 100
      BY <1>2, <2>1
    <3>2. (100 * d) \div d = 100
      OBVIOUS
    <3> QED
      BY <2>1, <3>1, <3>2, DivisionKeepsOrder
  <2>4. \A v : Ramp(v, low, high) = Rounded((100 - Smoothstep(Clamp(Steps(v), 0, 100))) * 255, 100)
    BY Zenon DEF Ramp
  <2> HIDE DEF Steps
  <2>5. Clamp(Steps(0), 0, 100) = 0 /\ Clamp(Steps(255), 0, 100) = 100
    BY <2>2, <2>3 DEF Clamp, Lower, Higher
  <2>6. Smoothstep(0) = 0 /\ Smoothstep(100) = 100
    BY DEF Smoothstep, Rounded
  <2>7. Rounded((100 - 0) * 255, 100) = 255 /\ Rounded((100 - 100) * 255, 100) = 0
    BY DEF Rounded
  <2>8. Ramp(0, low, high) = Rounded((100 - 0) * 255, 100)
    BY <2>4, <2>5, <2>6
  <2>9. Ramp(255, low, high) = Rounded((100 - 100) * 255, 100)
    BY <2>4, <2>5, <2>6
  <2> QED
    BY <2>7, <2>8, <2>9
<1> QED
  BY <1>1, <1>3, HardDecides

LEMMA BackgroundDecides ==
  ASSUME NEW s, IsShaping(s), s.enableThreshold
  PROVE  Background(255, s) = 0 /\ Background(0, s) \in {0, 255}
<1> DEFINE threshold == Clamp(s.threshold, 0, 100)
           softness  == Clamp(s.edgeSoftness, 0, 100)
<1>1. threshold \in 0 .. 100 /\ softness \in 0 .. 100
  BY DEF IsShaping, Clamp, Lower, Higher
<1>2. Hard(255, s.threshold) = 0 /\ Hard(0, s.threshold) \in {0, 255}
  BY HardDecides DEF IsShaping
<1> HIDE DEF threshold, softness
<1>3. \A v : Background(v, s) = IF s.edgeSoftness <= 0 THEN Hard(v, s.threshold)
                                ELSE Soft(v, threshold, softness)
  BY Zenon DEF Background, threshold, softness
<1>4. Soft(255, threshold, softness) = 0 /\ Soft(0, threshold, softness) \in {0, 255}
  BY <1>1, SoftDecides
<1>5. CASE s.edgeSoftness <= 0
  BY <1>2, <1>3, <1>5
<1>6. CASE ~(s.edgeSoftness <= 0)
  BY <1>3, <1>4, <1>6
<1> QED
  BY <1>5, <1>6

-----------------------------------------------------------------------------
(* The shaping as a whole. *)

LEMMA KernelIsPositive ==
  ASSUME NEW size \in Int
  PROVE  OddKernelSize(size) \in Nat \ {0}
BY DEF OddKernelSize, Higher

LEMMA SmoothContourKeepsOrder ==
  ASSUME NEW mask, NEW other, Ordered(mask, other), NEW s, IsShaping(s)
  PROVE  Ordered(SmoothContour(mask, s), SmoothContour(other, s))
<1> DEFINE kernelSize == OddKernelSize(300 + 11 * s.smoothContour)
<1>1. kernelSize \in Nat
  BY KernelIsPositive DEF IsShaping
<1> HIDE DEF kernelSize
<1>2. Ordered(Blur(mask, kernelSize), Blur(other, kernelSize))
  BY <1>1, BlurKeepsOrder
<1>3. Ordered(Binary(Blur(mask, kernelSize)), Binary(Blur(other, kernelSize)))
  BY <1>2, BinaryKeepsOrder
<1>4. \A m : SmoothContour(m, s)
               = IF s.smoothContour <= 0 THEN m
                 ELSE IF s.edgeSoftness <= 0 THEN Binary(Blur(m, kernelSize))
                 ELSE Blur(m, kernelSize)
  BY ComputedIsMask DEF SmoothContour, kernelSize
<1> QED
  BY <1>2, <1>3, <1>4

LEMMA ExpandKeepsOrder ==
  ASSUME NEW mask, NEW other, Ordered(mask, other), NEW s, IsShaping(s)
  PROVE  Ordered(Expand(mask, s), Expand(other, s))
<1>1. s.maskExpansion \in Int
  BY DEF IsShaping
<1>2. CASE s.maskExpansion > 0
  <2>1. s.maskExpansion \in Nat
    BY <1>1, <1>2
  <2>2. Expand(mask, s) = Erode(mask, s.maskExpansion) /\ Expand(other, s) = Erode(other, s.maskExpansion)
    BY <1>2 DEF Expand
  <2> QED
    BY <2>1, <2>2, ErodeKeepsOrder
<1>3. CASE s.maskExpansion < 0
  <2>1. -s.maskExpansion \in Nat /\ ~(s.maskExpansion > 0)
    BY <1>1, <1>3
  <2>2. /\ Expand(mask, s) = Dilate(mask, -s.maskExpansion)
        /\ Expand(other, s) = Dilate(other, -s.maskExpansion)
    BY <1>3, <2>1 DEF Expand
  <2> QED
    BY <2>1, <2>2, DilateKeepsOrder
<1>4. CASE s.maskExpansion = 0
  BY <1>4 DEF Expand
<1> QED
  BY <1>1, <1>2, <1>3, <1>4

LEMMA FeatherKeepsOrder ==
  ASSUME NEW mask, NEW other, Ordered(mask, other), NEW feather \in Int
  PROVE  Ordered(Feather(mask, feather), Feather(other, feather))
<1> DEFINE kernelSize == OddKernelSize(40 * feather)
<1>1. kernelSize \in Nat
  BY KernelIsPositive
<1> HIDE DEF kernelSize
<1>2. kernelSize \div 3 \in Nat
  BY <1>1
<1>3. Ordered(Dilate(mask, kernelSize \div 3), Dilate(other, kernelSize \div 3))
  BY <1>2, DilateKeepsOrder
<1>4. Ordered(Blur(Dilate(mask, kernelSize \div 3), kernelSize),
              Blur(Dilate(other, kernelSize \div 3), kernelSize))
  BY <1>1, <1>3, BlurKeepsOrder
<1>5. \A m : Feather(m, feather)
               = IF feather <= 0 THEN m ELSE Blur(Dilate(m, kernelSize \div 3), kernelSize)
  BY ComputedIsMask DEF Feather, kernelSize
<1> QED
  BY <1>4, <1>5

LEMMA ShapedKeepsOrder ==
  ASSUME NEW mask \in HardConfidence, NEW other \in HardConfidence, LessBackground(mask, other),
         NEW s, IsShaping(s)
  PROVE  Ordered(Shaped(mask, s), Shaped(other, s))
<1> DEFINE Cleaned(m)  == Clean(m, s.foregroundCleanup)
           Filtered(m) == FilterSmallBackgroundComponents(Cleaned(m), s.contourFilter)
           Smoothed(m) == SmoothContour(Filtered(m), s)
           Expanded(m) == Expand(Smoothed(m), s)
<1>1. /\ Cleaned(mask) \in HardConfidence /\ Cleaned(other) \in HardConfidence
      /\ LessBackground(Cleaned(mask), Cleaned(other))
  BY CleanKeepsOrder DEF IsShaping
<1> HIDE DEF Cleaned
<1>2. /\ Ordered(Cleaned(mask), Cleaned(other))
      /\ \A q \in Pixels : Cleaned(other)[q] >= 0
  BY <1>1 DEF Ordered, IntegerMask, HardConfidence
<1>3. Ordered(Filtered(mask), Filtered(other))
  BY <1>2, FilterKeepsOrder DEF IsShaping
<1> HIDE DEF Filtered
<1>4. Ordered(Smoothed(mask), Smoothed(other))
  BY <1>3, SmoothContourKeepsOrder
<1> HIDE DEF Smoothed
<1>5. Ordered(Expanded(mask), Expanded(other))
  BY <1>4, ExpandKeepsOrder
<1> HIDE DEF Expanded
<1>6. Ordered(Feather(Expanded(mask), s.feather), Feather(Expanded(other), s.feather))
  BY <1>5, FeatherKeepsOrder DEF IsShaping
<1>7. \A m : Shaped(m, s) = Feather(Expanded(m), s.feather)
  BY ComputedIsMask DEF Shaped, Expanded, Smoothed, Filtered, Cleaned
<1> QED
  BY <1>6, <1>7

\* The less certain the model is of the subject, wherever that may be, the more
\* background the shaped mask has.
THEOREM ConfidenceKeepsOrder ==
  ASSUME NEW foreground \in HardConfidence, NEW other \in HardConfidence,
         LessBackground(other, foreground), NEW s, IsShaping(s)
  PROVE  LessBackground(PostProcess(foreground, s), PostProcess(other, s))
<1>1. \A p \in Pixels : /\ foreground[p] \in {0, 255} /\ other[p] \in {0, 255}
                        /\ other[p] <= foreground[p]
  BY DEF HardConfidence, LessBackground
<1>2. CASE s.enableThreshold
  <2> DEFINE B(m) == BackgroundMask(m, s)
  <2>1. Background(255, s) = 0 /\ Background(0, s) \in {0, 255}
    BY <1>2, BackgroundDecides
  <2>2. B(foreground) \in HardConfidence /\ B(other) \in HardConfidence
    BY <1>1, <2>1 DEF BackgroundMask, HardConfidence
  <2>3. LessBackground(B(foreground), B(other))
    BY <1>1, <2>1 DEF BackgroundMask, LessBackground
  <2> HIDE DEF B
  <2>4. Ordered(Shaped(B(foreground), s), Shaped(B(other), s))
    BY <2>2, <2>3, ShapedKeepsOrder
  <2>5. \A m : PostProcess(m, s) = Shaped(B(m), s)
    BY <1>2, ComputedIsMask DEF PostProcess, B
  <2> QED
    BY <2>4, <2>5 DEF Ordered
<1>3. CASE ~s.enableThreshold
  <2>1. \A m : PostProcess(m, s) = [p \in Pixels |-> 255 - m[p]]
    BY <1>3, ComputedIsMask DEF PostProcess, BackgroundMask, Background
  <2> QED
    BY <1>1, <2>1 DEF LessBackground
<1> QED
  BY <1>2, <1>3

\* No shaping reverses a hard mask: the settings may have any values.
LEMMA ShapingNeverReverses ==
  ASSUME NEW s, IsShaping(s)
  PROVE  ShapingIsMonotone(s)
<1> SUFFICES ASSUME NEW foreground \in HardConfidence, NEW p \in Pixels, foreground[p] = 255
             PROVE  LessBackground(PostProcess(foreground, s),
                                   PostProcess([foreground EXCEPT ![p] = 0], s))
  BY DEF ShapingIsMonotone
<1> DEFINE other == [foreground EXCEPT ![p] = 0]
<1>1. other \in HardConfidence /\ LessBackground(other, foreground)
  BY DEF HardConfidence, LessBackground
<1> HIDE DEF other
<1>2. LessBackground(PostProcess(foreground, s), PostProcess(other, s))
  BY <1>1, ConfidenceKeepsOrder
<1> QED
  BY <1>2 DEF other

\* In every state, whatever shapings are examined.
THEOREM ShapingsAlwaysKeepOrder == Spec => []ShapingKeepsOrder
<1>1. ShapingKeepsOrder
  BY ShapingsAssumption, ShapingNeverReverses DEF ShapingKeepsOrder
<1> QED
  BY <1>1, PTL
=============================================================================
