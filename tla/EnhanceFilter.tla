---------------------------- MODULE EnhanceFilter ----------------------------
(***************************************************************************)
(* The low-light enhancement filter (src/src/enhance-filter.cpp): the      *)
(* callbacks that create, update, activate, deactivate and destroy it, the *)
(* tick that runs the model on the last captured picture and the render    *)
(* that captures the next one and draws the last result.                   *)
(*                                                                         *)
(* Each update that swaps the model has a number.  An engine says which    *)
(* update built each of its parts, so a part left over from an earlier     *)
(* update is one with a smaller number.  An output picture is the engine   *)
(* that computed it: what it shows is left out.                            *)
(*                                                                         *)
(* OBS calls tick and render on its graphics thread; they are processes of *)
(* their own here, because the code takes locks between them.  A callback  *)
(* that returns before it has changed anything is not a step.              *)
(***************************************************************************)
EXTENDS Naturals, FiniteSets

CONSTANTS
  Settings,        \* the settings a user may apply: model, device, threads
  SessionFaults,   \* how createOrtSession may fail: "startup", "shapes"
  InferenceFails,  \* may an inference return false or throw?
  MaxSwaps,        \* bound on the updates that swap the model
  None             \* no settings, an empty cv::Mat, a null texture

Engine == [class : Nat, session : Nat, tensors : Nat]

ASSUME SettingsAssumption == Settings # {} /\ IsFiniteSet(Settings)
ASSUME FaultsAssumption   == /\ SessionFaults \subseteq {"startup", "shapes"}
                             /\ InferenceFails \in BOOLEAN
ASSUME BoundsAssumption   == MaxSwaps \in Nat
ASSUME NoneAssumption     == None \notin Settings \cup Engine

VARIABLES
  phase,          \* "new", "failed", "creating", "live", "dying", "clean", "deleted", "freed"
  isDisabled,
  ustage,         \* the update: "idle", "lock", "session", "effect"
  request,        \* the settings it applies
  selection,      \* modelSelection, useGPU and numThreads
  engine,         \* model, session and the tensors with their dimensions
  built,          \* the updates whose createOrtSession succeeded
  broken,         \* the engines of which an inference has failed
  modelMutex,     \* "free", "update" or "tick"
  graphics,       \* whether a render holds the graphics context: "free", "render"
  blendEffect,    \* whether the effect has been loaded
  inputBGRA,      \* whether a picture has been captured
  outputBGRA, outputTexture,
  tstage,         \* the tick: "idle", "input", "model", "infer", "store"
  outputImage,    \* the tick's local result
  rstage          \* the render: "idle", "capture", "begin", "upload"

life    == <<phase, isDisabled>>
update  == <<ustage, request, selection>>
model   == <<engine, built>>
picture == <<inputBGRA, outputBGRA, outputTexture>>
tick    == <<tstage, outputImage>>
vars    == <<life, update, model, broken, modelMutex, graphics, blendEffect,
             picture, tick, rstage>>

NoEngine == [class |-> 0, session |-> 0, tensors |-> 0]

Init ==
  /\ phase = "new"
  /\ isDisabled = FALSE
  /\ ustage = "idle"
  /\ request = None
  /\ selection = None
  /\ engine = NoEngine
  /\ built = {}
  /\ broken = {}
  /\ modelMutex = "free"
  /\ graphics = "free"
  /\ blendEffect = FALSE
  /\ inputBGRA = FALSE
  /\ outputBGRA = None
  /\ outputTexture = None
  /\ tstage = "idle"
  /\ outputImage = None
  /\ rstage = "idle"

\* The definitions named Variant... are those beside them with one plausible slip;
\* no specification uses them.  They show which slip each property would catch.

-----------------------------------------------------------------------------
(* enhance_filter_update.  Its first part is shared with create. *)

EnterUpdate(s) ==
  /\ ustage = "idle"
  /\ s # selection => engine.class < MaxSwaps
  /\ request' = s
  /\ ustage' = IF s # selection THEN "lock" ELSE "effect"
  /\ UNCHANGED selection

Create(s) ==
  /\ phase = "new"
  /\ phase' = "creating"
  /\ EnterUpdate(s)
  /\ UNCHANGED <<isDisabled, model, broken, modelMutex, graphics, blendEffect,
                 picture, tick, rstage>>

\* make_shared or Ort::Env throws: create logs it and returns nullptr
CreateFails ==
  /\ phase = "new"
  /\ phase' = "failed"
  /\ UNCHANGED <<isDisabled, update, model, broken, modelMutex, graphics, blendEffect,
                 picture, tick, rstage>>

Update(s) ==
  /\ phase = "live"
  /\ EnterUpdate(s)
  /\ UNCHANGED <<life, model, broken, modelMutex, graphics, blendEffect, picture,
                 tick, rstage>>

\* modelMutex is taken and the model object replaced
SwapModel ==
  /\ ustage = "lock"
  /\ modelMutex = "free"
  /\ modelMutex' = "update"
  /\ ustage' = "session"
  /\ selection' = request
  /\ engine' = [engine EXCEPT !.class = engine.class + 1]
  /\ UNCHANGED <<life, request, built, broken, graphics, blendEffect, picture,
                 tick, rstage>>

VariantSessionKeepsMutex ==
  /\ ustage = "session"
  /\ ustage' = "effect"
  /\ \/ /\ engine' = [class |-> engine.class, session |-> engine.class,
                      tensors |-> engine.class]
        /\ built' = built \cup {engine.class}
        /\ modelMutex' = "free"
     \/ /\ "startup" \in SessionFaults       \* an early return that unlocks nothing
        /\ UNCHANGED <<engine, built, modelMutex>>
  /\ UNCHANGED <<life, request, selection, broken, graphics, blendEffect,
                 picture, tick, rstage>>

\* createOrtSession, whose result the caller ignores, and the release of modelMutex
CreateOrtSession ==
  /\ ustage = "session"
  /\ ustage' = "effect"
  /\ modelMutex' = "free"
  /\ \/ /\ engine' = [class |-> engine.class, session |-> engine.class,
                      tensors |-> engine.class]
        /\ built' = built \cup {engine.class}
     \/ /\ "startup" \in SessionFaults       \* nothing has been replaced yet
        /\ UNCHANGED <<engine, built>>
     \/ /\ "shapes" \in SessionFaults        \* the tensors are the old ones
        /\ engine' = [engine EXCEPT !.session = engine.class]
        /\ UNCHANGED built
  /\ UNCHANGED <<life, request, selection, broken, graphics, blendEffect,
                 picture, tick, rstage>>

\* the effect is created once, or again when its file could not be read
LoadEffect ==
  /\ ustage = "effect"
  /\ \/ blendEffect /\ UNCHANGED blendEffect
     \/ ~blendEffect /\ graphics = "free" /\ blendEffect' \in BOOLEAN
  /\ ustage' = "idle"
  /\ request' = None
  /\ phase' = IF phase = "creating" THEN "live" ELSE phase
  /\ UNCHANGED <<isDisabled, selection, model, broken, modelMutex, graphics,
                 picture, tick, rstage>>

-----------------------------------------------------------------------------
(* enhance_filter_activate and enhance_filter_deactivate *)

SetDisabled(b) ==
  /\ phase = "live" /\ isDisabled = ~b
  /\ isDisabled' = b
  /\ UNCHANGED <<phase, update, model, broken, modelMutex, graphics, blendEffect,
                 picture, tick, rstage>>

Activate   == SetDisabled(FALSE)
Deactivate == SetDisabled(TRUE)

-----------------------------------------------------------------------------
(* enhance_filter_destroy.  OBS has left the other callbacks of the source *)
(* by then, but a tick or a render that has copied the shared pointer may  *)
(* still be running: it keeps the instance alive.                          *)

Destroy ==
  /\ phase = "live" /\ ustage = "idle"
  /\ phase' = "dying"
  /\ isDisabled' = TRUE
  /\ UNCHANGED <<update, model, broken, modelMutex, graphics, blendEffect, picture,
                 tick, rstage>>

VariantCleanOutsideGraphics ==
  /\ phase = "dying"
  /\ phase' = "clean"
  /\ blendEffect' = FALSE
  /\ outputTexture' = None
  /\ UNCHANGED <<isDisabled, update, model, broken, modelMutex, graphics, inputBGRA,
                 outputBGRA, tick, rstage>>

DestroyGraphics ==
  /\ phase = "dying" /\ graphics = "free"
  /\ phase' = "clean"
  /\ blendEffect' = FALSE
  /\ outputTexture' = None
  /\ UNCHANGED <<isDisabled, update, model, broken, modelMutex, graphics, inputBGRA,
                 outputBGRA, tick, rstage>>

\* the shared pointers of a tick and a render that have not returned yet
Holders == {h \in {"tick", "render"} : \/ h = "tick" /\ tstage # "idle"
                                       \/ h = "render" /\ rstage # "idle"}

DeletePointer ==
  /\ phase = "clean"
  /\ phase' = IF Holders = {} THEN "freed" ELSE "deleted"
  /\ UNCHANGED <<isDisabled, update, model, broken, modelMutex, graphics, blendEffect,
                 picture, tick, rstage>>

\* a return drops the callback's shared pointer; the last one frees the instance
Drop(h) ==
  phase' = IF phase = "deleted" /\ Holders = {h} THEN "freed" ELSE phase

-----------------------------------------------------------------------------
(* enhance_filter_video_tick *)

EnterTick ==
  /\ phase = "live" /\ tstage = "idle" /\ ~isDisabled
  /\ tstage' = "input"
  /\ UNCHANGED <<life, update, model, broken, modelMutex, graphics, blendEffect,
                 picture, outputImage, rstage>>

LeaveTick ==
  /\ tstage' = "idle"
  /\ outputImage' = None
  /\ Drop("tick")

\* no picture has been captured, or the render has its lock, or the source is not
\* enabled
SkipInput ==
  /\ tstage = "input"
  /\ LeaveTick
  /\ UNCHANGED <<isDisabled, update, model, broken, modelMutex, graphics, blendEffect,
                 picture, rstage>>

CloneInput ==
  /\ tstage = "input" /\ inputBGRA
  /\ tstage' = "model"
  /\ UNCHANGED <<life, update, model, broken, modelMutex, graphics, blendEffect,
                 picture, outputImage, rstage>>

LockModel ==
  /\ tstage = "model" /\ modelMutex = "free"
  /\ modelMutex' = "tick"
  /\ tstage' = "infer"
  /\ UNCHANGED <<life, update, model, broken, graphics, blendEffect, picture,
                 outputImage, rstage>>

Infer ==
  /\ tstage = "infer" /\ engine.session # 0
  /\ modelMutex' = "free"
  /\ tstage' = "store"
  /\ outputImage' = engine
  /\ UNCHANGED <<life, update, model, broken, graphics, blendEffect, picture,
                 rstage>>

\* false without a session or from an unusable output, or an exception
InferenceFault ==
  /\ tstage = "infer" /\ (engine.session = 0 \/ InferenceFails)
  /\ modelMutex' = "free"
  /\ broken' = broken \cup {engine.class}
  /\ LeaveTick
  /\ UNCHANGED <<isDisabled, update, model, graphics, blendEffect, picture, rstage>>

\* a result is stored only while there is none
VariantStoreOnce ==
  /\ tstage = "store" /\ outputBGRA = None
  /\ outputBGRA' = outputImage
  /\ LeaveTick
  /\ UNCHANGED <<isDisabled, update, model, broken, modelMutex, graphics, blendEffect,
                 inputBGRA, outputTexture, rstage>>

StoreOutput ==
  /\ tstage = "store"
  /\ outputBGRA' = outputImage
  /\ LeaveTick
  /\ UNCHANGED <<isDisabled, update, model, broken, modelMutex, graphics, blendEffect,
                 inputBGRA, outputTexture, rstage>>

\* try_lock fails because the render has outputLock: the result is lost
OutputBusy ==
  /\ tstage = "store" /\ rstage = "upload"
  /\ LeaveTick
  /\ UNCHANGED <<isDisabled, update, model, broken, modelMutex, graphics, blendEffect,
                 picture, rstage>>

-----------------------------------------------------------------------------
(* enhance_filter_video_render, inside the graphics context OBS holds.     *)
(* CaptureInput is getRGBAFromStageSurface with inputBGRALock, Draw the    *)
(* block with outputLock: a lock held for one action has no variable.      *)

EnterRender ==
  /\ phase = "live" /\ rstage = "idle" /\ graphics = "free"
  /\ graphics' = "render"
  /\ rstage' = "capture"
  /\ UNCHANGED <<life, update, model, broken, modelMutex, blendEffect, picture, tick>>

LeaveRender ==
  /\ rstage' = "idle"
  /\ graphics' = "free"
  /\ Drop("render")

CaptureInput ==
  /\ rstage = "capture"
  /\ inputBGRA' = TRUE
  /\ rstage' = "begin"
  /\ UNCHANGED <<life, update, model, broken, modelMutex, graphics, blendEffect,
                 outputBGRA, outputTexture, tick>>

\* the stage surface is not mapped, or OBS refuses to begin the filter
SkipRender ==
  /\ rstage \in {"capture", "begin"}
  /\ LeaveRender
  /\ UNCHANGED <<isDisabled, update, model, broken, modelMutex, blendEffect, picture, tick>>

BeginFilter ==
  /\ rstage = "begin"
  /\ rstage' = "upload"
  /\ UNCHANGED <<life, update, model, broken, modelMutex, graphics, blendEffect,
                 picture, tick>>

\* nothing to draw yet
SkipEmpty ==
  /\ rstage = "upload" /\ outputBGRA = None
  /\ LeaveRender
  /\ UNCHANGED <<isDisabled, update, model, broken, modelMutex, blendEffect, picture, tick>>

\* the output goes to the texture and is drawn; a texture that cannot be created
\* leaves none
Draw ==
  /\ rstage = "upload" /\ outputBGRA # None
  /\ outputTexture' \in {outputBGRA, None}
  /\ LeaveRender
  /\ UNCHANGED <<isDisabled, update, model, broken, modelMutex, blendEffect, inputBGRA,
                 outputBGRA, tick>>

-----------------------------------------------------------------------------
UpdateStep  == SwapModel \/ CreateOrtSession \/ LoadEffect
DestroyStep == DestroyGraphics \/ DeletePointer
TickStep    == SkipInput \/ CloneInput \/ LockModel \/ Infer \/ InferenceFault
               \/ StoreOutput \/ OutputBusy
RenderStep  == CaptureInput \/ SkipRender \/ BeginFilter \/ SkipEmpty \/ Draw

Next ==
  \/ \E s \in Settings : Create(s) \/ Update(s)
  \/ CreateFails
  \/ UpdateStep
  \/ Activate \/ Deactivate
  \/ Destroy \/ DestroyStep
  \/ EnterTick \/ TickStep
  \/ EnterRender \/ RenderStep

Spec == Init /\ [][Next]_vars

(***************************************************************************)
(* A callback that has begun goes on, and OBS ticks a live source again    *)
(* and again.  A mutex that is free again and again is obtained, and so is *)
(* the graphics context.  CloneInput and StoreOutput get strong fairness,  *)
(* because the graphics thread runs tick and render in turn: the tick does *)
(* not find a lock taken each time it tries, and the property below is     *)
(* about a source that is enabled.                                         *)
(***************************************************************************)
Fairness ==
  /\ SF_vars(SwapModel) /\ WF_vars(CreateOrtSession) /\ SF_vars(LoadEffect)
  /\ WF_vars(DestroyGraphics) /\ WF_vars(DeletePointer)
  /\ WF_vars(EnterTick) /\ WF_vars(TickStep)
  /\ SF_vars(CloneInput) /\ SF_vars(StoreOutput)
  /\ WF_vars(RenderStep)

FairSpec == Spec /\ Fairness

-----------------------------------------------------------------------------
(* Properties *)

Pictures == {outputImage, outputBGRA, outputTexture} \ {None}

TypeOK ==
  /\ phase \in {"new", "failed", "creating", "live", "dying", "clean", "deleted", "freed"}
  /\ isDisabled \in BOOLEAN
  /\ ustage \in {"idle", "lock", "session", "effect"}
  /\ request \in Settings \cup {None}
  /\ selection \in Settings \cup {None}
  /\ engine \in Engine
  /\ built \subseteq Nat
  /\ broken \subseteq Nat
  /\ modelMutex \in {"free", "update", "tick"}
  /\ graphics \in {"free", "render"}
  /\ blendEffect \in BOOLEAN
  /\ inputBGRA \in BOOLEAN
  /\ outputBGRA \in Engine \cup {None}
  /\ outputTexture \in Engine \cup {None}
  /\ tstage \in {"idle", "input", "model", "infer", "store"}
  /\ outputImage \in Engine \cup {None}
  /\ rstage \in {"idle", "capture", "begin", "upload"}

\* modelMutex is held by whoever is inside its block, the graphics context by a render
LocksHeld ==
  /\ modelMutex = "update" <=> ustage = "session"
  /\ modelMutex = "tick" <=> tstage = "infer"
  /\ graphics = "render" <=> rstage # "idle"

\* The shared pointer of a running callback keeps the instance, and nothing draws
\* with the effect, the texture and the stage surface once destroy has freed them.
NothingUsedAfterFree ==
  /\ phase = "freed" => tstage = "idle" /\ rstage = "idle"
  /\ rstage # "idle" => phase \in {"live", "dying"}
  /\ tstage # "idle" => phase \in {"live", "dying", "clean", "deleted"}
  /\ ustage # "idle" => phase \in {"creating", "live"}
  /\ phase \in {"clean", "deleted", "freed"} => ~blendEffect /\ outputTexture = None

\* Parts of an engine are never newer than its model object; an engine whose
\* createOrtSession succeeded has no part of an earlier one.
Whole(e) ==
  /\ e.tensors <= e.session
  /\ e.session <= e.class
  /\ e.class <= engine.class
  /\ e.class \in built => e.session = e.class /\ e.tensors = e.class

\* Every picture, stored or on its way, was computed by one engine: an inference
\* never runs the model object of one update with the session of another, unless
\* createOrtSession failed and left the old session in place (hazard: an update
\* while the tick infers).
WholeEngine == Whole(engine) /\ \A e \in Pictures : Whole(e)

\* Only a tick about to store has a result; only numbers given to a model are built;
\* and while createOrtSession runs, nothing has been computed with the new model.
NumbersInOrder ==
  /\ outputImage # None <=> tstage = "store"
  /\ \A n \in built : n <= engine.class
  /\ ustage = "session" => /\ engine.class \notin built
                           /\ \A e \in Pictures : e.class < engine.class

\* The filter's inductive invariant (enhance_filter_update, destroy, video_tick and
\* video_render): locks, the life of the instance, and engines that are not mixed.
EnhanceInvariant ==
  /\ TypeOK
  /\ LocksHeld
  /\ NothingUsedAfterFree
  /\ WholeEngine
  /\ NumbersInOrder

\* A model whose session was created is seen: the filter comes to output a picture
\* of it, unless an inference of it fails, it is replaced, or the filter is
\* disabled or destroyed (update, tick and render compete for three locks).
NewModelShows ==
  \A n \in 1..MaxSwaps :
    (n \in built /\ engine.class = n /\ inputBGRA) ~>
      \/ outputBGRA # None /\ outputBGRA.class >= n
      \/ n \in broken \/ engine.class > n \/ isDisabled \/ phase # "live"

\* An update returns, even if the session cannot be created, and a destroyed filter
\* is freed once the tick and the render it overtook have returned.
CallbacksEnd ==
  /\ (ustage # "idle") ~> (ustage = "idle")
  /\ (phase = "dying") ~> (phase = "freed")
=============================================================================
