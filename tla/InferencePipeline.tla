-------------------------- MODULE InferencePipeline --------------------------
(***************************************************************************)
(* The inference pipeline of the background filter                         *)
(* (src/src/background-filter.cpp): the OBS callbacks that create, update, *)
(* activate, deactivate and destroy a filter, the graphics thread that     *)
(* ticks and renders it, and the worker thread that turns camera frames    *)
(* into mattes.                                                            *)
(*                                                                         *)
(* One action is one critical section or one access to an atomic.  A mutex *)
(* held for one action only has no variable of its own; modelMutex, which  *)
(* the worker holds during an inference, has one.                          *)
(***************************************************************************)
EXTENDS Naturals, FiniteSets

CONSTANTS
  Callers,           \* threads that may be inside a lifecycle callback
  Images,            \* what a frame shows; frames are similar iff it is the same
  Settings,          \* the settings a user may apply
  Every,             \* mask_every_x_frames
  InferenceFaults,   \* the exceptions an inference may end in: "ort", "std"
  SessionFaults,     \* the devices on which createOrtSession may fail
  GraphicsOverlaps,  \* may tick and render run during a lifecycle callback?
  MaxFrames,         \* bound on submittedFrames
  MaxGeneration,     \* bound on inferenceGeneration; destroy may go one beyond
  None               \* an empty cv::Mat, a null pointer, no frame

Kinds   == {"rvm", "seg"}     \* MODEL_RVM, any other segmentation model
Devices == {"gpu", "cpu"}
Setting == [model : Kinds, legacy : BOOLEAN, device : Devices, stop : BOOLEAN]

(***************************************************************************)
(* A frame carries the value submittedFrames had when it was queued.  A    *)
(* matte carries the number and the generation of its frame and `from', the *)
(* generations and models of all the inferences blended into it: its own   *)
(* and, through temporal smoothing, those of its predecessors.             *)
(***************************************************************************)
Frame == [image : Images, number : Nat \ {0}]
Matte == [number : Nat, generation : Nat, from : SUBSET (Nat \X Kinds),
          polarity : {"foreground", "background"}]
Job   == [frame : Frame, generation : Nat, native : BOOLEAN,
          output : Kinds \cup {None}, previous : Matte \cup {None}]

ASSUME CallersAssumption   == Callers # {} /\ IsFiniteSet(Callers)
ASSUME SettingsAssumption  == Settings # {} /\ Settings \subseteq Setting
ASSUME FaultsAssumption    == /\ InferenceFaults \subseteq {"ort", "std"}
                              /\ SessionFaults \subseteq Devices
ASSUME BoundsAssumption    == /\ MaxFrames \in Nat /\ MaxGeneration \in Nat
                              /\ Every \in Nat \ {0}
                              /\ GraphicsOverlaps \in BOOLEAN
ASSUME NoneAssumption      == /\ None \notin Kinds \cup Devices \cup Images
                              /\ None \notin Frame \cup Matte \cup Job

VARIABLES
  phase,        \* the life of the object: "new", "creating", "live", "dying", "freed"
  sourceActive, \* whether OBS regards the source as active
  stage,        \* stage[c]: the next step of the callback c runs, or "idle"
  op,           \* op[c]: the callback c runs or ran last
  request,      \* request[c]: the settings an update applies
  isDisabled, stopWhenSourceIsInactive, nativeAlpha, maskEveryXFramesCount,
  modelMutex,   \* whether the worker holds modelMutex across steps
  modelSelection, useGPU, model, session,
  recurrent,    \* generation of the frame in RVM's recurrent tensors, 0 after a reset
  inferenceGeneration, pendingInferenceFrame, pendingInferenceGeneration,
  stopInferenceWorker, submittedFrames,
  backgroundMask, lastBackgroundMask, backgroundAlpha, lastImageBGRA,
  gstage, gimage,  \* the tick on the graphics thread and the frame it submits
  wstage, job      \* the worker and the locals of its loop

control  == <<phase, sourceActive, stage, op, request>>
flags    == <<isDisabled, stopWhenSourceIsInactive, nativeAlpha, maskEveryXFramesCount>>
engine   == <<modelMutex, modelSelection, useGPU, model, session, recurrent>>
queue    == <<pendingInferenceFrame, pendingInferenceGeneration,
              stopInferenceWorker, submittedFrames>>
outputs  == <<backgroundMask, lastBackgroundMask, backgroundAlpha>>
graphics == <<gstage, gimage>>
worker   == <<wstage, job>>
vars     == <<control, flags, engine, inferenceGeneration, queue, outputs,
              lastImageBGRA, graphics, worker>>

Blended(matte) == IF matte = None THEN {} ELSE matte.from

Flip(p) == IF p = "foreground" THEN "background" ELSE "foreground"

Quiet == \A c \in Callers : stage[c] = "idle"

\* The definitions named Variant... are those beside them with one plausible slip;
\* no specification uses them.  They show which slip each property would catch.

Init ==
  /\ phase = "new"
  /\ sourceActive \in BOOLEAN
  /\ stage = [c \in Callers |-> "idle"]
  /\ op = [c \in Callers |-> "none"]
  /\ request \in {[c \in Callers |-> s] : s \in Settings}
  /\ isDisabled = FALSE
  /\ stopWhenSourceIsInactive = TRUE
  /\ nativeAlpha = FALSE
  /\ maskEveryXFramesCount = 0
  /\ modelMutex = "free"
  /\ modelSelection = "seg"      \* MODEL_MEDIAPIPE
  /\ useGPU = None
  /\ model = None
  /\ session = None
  /\ recurrent = 0
  /\ inferenceGeneration = 1
  /\ pendingInferenceFrame = None
  /\ pendingInferenceGeneration = 0
  /\ stopInferenceWorker = FALSE
  /\ submittedFrames = 0
  /\ backgroundMask = None
  /\ lastBackgroundMask = None
  /\ backgroundAlpha = None
  /\ lastImageBGRA = None
  /\ gstage = "idle"
  /\ gimage = None
  /\ wstage = "none"
  /\ job = None

-----------------------------------------------------------------------------
(* The entry of each callback, up to its first shared access. *)

GoTo(c, s) == stage' = [stage EXCEPT ![c] = s]

MayEnter(c) ==
  /\ stage[c] = "idle"
  /\ GraphicsOverlaps \/ gstage = "idle"
  /\ inferenceGeneration + Cardinality({d \in Callers : stage[d] # "idle"})
       < MaxGeneration

Enter(c, o, s) ==
  /\ GoTo(c, s)
  /\ op' = [op EXCEPT ![c] = o]

\* background_filter_update as far as isDisabled = true
EnterUpdate(c, o) ==
  /\ MayEnter(c)
  /\ \E s \in Settings : request' = [request EXCEPT ![c] = s]
  /\ Enter(c, o, "settings")
  /\ isDisabled' = TRUE

Create(c) ==
  /\ phase = "new"
  /\ EnterUpdate(c, "create")
  /\ phase' = "creating"
  /\ UNCHANGED <<sourceActive, stopWhenSourceIsInactive, nativeAlpha,
                 maskEveryXFramesCount, engine, inferenceGeneration, queue,
                 outputs, lastImageBGRA, graphics, worker>>

Update(c) ==
  /\ phase = "live"
  /\ EnterUpdate(c, "update")
  /\ UNCHANGED <<phase, sourceActive, stopWhenSourceIsInactive, nativeAlpha,
                 maskEveryXFramesCount, engine, inferenceGeneration, queue,
                 outputs, lastImageBGRA, graphics, worker>>

Activate(c) ==
  /\ phase = "live"
  /\ MayEnter(c)
  /\ ~sourceActive
  /\ sourceActive' = TRUE
  /\ \/ /\ stopWhenSourceIsInactive
        /\ Enter(c, "activate", "bump")
        /\ isDisabled' = FALSE
        /\ maskEveryXFramesCount' = 0
     \/ /\ ~stopWhenSourceIsInactive
        /\ UNCHANGED <<stage, op, isDisabled, maskEveryXFramesCount>>
  /\ UNCHANGED <<phase, request, stopWhenSourceIsInactive, nativeAlpha, engine,
                 inferenceGeneration, queue, outputs, lastImageBGRA, graphics, worker>>

Deactivate(c) ==
  /\ phase = "live"
  /\ MayEnter(c)
  /\ sourceActive
  /\ sourceActive' = FALSE
  /\ \/ /\ stopWhenSourceIsInactive
        /\ Enter(c, "deactivate", "bump")
        /\ isDisabled' = TRUE
        /\ maskEveryXFramesCount' = 0
     \/ /\ ~stopWhenSourceIsInactive
        /\ UNCHANGED <<stage, op, isDisabled, maskEveryXFramesCount>>
  /\ UNCHANGED <<phase, request, stopWhenSourceIsInactive, nativeAlpha, engine,
                 inferenceGeneration, queue, outputs, lastImageBGRA, graphics, worker>>

\* OBS destroys a source when no other callback of it runs.
Destroy(c) ==
  /\ phase = "live" /\ Quiet /\ gstage = "idle"
  /\ phase' = "dying"
  /\ Enter(c, "destroy", "bump")
  /\ isDisabled' = TRUE
  /\ UNCHANGED <<sourceActive, request, stopWhenSourceIsInactive, nativeAlpha,
                 maskEveryXFramesCount, engine, inferenceGeneration, queue,
                 outputs, lastImageBGRA, graphics, worker>>

-----------------------------------------------------------------------------
(* invalidateInference, which every callback above runs. *)

BumpGeneration(c) ==
  /\ stage[c] = "bump"
  /\ GoTo(c, "queue")
  /\ inferenceGeneration' = inferenceGeneration + 1
  /\ UNCHANGED <<phase, sourceActive, op, request, flags, engine, queue, outputs,
                 lastImageBGRA, graphics, worker>>

ReleasePending(c) ==
  /\ stage[c] = "queue"
  /\ GoTo(c, "outputs")
  /\ pendingInferenceFrame' = None
  /\ pendingInferenceGeneration' = inferenceGeneration
  /\ UNCHANGED <<phase, sourceActive, op, request, flags, engine,
                 inferenceGeneration, stopInferenceWorker, submittedFrames,
                 outputs, lastImageBGRA, graphics, worker>>

VariantKeepsAlpha ==
  backgroundMask' = None /\ lastBackgroundMask' = None /\ UNCHANGED backgroundAlpha
VariantKeepsLastMask ==
  backgroundMask' = None /\ backgroundAlpha' = None /\ UNCHANGED lastBackgroundMask

ReleaseMats ==
  backgroundMask' = None /\ backgroundAlpha' = None /\ lastBackgroundMask' = None

ReleaseOutputs(c) ==
  /\ stage[c] = "outputs"
  /\ GoTo(c, "image")
  /\ ReleaseMats
  /\ UNCHANGED <<phase, sourceActive, op, request, flags, engine,
                 inferenceGeneration, queue, lastImageBGRA, graphics, worker>>

ReleaseLastImage(c) ==
  /\ stage[c] = "image"
  /\ GoTo(c, "notify")
  /\ lastImageBGRA' = None
  /\ UNCHANGED <<phase, sourceActive, op, request, flags, engine,
                 inferenceGeneration, queue, outputs, graphics, worker>>

VariantNoNotify == UNCHANGED wstage

\* inferenceQueueCondition.notify_one and notify_all: there is one waiter
Notify == wstage' = IF wstage = "asleep" THEN "wait" ELSE wstage

AfterInvalidate(o) ==
  CASE o \in {"create", "update"} -> "model"
    [] o = "activate"             -> "reset"
    [] o = "destroy"              -> "stop"
    [] OTHER                      -> "idle"

InvalidateDone(c) ==
  /\ stage[c] = "notify"
  /\ GoTo(c, AfterInvalidate(op[c]))
  /\ maskEveryXFramesCount' = 0
  /\ Notify
  /\ UNCHANGED <<phase, sourceActive, op, request, isDisabled,
                 stopWhenSourceIsInactive, nativeAlpha, engine,
                 inferenceGeneration, queue, outputs, lastImageBGRA, graphics, job>>

-----------------------------------------------------------------------------
(* The rest of update: settings before the invalidation, model after it. *)

WantsNativeAlpha(s) == s.model = "rvm" /\ ~s.legacy

\* mattingMode is stored under modelMutex, so this waits for a running inference.
StoreMattingMode(c) ==
  /\ stage[c] = "settings"
  /\ modelMutex = "free"
  /\ GoTo(c, "apply")
  /\ UNCHANGED <<phase, sourceActive, op, request, flags, engine, inferenceGeneration,
                 queue, outputs, lastImageBGRA, graphics, worker>>

\* two stores in one step: no other thread reads both
ApplySettings(c) ==
  /\ stage[c] = "apply"
  /\ GoTo(c, "alpha")
  /\ stopWhenSourceIsInactive' = request[c].stop
  /\ maskEveryXFramesCount' = 0
  /\ UNCHANGED <<phase, sourceActive, op, request, isDisabled, nativeAlpha, engine,
                 inferenceGeneration, queue, outputs, lastImageBGRA, graphics, worker>>

StoreNativeAlpha(c) ==
  /\ stage[c] = "alpha"
  /\ GoTo(c, "bump")
  /\ nativeAlpha' = WantsNativeAlpha(request[c])
  /\ UNCHANGED <<phase, sourceActive, op, request, isDisabled, stopWhenSourceIsInactive,
                 maskEveryXFramesCount, engine, inferenceGeneration, queue, outputs,
                 lastImageBGRA, graphics, worker>>

VariantKeepsRecurrentState == UNCHANGED recurrent

\* resetFilterModelState: without a model there is no recurrent state either
ResetRecurrentState == recurrent' = 0

\* what an update that need not make a session has in common with the last one; the
\* number of threads is compared too, and may have changed at any update
SameEngine(s) == modelSelection = s.model /\ useGPU = s.device

\* createOrtSession succeeds on device d: the session belongs to the model.
SessionOn(kind, d) ==
  /\ useGPU' = d
  /\ model' = kind
  /\ session' = kind
  /\ ResetRecurrentState
  /\ UNCHANGED isDisabled

\* Both the requested device and the CPU failed: model.reset().  The session is the
\* new one if only its shapes were refused; if it could not be made, a requested
\* GPU had the old one reset and a requested CPU leaves it behind.
NoSession(kind, requested) ==
  /\ useGPU' = "cpu"
  /\ model' = None
  /\ session' \in {kind, IF requested = "gpu" THEN None ELSE session}
  /\ isDisabled' = TRUE
  /\ ResetRecurrentState

\* the callback returns to its caller, background_filter_create to its next step
Return(c) == GoTo(c, IF op[c] = "create" THEN "start" ELSE "idle")

InitModel(c) ==
  /\ stage[c] = "model"
  /\ modelMutex = "free"
  /\ LET s == request[c] IN
     /\ modelSelection' = s.model
     /\ \/ /\ SameEngine(s)
           /\ ResetRecurrentState
           /\ UNCHANGED <<useGPU, model, session, isDisabled>>
           /\ GoTo(c, "enable")
        \/ /\ SessionOn(s.model, s.device)
           /\ GoTo(c, "enable")
        \/ /\ s.device = "gpu" /\ "gpu" \in SessionFaults
           /\ SessionOn(s.model, "cpu")
           /\ GoTo(c, "enable")
        \/ /\ {s.device, "cpu"} \subseteq SessionFaults
           /\ NoSession(s.model, s.device)
           /\ Return(c)
  /\ UNCHANGED <<phase, sourceActive, op, request, stopWhenSourceIsInactive,
                 nativeAlpha, maskEveryXFramesCount, modelMutex,
                 inferenceGeneration, queue, outputs, lastImageBGRA, graphics, worker>>

Enable(c) ==
  /\ stage[c] = "enable"
  /\ Return(c)
  /\ isDisabled' = FALSE
  /\ UNCHANGED <<phase, sourceActive, op, request, stopWhenSourceIsInactive,
                 nativeAlpha, maskEveryXFramesCount, engine, inferenceGeneration,
                 queue, outputs, lastImageBGRA, graphics, worker>>

\* the end of activate: resetFilterModelState under modelMutex
ResetModelState(c) ==
  /\ stage[c] = "reset"
  /\ modelMutex = "free"
  /\ GoTo(c, "idle")
  /\ ResetRecurrentState
  /\ UNCHANGED <<phase, sourceActive, op, request, flags, modelMutex,
                 modelSelection, useGPU, model, session, inferenceGeneration,
                 queue, outputs, lastImageBGRA, graphics, worker>>

-----------------------------------------------------------------------------
(* The thread's life: startInferenceWorker, stopInferenceWorker, the end. *)

StartWorker(c) ==
  /\ stage[c] = "start"
  /\ GoTo(c, "idle")
  /\ phase' = "live"
  /\ stopInferenceWorker' = FALSE
  /\ wstage' = "wait"
  /\ UNCHANGED <<sourceActive, op, request, flags, engine, inferenceGeneration,
                 pendingInferenceFrame, pendingInferenceGeneration,
                 submittedFrames, outputs, lastImageBGRA, graphics, job>>

RequestStop(c) ==
  /\ stage[c] = "stop"
  /\ GoTo(c, "stopNotify")
  /\ stopInferenceWorker' = TRUE
  /\ pendingInferenceFrame' = None
  /\ UNCHANGED <<phase, sourceActive, op, request, flags, engine,
                 inferenceGeneration, pendingInferenceGeneration,
                 submittedFrames, outputs, lastImageBGRA, graphics, worker>>

NotifyStop(c) ==
  /\ stage[c] = "stopNotify"
  /\ GoTo(c, "join")
  /\ Notify
  /\ UNCHANGED <<phase, sourceActive, op, request, flags, engine,
                 inferenceGeneration, queue, outputs, lastImageBGRA, graphics, job>>

\* join returns, the graphics resources go and the last reference is dropped
JoinAndFree(c) ==
  /\ stage[c] = "join"
  /\ wstage = "exited"
  /\ GoTo(c, "idle")
  /\ phase' = "freed"
  /\ UNCHANGED <<sourceActive, op, request, flags, engine, inferenceGeneration,
                 queue, outputs, lastImageBGRA, graphics, worker>>

-----------------------------------------------------------------------------
(* The graphics thread. *)

GraphicsMayRun == phase = "live" /\ (GraphicsOverlaps \/ Quiet)

\* background_filter_video_tick as far as the queue, both tests of isDisabled in
\* one: the frame it copies is whatever the last render captured.
TickBegin(image) ==
  /\ GraphicsMayRun
  /\ gstage = "idle"
  /\ submittedFrames < MaxFrames
  /\ ~isDisabled
  /\ maskEveryXFramesCount' =
       IF nativeAlpha THEN 0 ELSE (maskEveryXFramesCount + 1) % Every
  /\ IF maskEveryXFramesCount' = 0
     THEN gstage' = "push" /\ gimage' = image
     ELSE UNCHANGED graphics
  /\ UNCHANGED <<control, isDisabled, stopWhenSourceIsInactive, nativeAlpha,
                 engine, inferenceGeneration, queue, outputs, lastImageBGRA, worker>>

PushedFrame == [image |-> gimage, number |-> submittedFrames + 1]

VariantKeepsOldest == IF pendingInferenceFrame = None THEN PushedFrame ELSE pendingInferenceFrame

\* the newest frame replaces one the worker has not taken
QueueAfterPush == PushedFrame

\* submitInferenceFrame, past its test of isDisabled
PushFrame ==
  /\ gstage = "push"
  /\ gstage' = "notify"
  /\ gimage' = None
  /\ submittedFrames' = submittedFrames + 1
  /\ pendingInferenceFrame' = QueueAfterPush
  /\ pendingInferenceGeneration' = inferenceGeneration
  /\ UNCHANGED <<control, flags, engine, inferenceGeneration,
                 stopInferenceWorker, outputs, lastImageBGRA, worker>>

NotifyWorker ==
  /\ gstage = "notify"
  /\ gstage' = "idle"
  /\ Notify
  /\ UNCHANGED <<control, flags, engine, inferenceGeneration, queue, outputs,
                 lastImageBGRA, gimage, job>>

\* background_filter_video_render with a native alpha, inside outputLock.  The
\* local cv::Mat shares backgroundAlpha's pixels, so 1 - alpha is written back
\* into it, unless the frame size changed and cv::resize gave it pixels of its own.
RenderAlpha ==
  /\ GraphicsMayRun
  /\ gstage = "idle"
  /\ ~isDisabled
  /\ nativeAlpha /\ backgroundAlpha # None
  /\ backgroundAlpha' = [backgroundAlpha EXCEPT !.polarity = Flip(@)]
  /\ UNCHANGED <<control, flags, engine, inferenceGeneration, queue,
                 backgroundMask, lastBackgroundMask, lastImageBGRA, graphics, worker>>

-----------------------------------------------------------------------------
(* inferenceWorkerLoop. *)

NextIteration == wstage' = "wait" /\ job' = None

VariantAnyGeneration == TRUE

Current == job.generation = inferenceGeneration

VariantIgnoresDisabled == ~Current

\* the tests before any work, and again once modelMutex is held
Refused == isDisabled \/ ~Current

CannotRun == model = None \/ ~Current

WorkerExit ==
  /\ wstage = "wait"
  /\ stopInferenceWorker
  /\ wstage' = "exited"
  /\ UNCHANGED <<control, flags, engine, inferenceGeneration, queue, outputs,
                 lastImageBGRA, graphics, job>>

WorkerSleep ==
  /\ wstage = "wait"
  /\ ~stopInferenceWorker /\ pendingInferenceFrame = None
  /\ wstage' = "asleep"
  /\ UNCHANGED <<control, flags, engine, inferenceGeneration, queue, outputs,
                 lastImageBGRA, graphics, job>>

SpuriousWakeup ==
  /\ wstage = "asleep"
  /\ wstage' = "wait"
  /\ UNCHANGED <<control, flags, engine, inferenceGeneration, queue, outputs,
                 lastImageBGRA, graphics, job>>

\* what std::move leaves in the queue
LeftPending == None

TakeFrame ==
  /\ wstage = "wait"
  /\ ~stopInferenceWorker /\ pendingInferenceFrame # None
  /\ wstage' = "check"
  /\ job' = [frame |-> pendingInferenceFrame,
             generation |-> pendingInferenceGeneration,
             native |-> FALSE, output |-> None, previous |-> None]
  /\ pendingInferenceFrame' = LeftPending
  /\ UNCHANGED <<control, flags, engine, inferenceGeneration,
                 pendingInferenceGeneration, stopInferenceWorker,
                 submittedFrames, outputs, lastImageBGRA, graphics>>

CheckFrame ==
  /\ wstage = "check"
  /\ IF Refused
     THEN NextIteration
     ELSE wstage' = "route" /\ UNCHANGED job
  /\ UNCHANGED <<control, flags, engine, inferenceGeneration, queue, outputs,
                 lastImageBGRA, graphics>>

ReadNativeAlpha ==
  /\ wstage = "route"
  /\ job' = [job EXCEPT !.native = nativeAlpha]
  /\ wstage' = IF nativeAlpha THEN "enter" ELSE "similarity"
  /\ UNCHANGED <<control, flags, engine, inferenceGeneration, queue, outputs,
                 lastImageBGRA, graphics>>

\* under legacySimilarityMutex; a frame unlike the last one also stands for a
\* filter whose image similarity is switched off
CheckSimilarity ==
  /\ wstage = "similarity"
  /\ IF lastImageBGRA = job.frame.image
     THEN NextIteration /\ UNCHANGED lastImageBGRA
     ELSE /\ lastImageBGRA' = job.frame.image
          /\ wstage' = "enter"
          /\ UNCHANGED job
  /\ UNCHANGED <<control, flags, engine, inferenceGeneration, queue, outputs, graphics>>

EnterInference ==
  /\ wstage = "enter"
  /\ modelMutex = "free"
  /\ IF CannotRun
     THEN NextIteration /\ UNCHANGED modelMutex
     ELSE wstage' = "infer" /\ modelMutex' = "worker" /\ UNCHANGED job
  /\ UNCHANGED <<control, flags, modelSelection, useGPU, model, session,
                 recurrent, inferenceGeneration, queue, outputs, lastImageBGRA, graphics>>

\* The network ran; only RVM has recurrent tensors to feed the output back into.
InferenceDone ==
  /\ wstage = "infer"
  /\ session # None
  /\ modelMutex' = "free"
  /\ wstage' = "after"
  /\ job' = [job EXCEPT !.output = model]
  /\ recurrent' = IF model = "rvm" THEN job.generation ELSE recurrent
  /\ UNCHANGED <<control, flags, modelSelection, useGPU, model, session,
                 inferenceGeneration, queue, outputs, lastImageBGRA, graphics>>

\* no session, an output of the wrong shape, or a std::exception
InferenceFailed ==
  /\ wstage = "infer"
  /\ session = None \/ "std" \in InferenceFaults
  /\ modelMutex' = "free"
  /\ NextIteration
  /\ UNCHANGED <<control, flags, modelSelection, useGPU, model, session,
                 recurrent, inferenceGeneration, queue, outputs, lastImageBGRA, graphics>>

\* an Ort::Exception releases modelMutex on its way to the handler
InferenceThrew ==
  /\ wstage = "infer"
  /\ session # None /\ "ort" \in InferenceFaults
  /\ modelMutex' = "free"
  /\ wstage' = "fallback"
  /\ UNCHANGED <<control, flags, modelSelection, useGPU, model, session,
                 recurrent, inferenceGeneration, queue, outputs,
                 lastImageBGRA, graphics, job>>

\* The handler: from a GPU to the CPU, or else just to the next frame.  The shapes of
\* the model's file were accepted when the session that threw was made: only the making
\* of the new one can fail.
FallBackToCpu ==
  /\ wstage = "fallback"
  /\ modelMutex = "free"
  /\ NextIteration
  /\ IF useGPU = "cpu"
     THEN UNCHANGED <<useGPU, session, recurrent, isDisabled>>
     ELSE /\ useGPU' = "cpu"
          /\ ResetRecurrentState
          /\ \/ /\ model # None
                /\ session' = model
                /\ UNCHANGED isDisabled
             \/ /\ model = None \/ "cpu" \in SessionFaults
                /\ session' = None
                /\ isDisabled' = TRUE
  /\ UNCHANGED <<control, stopWhenSourceIsInactive, nativeAlpha,
                 maskEveryXFramesCount, modelMutex, modelSelection, model,
                 inferenceGeneration, queue, outputs, lastImageBGRA, graphics>>

CheckResult ==
  /\ wstage = "after"
  /\ IF ~Current
     THEN NextIteration
     ELSE /\ wstage' = IF job.native THEN "publishAlpha" ELSE "smooth"
          /\ UNCHANGED job
  /\ UNCHANGED <<control, flags, engine, inferenceGeneration, queue, outputs,
                 lastImageBGRA, graphics>>

NewMatte(polarity) ==
  [number |-> job.frame.number,
   generation |-> job.generation,
   from |-> {<<job.generation, job.output>>} \cup Blended(job.previous),
   polarity |-> polarity]

PublishAlpha ==
  /\ wstage = "publishAlpha"
  /\ IF Current
     THEN /\ backgroundAlpha' = NewMatte("foreground")
          /\ backgroundMask' = None
     ELSE UNCHANGED <<backgroundAlpha, backgroundMask>>
  /\ NextIteration
  /\ UNCHANGED <<control, flags, engine, inferenceGeneration, queue,
                 lastBackgroundMask, lastImageBGRA, graphics>>

\* the mask is post-processed and takes lastBackgroundMask to be smoothed with
ReadPreviousMask ==
  /\ wstage = "smooth"
  /\ IF Current
     THEN /\ job' = [job EXCEPT !.previous = lastBackgroundMask]
          /\ wstage' = "publishMask"
     ELSE NextIteration
  /\ UNCHANGED <<control, flags, engine, inferenceGeneration, queue, outputs,
                 lastImageBGRA, graphics>>

PublishMask ==
  /\ wstage = "publishMask"
  /\ IF Current
     THEN /\ backgroundMask' = NewMatte("background")
          /\ lastBackgroundMask' = NewMatte("background")
     ELSE UNCHANGED <<backgroundMask, lastBackgroundMask>>
  /\ NextIteration
  /\ UNCHANGED <<control, flags, engine, inferenceGeneration, queue,
                 backgroundAlpha, lastImageBGRA, graphics>>

-----------------------------------------------------------------------------
Begin(c) == Create(c) \/ Update(c) \/ Activate(c) \/ Deactivate(c) \/ Destroy(c)

Invalidate(c) ==
  \/ BumpGeneration(c) \/ ReleasePending(c) \/ ReleaseOutputs(c)
  \/ ReleaseLastImage(c) \/ InvalidateDone(c)

StoreSettings(c) == StoreMattingMode(c) \/ ApplySettings(c) \/ StoreNativeAlpha(c)

Continue(c) ==
  \/ Invalidate(c)
  \/ StoreSettings(c) \/ InitModel(c) \/ Enable(c) \/ ResetModelState(c)
  \/ StartWorker(c) \/ RequestStop(c) \/ NotifyStop(c) \/ JoinAndFree(c)

Submit == PushFrame \/ NotifyWorker

Work ==
  \/ WorkerExit \/ WorkerSleep \/ TakeFrame \/ CheckFrame \/ ReadNativeAlpha
  \/ CheckSimilarity \/ EnterInference \/ InferenceDone \/ InferenceFailed
  \/ InferenceThrew \/ FallBackToCpu \/ CheckResult \/ PublishAlpha
  \/ ReadPreviousMask \/ PublishMask

Freed == phase = "freed" /\ UNCHANGED vars

Next ==
  \/ \E c \in Callers : Begin(c) \/ Continue(c)
  \/ \E image \in Images : TickBegin(image)
  \/ Submit \/ RenderAlpha
  \/ Work \/ SpuriousWakeup
  \/ Freed

Spec == Init /\ [][Next]_vars

\* A callback that has begun, a submission that has begun and the worker thread
\* run on; nothing obliges OBS to begin a callback, a tick or a render.
Fairness ==
  /\ \A c \in Callers : WF_vars(Continue(c))
  /\ WF_vars(Submit)
  /\ WF_vars(Work)

FairSpec == Spec /\ Fairness

-----------------------------------------------------------------------------
(* Types: every variable stays within the values the code can give it. *)
Stages == {"idle", "settings", "apply", "alpha", "bump", "queue", "outputs", "image", "notify",
           "model", "enable", "reset", "start", "stop", "stopNotify", "join"}
Ops == {"none", "create", "update", "activate", "deactivate", "destroy"}
WorkerStages == {"none", "wait", "asleep", "check", "route", "similarity",
                 "enter", "infer", "fallback", "after", "publishAlpha",
                 "smooth", "publishMask", "exited"}

TypeControl ==
  /\ phase \in {"new", "creating", "live", "dying", "freed"}
  /\ sourceActive \in BOOLEAN
  /\ stage \in [Callers -> Stages]
  /\ op \in [Callers -> Ops]
  /\ request \in [Callers -> Setting]

TypeFlags ==
  /\ isDisabled \in BOOLEAN
  /\ stopWhenSourceIsInactive \in BOOLEAN
  /\ nativeAlpha \in BOOLEAN
  /\ maskEveryXFramesCount \in 0 .. Every - 1

TypeEngine ==
  /\ modelMutex \in {"free", "worker"}
  /\ modelSelection \in Kinds
  /\ useGPU \in Devices \cup {None}
  /\ model \in Kinds \cup {None}
  /\ session \in Kinds \cup {None}
  /\ recurrent \in Nat

TypeQueue ==
  /\ inferenceGeneration \in Nat
  /\ pendingInferenceFrame \in Frame \cup {None}
  /\ pendingInferenceGeneration \in Nat
  /\ stopInferenceWorker \in BOOLEAN
  /\ submittedFrames \in Nat

TypeOutputs ==
  /\ backgroundMask \in Matte \cup {None}
  /\ lastBackgroundMask \in Matte \cup {None}
  /\ backgroundAlpha \in Matte \cup {None}
  /\ lastImageBGRA \in Images \cup {None}

\* A thread holds what its next step uses: a frame to push, a job to work on,
\* an output to publish.
TypeThreads ==
  /\ gstage \in {"idle", "push", "notify"}
  /\ IF gstage = "push" THEN gimage \in Images ELSE gimage = None
  /\ wstage \in WorkerStages
  /\ IF wstage \in {"none", "wait", "asleep", "exited"}
     THEN job = None
     ELSE job \in Job
  /\ wstage \in {"after", "publishAlpha", "smooth", "publishMask"} => job.output \in Kinds
  /\ wstage = "infer" => model # None
  /\ modelMutex = IF wstage = "infer" THEN "worker" ELSE "free"

TypeOK ==
  /\ TypeControl /\ TypeFlags /\ TypeEngine
  /\ TypeQueue /\ TypeOutputs /\ TypeThreads

-----------------------------------------------------------------------------
(* What the pipeline promises. *)

Mattes == {backgroundMask, lastBackgroundMask, backgroundAlpha} \ {None}

\* Every matte that render or temporal smoothing can find was computed in the
\* current generation, whatever an inference that was running did since; only an
\* invalidation between its increment of the generation and its release of the
\* outputs may still leave an older one.
NoStaleMatte ==
  \/ \A m \in Mattes : m.generation = inferenceGeneration
  \/ \E c \in Callers : stage[c] \in {"queue", "outputs"}

\* Temporal smoothing blends masks of one generation only.
NoMixedMatte == \A m \in Mattes : \A f \in m.from : f[1] = m.generation

\* A filter that a callback has disabled holds no matte: no frame queued before
\* or during the callback slips one in afterwards.  (A worker that lost its
\* session disables the filter itself and leaves the last matte behind.)
DisabledHasNoMatte ==
  Quiet /\ isDisabled /\ model # None /\ session # None => Mattes = {}

\* Between callbacks, what is shown was computed by the model the user selected,
\* though the worker reads nativeAlpha, the model and the generation at
\* different moments of an update.
MatteFromSelectedModel ==
  Quiet => \A m \in Mattes : \A f \in m.from : f[2] = model

\* Between callbacks, an enabled filter carries no recurrent RVM state over from
\* an earlier generation, although deactivate does not reset it.
RecurrentStateIsCurrent ==
  Quiet /\ ~isDisabled => recurrent \in {0, inferenceGeneration}

\* A matte about to be published is of a later frame than the one it replaces:
\* no frame is handed out twice and none overtakes another.
Overtakes(matte) == Current /\ matte # None => job.frame.number > matte.number
MattesAdvance ==
  /\ wstage = "publishMask" => Overtakes(backgroundMask) /\ Overtakes(lastBackgroundMask)
  /\ wstage = "publishAlpha" => Overtakes(backgroundAlpha)

\* A worker sleeps through nothing: while a frame or a stop waits for it, whoever left
\* them has yet to notify (inferenceQueueCondition is notified outside the mutex,
\* background-filter.cpp:1140 and 1157), whatever other callbacks and ticks do meanwhile.
NoLostWakeup ==
  wstage = "asleep" =>
    /\ pendingInferenceFrame # None => gstage = "notify"
    /\ stopInferenceWorker => \E c \in Callers : stage[c] = "stopNotify"

\* the worker's longest way to its end, in steps, once it takes no more frames
StepsToExit ==
  [exited |-> 0, wait |-> 1, asleep |-> 2, fallback |-> 2, publishMask |-> 2,
   publishAlpha |-> 2, smooth |-> 3, after |-> 4, infer |-> 5, enter |-> 6,
   similarity |-> 7, route |-> 8, check |-> 9]

\* A stop is heeded at once: whatever the worker is at, every step of it from then on
\* brings it nearer to its end, so destroy waits for nine steps at most and for one
\* inference at most, failed or not.
WorkerHeedsStop ==
  [][stopInferenceWorker =>
       UNCHANGED worker \/ StepsToExit[wstage'] < StepsToExit[wstage]]_vars

\* Every callback returns: update and activate get past a running inference, and
\* destroy's join ends because the worker cannot miss the stop.
CallbacksReturn == \A c \in Callers : stage[c] # "idle" ~> stage[c] = "idle"

\* A queued frame does not wait for a worker that sleeps: it is taken or
\* withdrawn.
PendingFrameLeaves == pendingInferenceFrame # None ~> pendingInferenceFrame = None
=============================================================================
