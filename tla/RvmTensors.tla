----------------------------- MODULE RvmTensors -----------------------------
(***************************************************************************)
(* The tensors of Robust Video Matting (src/src/models/ModelRVM.hpp) and   *)
(* runRvmInference (src/src/ort-utils/ort-session-utils.cpp), which feeds  *)
(* the four recurrent outputs of a frame back as inputs of the next.       *)
(*                                                                         *)
(* The shape of each recurrent tensor follows from the resolution of the   *)
(* frame and from the downsample ratio.  A camera may change its           *)
(* resolution at any frame; callbacks of several threads change the mode,  *)
(* the model and the device in steps between which the worker may infer.   *)
(*                                                                         *)
(* There are two members rvmDownsampleRatio: that of                       *)
(* bgobs_background_filter, which the filter writes, hides that of         *)
(* filter_data, which runRvmInference reads and nothing writes.            *)
(*                                                                         *)
(* InferencePipeline says which frames are taken and shown; here a frame is *)
(* its size.  A buffer is its length and what was written into it.         *)
(***************************************************************************)
EXTENDS Integers

CONSTANTS
  Callers,   \* threads that may be inside a callback
  Editors,   \* those of them that apply settings
  Sizes,     \* resolutions of the camera's frames, <<width, height>>
  Settings,  \* the settings a user may apply
  None       \* no model, no session, no frame, zeros in a buffer

Modes   == {"auto", "quality", "performance", "legacy"}
Kinds   == {"rvm", "other"}
Devices == {"gpu", "cpu"}
Setting == [mode : Modes, model : Kinds, device : Devices]

\* Only the legacy mode has a choice of models.
Effective(s) ==
  CASE s.mode \in {"auto", "quality"} -> s.model = "rvm"
    [] s.mode = "performance"         -> s.model = "other"
    [] OTHER                          -> TRUE

States == 1 .. 4                        \* r1 to r4
Shape  == (Nat \ {0}) \X (Nat \ {0}) \X (Nat \ {0})   \* channels, height, width
Ratio  == (Nat \ {0}) \X (Nat \ {0})    \* numerator and denominator
Write  == [size : Sizes, shape : Shape]
Buffer == [length : Nat \ {0}, written : Write \cup {None}]
Job    == [size : Sizes, native : BOOLEAN, current : BOOLEAN]

ASSUME EditorsAssumption  == Editors \subseteq Callers
ASSUME SizesAssumption    == Sizes \subseteq (Nat \ {0}) \X (Nat \ {0})
ASSUME SettingsAssumption == Settings \subseteq {s \in Setting : Effective(s)}
ASSUME NoneAssumption     == None \notin Kinds \cup Sizes \cup Write \cup Job \cup Setting

VARIABLES
  stage,                    \* the step of the callback each caller runs
  request,                  \* the settings an update applies, None outside of one
  sourceActive, isDisabled,
  mattingMode, nativeAlpha,
  modelSelection, useGPU, model, session,
  modelMutex,               \* whether the worker holds it across steps
  rvmDownsampleRatio,       \* that of bgobs_background_filter
  downsampleRatio,          \* the model's, as given to the network
  recurrentStateInitialized,
  configured,               \* configuredWidth and configuredHeight, None for 0
  inputDims, outputDims,    \* of the recurrent tensors
  inputTensorValues,
  inputTensor,              \* the length of each view, None once its vector has moved
  wstage, job               \* the worker and the locals of its loop

callbacks == <<stage, request, sourceActive>>
flags     == <<isDisabled, mattingMode, nativeAlpha>>
engine    == <<modelSelection, useGPU, model, session>>
rvm       == <<recurrentStateInitialized, configured, downsampleRatio>>
tensors   == <<inputDims, outputDims, inputTensorValues, inputTensor>>
worker    == <<wstage, job, modelMutex>>
vars      == <<callbacks, flags, engine, rvmDownsampleRatio, rvm, tensors, worker>>

-----------------------------------------------------------------------------
(* Shapes. *)

AtLeastOne(n) == IF n < 1 THEN 1 ELSE n
Largest(size) == IF size[1] > size[2] THEN size[1] ELSE size[2]

\* floor(value * ratio) and ceil(value / divisor), both at least 1
DownsampleDimension(value, ratio) == AtLeastOne((value * ratio[1]) \div ratio[2])
FeatureDimension(value, divisor)  == AtLeastOne((value + divisor - 1) \div divisor)

\* Every ratio lies in 0.05 .. 1, so that clamping it again changes nothing.
ChooseRvmDownsampleRatio(mode, size) ==
  LET side == Largest(size) IN
  CASE mode = "quality" /\ side <= 1280                 -> <<3, 8>>
    [] mode = "quality" /\ side \in 1281 .. 1920        -> <<1, 4>>
    [] mode = "quality" /\ side > 1920                  -> <<1, 8>>
    [] mode = "performance"                             -> <<1, 10>>
    [] mode \in {"auto", "legacy"} /\ side <= 1280      -> <<1, 4>>
    [] mode \in {"auto", "legacy"} /\ side \in 1281 .. 3199 -> <<320, side>>
    [] mode \in {"auto", "legacy"} /\ side >= 3200      -> <<1, 10>>

\* filter_data::rvmDownsampleRatio
HiddenRatio == <<1, 4>>

Channels == <<16, 20, 40, 64>>
Divisors == <<2, 4, 8, 16>>

Unit == [i \in States |-> <<1, 1, 1>>]

\* What the network computes for a frame of a size at a ratio.
Features(size, ratio) ==
  [i \in States |->
     <<Channels[i],
       FeatureDimension(DownsampleDimension(size[2], ratio), Divisors[i]),
       FeatureDimension(DownsampleDimension(size[1], ratio), Divisors[i])>>]

VectorProduct(shape) == shape[1] * shape[2] * shape[3]

Zeros(length) == [length |-> length, written |-> None]

\* One view of each buffer
Views(values) == [i \in States |-> values[i].length]

-----------------------------------------------------------------------------
(* A live filter, just created. *)

Init ==
  /\ stage = [c \in Callers |-> "idle"]
  /\ request = [c \in Callers |-> None]
  /\ sourceActive = TRUE
  /\ isDisabled = FALSE
  /\ \E s \in Settings :
       /\ mattingMode = s.mode
       /\ nativeAlpha = (s.model = "rvm" /\ s.mode # "legacy")
       /\ modelSelection = s.model
       /\ useGPU = s.device
       /\ model = s.model
       /\ session = s.model
  /\ modelMutex = "free"
  /\ rvmDownsampleRatio = <<1, 4>>
  /\ downsampleRatio = <<1, 1>>
  /\ recurrentStateInitialized = FALSE
  /\ configured = None
  /\ inputDims = Unit
  /\ outputDims = Unit
  /\ inputTensorValues = [i \in States |-> Zeros(1)]
  /\ inputTensor = [i \in States |-> 1]
  /\ wstage = "idle"
  /\ job = None

-----------------------------------------------------------------------------
(* Callbacks. *)

GoTo(c, s) == stage' = [stage EXCEPT ![c] = s]

EnterUpdate(c) ==
  /\ stage[c] = "idle"
  /\ GoTo(c, "mode")
  /\ \E s \in Settings : request' = [request EXCEPT ![c] = s]
  /\ isDisabled' = TRUE
  /\ UNCHANGED <<sourceActive, mattingMode, nativeAlpha, engine, rvmDownsampleRatio,
                 rvm, tensors, worker>>

StoreMode(c) ==
  /\ stage[c] = "mode"
  /\ modelMutex = "free"
  /\ GoTo(c, "native")
  /\ mattingMode' = request[c].mode
  /\ UNCHANGED <<request, sourceActive, isDisabled, nativeAlpha, engine,
                 rvmDownsampleRatio, rvm, tensors, worker>>

StoreNativeAlpha(c) ==
  /\ stage[c] = "native"
  /\ GoTo(c, "ratio")
  /\ nativeAlpha' = (request[c].model = "rvm" /\ request[c].mode # "legacy")
  /\ UNCHANGED <<request, sourceActive, isDisabled, mattingMode, engine,
                 rvmDownsampleRatio, rvm, tensors, worker>>

StoreRatio(c) ==
  /\ stage[c] = "ratio"
  /\ GoTo(c, "bump")
  /\ rvmDownsampleRatio' = <<1, 4>>
  /\ UNCHANGED <<request, sourceActive, flags, engine, rvm, tensors, worker>>

\* invalidateInference: the frame the worker holds belongs to the past
Outdate == job' = IF job = None THEN None ELSE [job EXCEPT !.current = FALSE]

InvalidateInference(c) ==
  /\ stage[c] \in {"bump", "activating", "deactivating"}
  /\ GoTo(c, CASE stage[c] = "bump"       -> "model"
               [] stage[c] = "activating" -> "reset"
               [] OTHER                   -> "idle")
  /\ Outdate
  /\ UNCHANGED <<request, sourceActive, flags, engine, rvmDownsampleRatio, rvm,
                 tensors, wstage, modelMutex>>

ResetRecurrentState ==
  /\ recurrentStateInitialized' = FALSE
  /\ configured' = None

\* createOrtSession succeeds: dimensions of 1 and buffers of zeros
SessionOn(kind, device) ==
  /\ model' = kind
  /\ session' = kind
  /\ useGPU' = device
  /\ inputDims' = Unit /\ outputDims' = Unit
  /\ inputTensorValues' = [i \in States |-> Zeros(1)]
  /\ inputTensor' = [i \in States |-> 1]

\* It fails on the CPU too.  A requested GPU had the old session reset.
NoSession(requested) ==
  /\ model' = None
  /\ session' = IF requested = "gpu" THEN None ELSE session
  /\ useGPU' = "cpu"
  /\ UNCHANGED <<rvm, tensors>>

\* The number of threads is compared too, and may have changed at any update.
SameEngine(s) == modelSelection = s.model /\ useGPU = s.device

\* The model, if another one is asked for, and resetFilterModelState
InitModel(c) ==
  /\ stage[c] = "model"
  /\ modelMutex = "free"
  /\ LET s == request[c] IN
     /\ modelSelection' = s.model
     /\ \/ /\ SameEngine(s)
           /\ ResetRecurrentState
           /\ UNCHANGED <<useGPU, model, session, tensors, downsampleRatio>>
           /\ GoTo(c, "enable")
        \/ /\ \E device \in {s.device, "cpu"} : SessionOn(s.model, device)
           /\ ResetRecurrentState
           /\ downsampleRatio' = <<1, 1>>
           /\ GoTo(c, "enable")
        \/ /\ NoSession(s.device)
           /\ GoTo(c, "disable")
  /\ UNCHANGED <<request, sourceActive, flags, rvmDownsampleRatio, worker>>

\* the end of update: isDisabled is stored once more
Finish(c) ==
  /\ stage[c] \in {"enable", "disable"}
  /\ GoTo(c, "idle")
  /\ request' = [request EXCEPT ![c] = None]
  /\ isDisabled' = (stage[c] = "disable")
  /\ UNCHANGED <<sourceActive, mattingMode, nativeAlpha, engine,
                 rvmDownsampleRatio, rvm, tensors, worker>>

Activate(c) ==
  /\ stage[c] = "idle" /\ ~sourceActive
  /\ GoTo(c, "activating")
  /\ sourceActive' = TRUE
  /\ isDisabled' = FALSE
  /\ UNCHANGED <<request, mattingMode, nativeAlpha, engine, rvmDownsampleRatio, rvm,
                 tensors, worker>>

Deactivate(c) ==
  /\ stage[c] = "idle" /\ sourceActive
  /\ GoTo(c, "deactivating")
  /\ sourceActive' = FALSE
  /\ isDisabled' = TRUE
  /\ UNCHANGED <<request, mattingMode, nativeAlpha, engine, rvmDownsampleRatio, rvm,
                 tensors, worker>>

\* activate resets the recurrent state last
ResetModelState(c) ==
  /\ stage[c] = "reset"
  /\ modelMutex = "free"
  /\ GoTo(c, "idle")
  /\ ResetRecurrentState
  /\ UNCHANGED <<request, sourceActive, flags, engine, rvmDownsampleRatio,
                 downsampleRatio, tensors, worker>>

-----------------------------------------------------------------------------
(* The worker. *)

TakeFrame ==
  /\ wstage = "idle"
  /\ ~isDisabled
  /\ \E size \in Sizes : job' = [size |-> size, native |-> FALSE, current |-> TRUE]
  /\ wstage' = "taken"
  /\ UNCHANGED <<callbacks, flags, engine, rvmDownsampleRatio, rvm, tensors, modelMutex>>

ReadNativeAlpha ==
  /\ wstage = "taken"
  /\ wstage' = "lock"
  /\ job' = [job EXCEPT !.native = nativeAlpha]
  /\ UNCHANGED <<callbacks, flags, engine, rvmDownsampleRatio, rvm, tensors, modelMutex>>

Drop == wstage' = "idle" /\ job' = None

SkipFrame ==
  /\ wstage = "lock"
  /\ model = None \/ ~job.current
  /\ Drop
  /\ UNCHANGED <<callbacks, flags, engine, rvmDownsampleRatio, rvm, tensors, modelMutex>>

\* what the filter's ratio is once the worker has chosen one
ChosenRatio ==
  IF job.native THEN ChooseRvmDownsampleRatio(mattingMode, job.size)
  ELSE rvmDownsampleRatio

VariantComparesArea(size) ==
  configured = None \/ configured[1] * configured[2] # size[1] * size[2]

SourceChanged(size) == configured # size

\* A vector of another length is assigned zeros.
Fitted(buffer, shape) ==
  IF buffer.length = VectorProduct(shape) THEN buffer ELSE Zeros(VectorProduct(shape))

\* configureForFrame, prepareTensorBuffers and loadInputToTensor, under modelMutex
Configure ==
  /\ wstage = "lock"
  /\ model = "rvm" /\ session # None /\ job.current
  /\ wstage' = "run"
  /\ modelMutex' = "worker"
  /\ rvmDownsampleRatio' = ChosenRatio
  /\ downsampleRatio' = HiddenRatio
  /\ LET kept == recurrentStateInitialized /\ ~SourceChanged(job.size) IN
     /\ recurrentStateInitialized' = kept
     /\ inputDims' = IF kept THEN outputDims ELSE Unit
  /\ configured' = job.size
  /\ outputDims' = Features(job.size, HiddenRatio)
  /\ inputTensorValues' = [i \in States |-> Fitted(inputTensorValues[i], inputDims'[i])]
  /\ inputTensor' = Views(inputTensorValues')
  /\ UNCHANGED <<callbacks, flags, engine, job>>

\* Without a session, or with another model, no recurrent tensor takes part.
RunOther ==
  /\ wstage = "lock"
  /\ job.current
  /\ model = "other" \/ (model = "rvm" /\ session = None)
  /\ rvmDownsampleRatio' = ChosenRatio
  /\ Drop
  /\ UNCHANGED <<callbacks, flags, engine, rvm, tensors, modelMutex>>

Release == modelMutex' = "free"

\* The network accepts a recurrent tensor of one element or of the shape it computes.
Fits == \A i \in States : inputDims[i] \in {<<1, 1, 1>>, outputDims[i]}

\* The result is taken: assignOutputToInput moves each vector whose length changes.
Accept ==
  /\ wstage = "run"
  /\ Fits
  /\ inputTensorValues' =
       [i \in States |-> [length  |-> VectorProduct(outputDims[i]),
                          written |-> [size |-> job.size, shape |-> outputDims[i]]]]
  /\ inputTensor' = [i \in States |->
       IF inputTensorValues[i].length = VectorProduct(outputDims[i])
       THEN inputTensor[i] ELSE None]
  /\ inputDims' = outputDims
  /\ recurrentStateInitialized' = TRUE
  /\ Drop /\ Release
  /\ UNCHANGED <<callbacks, flags, engine, rvmDownsampleRatio, configured,
                 downsampleRatio, outputDims>>

\* The alpha has not the frame's shape, or a std::exception: nothing is taken.
Refuse ==
  /\ wstage = "run"
  /\ Drop /\ Release
  /\ UNCHANGED <<callbacks, flags, engine, rvmDownsampleRatio, rvm, tensors>>

\* session->Run throws; the mutex is released before the handler takes it again.
Throw ==
  /\ wstage = "run"
  /\ wstage' = "caught"
  /\ job' = None
  /\ Release
  /\ UNCHANGED <<callbacks, flags, engine, rvmDownsampleRatio, rvm, tensors>>

FallBack ==
  /\ wstage = "caught" /\ modelMutex = "free"
  /\ wstage' = "idle"
  /\ \/ /\ useGPU = "cpu"
        /\ UNCHANGED <<isDisabled, engine, rvm, tensors>>
     \/ /\ useGPU = "gpu" /\ model # None
        /\ SessionOn(modelSelection, "cpu")
        /\ ResetRecurrentState
        /\ UNCHANGED <<isDisabled, modelSelection, downsampleRatio>>
     \/ /\ useGPU = "gpu"
        /\ useGPU' = "cpu"
        /\ session' = None
        /\ inputTensor' = [i \in States |-> None]
        /\ ResetRecurrentState
        /\ isDisabled' = TRUE
        /\ UNCHANGED <<downsampleRatio, modelSelection, model, inputDims, outputDims, inputTensorValues>>
  /\ UNCHANGED <<callbacks, mattingMode, nativeAlpha, rvmDownsampleRatio, job, modelMutex>>

-----------------------------------------------------------------------------

UpdateStep(c) ==
  \/ EnterUpdate(c) \/ StoreMode(c) \/ StoreNativeAlpha(c) \/ StoreRatio(c)
  \/ InitModel(c) \/ Finish(c)

ActivityStep(c) == Activate(c) \/ Deactivate(c) \/ ResetModelState(c)

WorkerStep ==
  \/ TakeFrame \/ ReadNativeAlpha \/ SkipFrame \/ Configure \/ RunOther
  \/ Accept \/ Refuse \/ Throw \/ FallBack

Next ==
  \/ \E c \in Editors : UpdateStep(c)
  \/ \E c \in Callers : InvalidateInference(c) \/ ActivityStep(c)
  \/ WorkerStep

Spec == Init /\ [][Next]_vars

-----------------------------------------------------------------------------
(* Properties. *)

TypeOK ==
  /\ stage \in [Callers -> {"idle", "mode", "native", "ratio", "bump", "model", "enable",
                           "disable", "activating", "deactivating", "reset"}]
  /\ request \in [Callers -> Setting \cup {None}]
  /\ mattingMode \in Modes /\ nativeAlpha \in BOOLEAN
  /\ inputDims \in [States -> Shape] /\ outputDims \in [States -> Shape]
  /\ inputTensorValues \in [States -> Buffer]
  /\ inputTensor \in [States -> Nat \cup {None}]
  /\ configured \in Sizes \cup {None}
  /\ recurrentStateInitialized \in BOOLEAN
  /\ rvmDownsampleRatio \in Ratio /\ downsampleRatio \in Ratio
  /\ wstage \in {"idle", "taken", "lock", "run", "caught"}
  /\ modelMutex \in {"free", "worker"}
  /\ job \in Job \cup {None}

\* A callback that stores settings has some, a worker that holds a frame has one, and
\* it holds the mutex exactly while the network runs.
StagesHaveWhatTheyNeed ==
  /\ \A c \in Callers : stage[c] = "mode" => request[c] # None
  /\ wstage \in {"taken", "lock", "run"} => job # None
  /\ modelMutex = "worker" <=> wstage = "run"

\* A buffer that a frame wrote is longer than the one element of a fresh state, so
\* that no fresh state begins with it.
WrittenIsNotFresh ==
  \A i \in States : inputTensorValues[i].written # None => inputTensorValues[i].length > 1

\* An initialised state is what the last frame wrote, of the configured resolution.
StateIsOfLastFrame ==
  recurrentStateInitialized =>
    /\ configured # None
    /\ outputDims = Features(configured, HiddenRatio)
    /\ \A i \in States :
         /\ inputTensorValues[i].length = VectorProduct(outputDims[i])
         /\ inputTensorValues[i].written = [size |-> configured, shape |-> outputDims[i]]

\* The tensors given to session->Run are views of the present buffers, each as long
\* as its dimensions say.
ViewsFitBuffers ==
  \A i \in States : /\ inputTensor[i] = inputTensorValues[i].length
                    /\ inputTensor[i] = VectorProduct(inputDims[i])

\* "recurrent state reset when the source resolution changes" (CHANGELOG.md:39): each
\* recurrent input is zeros, or what a frame of this resolution wrote in this shape.
\* A buffer is kept when its length fits, and a turned picture has the same length.
StateKeepsShape ==
  \A i \in States : LET written == inputTensorValues[i].written IN
    written # None => written = [size |-> job.size, shape |-> inputDims[i]]

\* "subsequent frames use the output state tensors at their native shapes"
\* (ort-session-utils.cpp:75): all recurrent inputs have the shapes that the network
\* computes for this frame, unless all have one element, which any frame takes.
InputsFitNetwork ==
  /\ configured = job.size /\ outputDims = Features(job.size, HiddenRatio)
  /\ inputDims = Unit \/ inputDims = outputDims

\* What holds whenever the network runs.
NetworkInputs ==
  wstage = "run" => ViewsFitBuffers /\ StateKeepsShape /\ InputsFitNetwork

\* The inductive invariant
RvmInvariant ==
  /\ TypeOK /\ StagesHaveWhatTheyNeed
  /\ WrittenIsNotFresh /\ StateIsOfLastFrame /\ NetworkInputs

-----------------------------------------------------------------------------
(* What the documentation says; the code does otherwise. *)

\* "Qualite maximale suit les ratios RVM recommandes" (docs/BACKGROUND-MATTING.md:16):
\* the network is given the ratio that the matting mode asks for.
RatioFollowsMode ==
  wstage = "run" /\ job.native =>
    downsampleRatio = ChooseRvmDownsampleRatio(mattingMode, job.size)
=============================================================================
