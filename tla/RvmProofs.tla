------------------------------ MODULE RvmProofs ------------------------------
(***************************************************************************)
(* Whenever the matting network runs, its recurrent inputs are the present *)
(* buffers, in the shape and of the resolution they were written in: for   *)
(* every set of resolutions, callers and settings.                         *)
(***************************************************************************)
EXTENDS RvmTensors, TLAPS

-----------------------------------------------------------------------------
(* Shapes. *)

LEMMA ProductIsPositive ==
  ASSUME NEW m \in Nat \ {0}, NEW n \in Nat \ {0}
  PROVE  m * n \in Nat \ {0} /\ m * n >= m
BY SMT

\* A buffer has at least as many elements as its shape has channels.
LEMMA VolumeOfShape ==
  ASSUME NEW shape \in Shape
  PROVE  VectorProduct(shape) \in Nat \ {0} /\ VectorProduct(shape) >= shape[1]
<1>1. shape[1] \in Nat \ {0} /\ shape[2] \in Nat \ {0} /\ shape[3] \in Nat \ {0}
  BY DEF Shape
<1>2. shape[1] * shape[2] \in Nat \ {0} /\ shape[1] * shape[2] >= shape[1]
  BY <1>1, ProductIsPositive
<1>3. /\ shape[1] * shape[2] * shape[3] \in Nat \ {0}
      /\ shape[1] * shape[2] * shape[3] >= shape[1] * shape[2]
  BY <1>1, <1>2, ProductIsPositive
<1> QED
  BY <1>1, <1>2, <1>3 DEF VectorProduct

LEMMA FeatureIsPositive ==
  ASSUME NEW value \in Nat \ {0}, NEW divisor \in Nat \ {0}
  PROVE  FeatureDimension(DownsampleDimension(value, HiddenRatio), divisor) \in Nat \ {0}
<1>1. DownsampleDimension(value, HiddenRatio) \in Nat \ {0}
  BY DEF DownsampleDimension, HiddenRatio, AtLeastOne
<1>2. ASSUME NEW n \in Nat \ {0} PROVE FeatureDimension(n, divisor) \in Nat \ {0}
  BY DEF FeatureDimension, AtLeastOne
<1> QED
  BY <1>1, <1>2

\* The shapes of a frame are shapes, of no less than 16 channels.
LEMMA FeaturesOfFrame ==
  ASSUME NEW size \in Sizes
  PROVE  /\ Features(size, HiddenRatio) \in [States -> Shape]
         /\ \A i \in States : Features(size, HiddenRatio)[i][1] >= 16
<1>1. size[1] \in Nat \ {0} /\ size[2] \in Nat \ {0}
  BY SizesAssumption
<1>2. \A i \in States : /\ Channels[i] \in Nat \ {0} /\ Channels[i] >= 16
                        /\ Divisors[i] \in Nat \ {0}
  BY DEF States, Channels, Divisors
<1>3. \A i \in States :
        /\ FeatureDimension(DownsampleDimension(size[2], HiddenRatio), Divisors[i]) \in Nat \ {0}
        /\ FeatureDimension(DownsampleDimension(size[1], HiddenRatio), Divisors[i]) \in Nat \ {0}
  BY <1>1, <1>2, FeatureIsPositive
<1> QED
  BY <1>2, <1>3 DEF Features, Shape

LEMMA UnitIsShape == Unit \in [States -> Shape] /\ \A i \in States : VectorProduct(Unit[i]) = 1
BY DEF Unit, Shape, VectorProduct

LEMMA FreshBuffers ==
  /\ [i \in States |-> Zeros(1)] \in [States -> Buffer]
  /\ [i \in States |-> 1] \in [States -> Nat \cup {None}]
BY DEF Zeros, Buffer

\* Every mode has a ratio, whatever the resolution.
LEMMA RatioOfMode ==
  ASSUME NEW mode \in Modes, NEW size \in Sizes
  PROVE  ChooseRvmDownsampleRatio(mode, size) \in Ratio
<1>1. Largest(size) \in Nat \ {0}
  BY SizesAssumption DEF Largest
<1>2. PICK side \in Nat \ {0} : side = Largest(size)
  BY <1>1
<1>3. CASE mode = "quality"
  <2>1. side <= 1280 \/ side \in 1281 .. 1920 \/ side > 1920
    OBVIOUS
  <2> QED
    BY <1>2, <1>3, <2>1, SMTT(30) DEF ChooseRvmDownsampleRatio, Ratio
<1>4. CASE mode = "performance"
  BY <1>2, <1>4, SMTT(30) DEF ChooseRvmDownsampleRatio, Ratio
<1>5. CASE mode \in {"auto", "legacy"}
  <2>1. <<320, side>> \in Ratio /\ <<1, 4>> \in Ratio /\ <<1, 10>> \in Ratio
    BY DEF Ratio
  <2>2. CASE side <= 1280
    BY <1>2, <1>5, <2>1, <2>2, SMTT(30) DEF ChooseRvmDownsampleRatio
  <2>3. CASE side \in 1281 .. 3199
    BY <1>2, <1>5, <2>1, <2>3, SMTT(30) DEF ChooseRvmDownsampleRatio
  <2>4. CASE side >= 3200
    BY <1>2, <1>5, <2>1, <2>4, SMTT(30) DEF ChooseRvmDownsampleRatio
  <2> QED
    BY <2>2, <2>3, <2>4
<1> QED
  BY <1>3, <1>4, <1>5 DEF Modes

-----------------------------------------------------------------------------
(* The types.  Callbacks store settings; only InitModel, Configure, Accept   *)
(* and FallBack touch tensors.                                               *)

LEMMA InitEstablishes == Init => RvmInvariant
<1> SUFFICES ASSUME Init PROVE RvmInvariant
  OBVIOUS
<1>1. /\ stage = [c \in Callers |-> "idle"] /\ request = [c \in Callers |-> None]
      /\ mattingMode \in Modes /\ nativeAlpha \in BOOLEAN
  BY SettingsAssumption DEF Init, Setting
<1>2. /\ inputDims \in [States -> Shape] /\ outputDims \in [States -> Shape]
      /\ inputTensorValues \in [States -> Buffer]
      /\ inputTensor \in [States -> Nat \cup {None}]
  BY UnitIsShape, FreshBuffers DEF Init
<1>3. rvmDownsampleRatio \in Ratio /\ downsampleRatio \in Ratio
  BY DEF Init, Ratio
<1>4. TypeOK
  BY <1>1, <1>2, <1>3 DEF Init, TypeOK
<1>5. StagesHaveWhatTheyNeed /\ WrittenIsNotFresh /\ StateIsOfLastFrame /\ NetworkInputs
  BY DEF Init, StagesHaveWhatTheyNeed, WrittenIsNotFresh, StateIsOfLastFrame, NetworkInputs, Zeros
<1> QED
  BY <1>4, <1>5 DEF RvmInvariant

\* what only callbacks write
CallbackTypes ==
  /\ stage \in [Callers -> {"idle", "mode", "native", "ratio", "bump", "model", "enable",
                           "disable", "activating", "deactivating", "reset"}]
  /\ request \in [Callers -> Setting \cup {None}]
  /\ mattingMode \in Modes /\ nativeAlpha \in BOOLEAN
  /\ \A c \in Callers : stage[c] = "mode" => request[c] # None

LEMMA CallbackTypesStep ==
  ASSUME TypeOK, StagesHaveWhatTheyNeed, [Next]_vars
  PROVE  CallbackTypes'
<1> USE NoneAssumption DEF CallbackTypes, TypeOK, StagesHaveWhatTheyNeed
<1>1. ASSUME NEW c \in Editors, UpdateStep(c) PROVE CallbackTypes'
  <2> USE EditorsAssumption
  <2>1. CASE EnterUpdate(c)
    BY <2>1, SettingsAssumption DEF EnterUpdate, GoTo
  <2>2. CASE StoreMode(c)
    <3>1. request[c] \in Setting
      BY <2>2 DEF StoreMode, StagesHaveWhatTheyNeed
    <3> QED
      BY <2>2, <3>1 DEF StoreMode, GoTo, Setting
  <2>3. CASE StoreNativeAlpha(c) \/ StoreRatio(c)
    BY <2>3 DEF StoreNativeAlpha, StoreRatio, GoTo, flags
  <2>4. CASE InitModel(c)
    BY <2>4 DEF InitModel, GoTo, flags
  <2>5. CASE Finish(c)
    BY <2>5 DEF Finish, GoTo
  <2> QED
    BY <1>1, <2>1, <2>2, <2>3, <2>4, <2>5 DEF UpdateStep
<1>2. ASSUME NEW c \in Callers, InvalidateInference(c) \/ ActivityStep(c) PROVE CallbackTypes'
  BY <1>2 DEF InvalidateInference, ActivityStep, Activate, Deactivate, ResetModelState, GoTo, flags
<1>3. ASSUME WorkerStep \/ UNCHANGED vars PROVE UNCHANGED <<stage, request, mattingMode, nativeAlpha>>
  BY <1>3 DEF WorkerStep, TakeFrame, ReadNativeAlpha, SkipFrame, Configure, RunOther, Accept,
     Refuse, Throw, FallBack, callbacks, flags, vars
<1> QED
  BY <1>1, <1>2, <1>3 DEF Next

\* the worker's place and its locals
WorkerTypes ==
  /\ wstage \in {"idle", "taken", "lock", "run", "caught"}
  /\ modelMutex \in {"free", "worker"}
  /\ job \in Job \cup {None}
  /\ wstage \in {"taken", "lock", "run"} => job # None
  /\ modelMutex = "worker" <=> wstage = "run"

LEMMA WorkerTypesStep ==
  ASSUME TypeOK, StagesHaveWhatTheyNeed, [Next]_vars
  PROVE  WorkerTypes'
<1>1. WorkerTypes /\ nativeAlpha \in BOOLEAN
  BY DEF WorkerTypes, TypeOK, StagesHaveWhatTheyNeed
<1> USE NoneAssumption, <1>1 DEF WorkerTypes, Job
<1>2. ASSUME NEW c \in Callers, UpdateStep(c) \/ ActivityStep(c) PROVE WorkerTypes'
  BY <1>2 DEF UpdateStep, EnterUpdate, StoreMode, StoreNativeAlpha, StoreRatio, InitModel, Finish,
     ActivityStep, Activate, Deactivate, ResetModelState, worker
<1>3. ASSUME NEW c \in Callers, InvalidateInference(c) PROVE WorkerTypes'
  BY <1>3 DEF InvalidateInference, Outdate
<1>4. ASSUME TakeFrame \/ ReadNativeAlpha PROVE WorkerTypes'
  <2>1. CASE TakeFrame
    <3>1. job' \in Job
      BY <2>1 DEF TakeFrame
    <3> QED
      BY <2>1, <3>1 DEF TakeFrame
  <2>2. CASE ReadNativeAlpha
    <3>1. job \in Job /\ job' = [job EXCEPT !.native = nativeAlpha]
      BY <2>2 DEF ReadNativeAlpha
    <3>2. job' \in Job
      BY <1>1, <3>1
    <3> QED
      BY <2>2, <3>2 DEF ReadNativeAlpha
  <2> QED
    BY <1>4, <2>1, <2>2
<1>5. ASSUME SkipFrame \/ Configure \/ RunOther PROVE WorkerTypes'
  BY <1>5 DEF SkipFrame, Configure, RunOther, Drop
<1>6. ASSUME Accept \/ Refuse \/ Throw \/ FallBack PROVE WorkerTypes'
  BY <1>6 DEF Accept, Refuse, Throw, FallBack, Drop, Release
<1>7. ASSUME UNCHANGED vars PROVE WorkerTypes'
  BY <1>7 DEF vars, worker
<1> QED
  BY <1>2, <1>3, <1>4, <1>5, <1>6, <1>7, EditorsAssumption DEF Next, WorkerStep

\* the tensors and what the worker remembers of the last frame
TensorTypes ==
  /\ inputDims \in [States -> Shape] /\ outputDims \in [States -> Shape]
  /\ inputTensorValues \in [States -> Buffer]
  /\ inputTensor \in [States -> Nat \cup {None}]
  /\ configured \in Sizes \cup {None}
  /\ recurrentStateInitialized \in BOOLEAN
  /\ rvmDownsampleRatio \in Ratio /\ downsampleRatio \in Ratio

\* All that steps other than Configure, Accept and those that create or end a session
\* may do to the recurrent state is to reset it.
Leaves ==
  /\ UNCHANGED <<inputDims, outputDims, inputTensorValues, inputTensor>>
  /\ \/ UNCHANGED <<recurrentStateInitialized, configured>>
     \/ ResetRecurrentState /\ modelMutex = "free"
  /\ downsampleRatio' \in {downsampleRatio, <<1, 1>>}
  /\ \/ rvmDownsampleRatio' \in {rvmDownsampleRatio, <<1, 4>>}
     \/ rvmDownsampleRatio' = ChosenRatio /\ wstage = "lock"

\* A session begins with fresh tensors; it ends with tensors that nothing views.
Renews ==
  /\ ResetRecurrentState /\ modelMutex = "free"
  /\ \/ /\ inputDims' = Unit /\ outputDims' = Unit
        /\ inputTensorValues' = [i \in States |-> Zeros(1)]
        /\ inputTensor' = [i \in States |-> 1]
     \/ /\ UNCHANGED <<inputDims, outputDims, inputTensorValues>>
        /\ inputTensor' = [i \in States |-> None]
  /\ downsampleRatio' \in {downsampleRatio, <<1, 1>>}
  /\ UNCHANGED rvmDownsampleRatio

\* What a step does to the tensors
LEMMA TensorSteps ==
  ASSUME [Next]_vars
  PROVE  Leaves \/ Renews \/ Configure \/ Accept
<1>1. ASSUME NEW c \in Editors, UpdateStep(c) PROVE Leaves \/ Renews
  <2>1. CASE EnterUpdate(c) \/ StoreMode(c) \/ StoreNativeAlpha(c) \/ StoreRatio(c) \/ Finish(c)
    BY <2>1 DEF EnterUpdate, StoreMode, StoreNativeAlpha, StoreRatio, Finish, Leaves, tensors, rvm
  <2>2. CASE InitModel(c)
    BY <2>2 DEF InitModel, SessionOn, NoSession, Leaves, Renews, tensors, rvm
  <2> QED
    BY <1>1, <2>1, <2>2 DEF UpdateStep
<1>2. ASSUME NEW c \in Callers, InvalidateInference(c) \/ ActivityStep(c) PROVE Leaves
  BY <1>2 DEF InvalidateInference, ActivityStep, Activate, Deactivate, ResetModelState, Leaves,
     tensors, rvm
<1>3. ASSUME TakeFrame \/ ReadNativeAlpha \/ SkipFrame \/ RunOther \/ Refuse \/ Throw PROVE Leaves
  BY <1>3 DEF TakeFrame, ReadNativeAlpha, SkipFrame, RunOther, Refuse, Throw, Leaves, tensors, rvm
<1>4. ASSUME FallBack PROVE Leaves \/ Renews
  BY <1>4 DEF FallBack, SessionOn, Leaves, Renews, tensors, rvm
<1>5. ASSUME UNCHANGED vars PROVE Leaves
  BY <1>5 DEF vars, Leaves, tensors, rvm
<1> QED
  BY <1>1, <1>2, <1>3, <1>4, <1>5 DEF Next, WorkerStep

LEMMA ChosenRatioType ==
  ASSUME TypeOK, job # None
  PROVE  ChosenRatio \in Ratio
BY RatioOfMode DEF TypeOK, ChosenRatio, Job

\* What Configure prepares: views of buffers that are as long as their dimensions say.
LEMMA ConfigureFits ==
  ASSUME TypeOK, job # None, Configure
  PROVE  /\ inputDims' \in [States -> Shape]
         /\ outputDims' = Features(job.size, HiddenRatio)
         /\ outputDims' \in [States -> Shape]
         /\ inputTensorValues' \in [States -> Buffer]
         /\ \A i \in States :
              /\ inputTensorValues'[i] \in {inputTensorValues[i], Zeros(VectorProduct(inputDims'[i]))}
              /\ inputTensorValues'[i].length = VectorProduct(inputDims'[i])
              /\ inputTensorValues[i].length = VectorProduct(inputDims'[i])
                   => inputTensorValues'[i] = inputTensorValues[i]
              /\ inputTensor'[i] = inputTensorValues'[i].length
         /\ inputTensor' \in [States -> Nat]
<1>1. job.size \in Sizes
  BY DEF TypeOK, Job
<1>2. inputDims' \in [States -> Shape]
  BY UnitIsShape DEF Configure, TypeOK
<1>3. outputDims' = Features(job.size, HiddenRatio) /\ outputDims' \in [States -> Shape]
  BY <1>1, FeaturesOfFrame DEF Configure
<1>4. ASSUME NEW i \in States
      PROVE  LET fitted == Fitted(inputTensorValues[i], inputDims'[i]) IN
             /\ fitted \in Buffer
             /\ fitted \in {inputTensorValues[i], Zeros(VectorProduct(inputDims'[i]))}
             /\ fitted.length = VectorProduct(inputDims'[i])
             /\ inputTensorValues[i].length = VectorProduct(inputDims'[i])
                  => fitted = inputTensorValues[i]
  <2>1. VectorProduct(inputDims'[i]) \in Nat \ {0}
    BY <1>2, VolumeOfShape
  <2>2. Zeros(VectorProduct(inputDims'[i])) \in Buffer
    BY <2>1 DEF Zeros, Buffer
  <2> QED
    BY <2>2 DEF Fitted, Zeros, TypeOK
<1>5. /\ inputTensorValues' = [i \in States |-> Fitted(inputTensorValues[i], inputDims'[i])]
      /\ inputTensor' = [i \in States |-> inputTensorValues'[i].length]
  BY DEF Configure, Views
<1>6. \A i \in States : inputTensorValues'[i] \in Buffer /\ inputTensorValues'[i].length \in Nat
  BY <1>4, <1>5 DEF Buffer
<1> QED
  BY <1>2, <1>3, <1>4, <1>5, <1>6

LEMMA TensorTypesStep ==
  ASSUME TypeOK, StagesHaveWhatTheyNeed, NetworkInputs, [Next]_vars
  PROVE  TensorTypes'
<1> USE DEF TensorTypes
<1>1. TensorTypes
  BY DEF TypeOK
<1>2. <<1, 4>> \in Ratio /\ <<1, 1>> \in Ratio
  BY DEF Ratio
<1>3. CASE Configure
  <2>1. job # None /\ job.size \in Sizes
    BY <1>3 DEF Configure, StagesHaveWhatTheyNeed, TypeOK, Job
  <2>2. ChosenRatio \in Ratio
    BY <2>1, ChosenRatioType
  <2>3. recurrentStateInitialized' \in BOOLEAN
    BY <1>3 DEF Configure
  <2> QED
    BY <1>2, <1>3, <2>1, <2>2, <2>3, ConfigureFits DEF Configure, HiddenRatio
<1>4. CASE Accept
  <2>1. job # None /\ job.size \in Sizes
    BY <1>4 DEF Accept, StagesHaveWhatTheyNeed, TypeOK, Job
  <2>2. \A i \in States : VectorProduct(outputDims[i]) \in Nat \ {0}
    BY <1>1, VolumeOfShape
  <2>3. inputTensorValues' \in [States -> Buffer]
    BY <1>1, <1>4, <2>1, <2>2 DEF Accept, Buffer, Write
  <2>4. inputTensor' \in [States -> Nat \cup {None}]
    BY <1>1, <1>4 DEF Accept
  <2> QED
    BY <1>1, <1>4, <2>3, <2>4 DEF Accept
<1>5. CASE Leaves
  <2>1. rvmDownsampleRatio' \in Ratio
    BY <1>1, <1>2, <1>5, ChosenRatioType DEF Leaves, StagesHaveWhatTheyNeed
  <2> QED
    BY <1>1, <1>2, <1>5, <2>1 DEF Leaves, ResetRecurrentState
<1>6. CASE Renews
  BY <1>1, <1>2, <1>6, UnitIsShape, FreshBuffers DEF Renews, ResetRecurrentState
<1> QED
  BY <1>3, <1>4, <1>5, <1>6, TensorSteps

-----------------------------------------------------------------------------
(* What the buffers hold. *)

\* Zeros cannot be taken for a state, nor a fresh shape for a written one: a written
\* buffer has 16 elements or more.
LEMMA WrittenIsNotFreshStep ==
  ASSUME RvmInvariant, [Next]_vars
  PROVE  WrittenIsNotFresh'
<1> USE DEF WrittenIsNotFresh
<1>1. TypeOK /\ StagesHaveWhatTheyNeed /\ NetworkInputs /\ WrittenIsNotFresh
  BY DEF RvmInvariant
<1>2. CASE Configure
  <2>1. job # None
    BY <1>1, <1>2 DEF Configure, StagesHaveWhatTheyNeed
  <2> QED
    BY <1>1, <1>2, <2>1, ConfigureFits DEF Zeros
<1>3. CASE Accept
  <2>1. job.size \in Sizes /\ outputDims = Features(job.size, HiddenRatio)
    BY <1>1, <1>3 DEF Accept, StagesHaveWhatTheyNeed, NetworkInputs, InputsFitNetwork, TypeOK, Job
  <2>2. \A i \in States : VectorProduct(outputDims[i]) > 1
    BY <2>1, FeaturesOfFrame, VolumeOfShape DEF Shape
  <2> QED
    BY <1>3, <2>2 DEF Accept
<1>4. CASE Leaves \/ Renews
  BY <1>1, <1>4 DEF Leaves, Renews, Zeros
<1> QED
  BY <1>2, <1>3, <1>4, TensorSteps

\* The state that Accept leaves is of the frame that Configure prepared, which no callback
\* can touch in between; and a frame of another resolution begins a new one.
LEMMA StateIsOfLastFrameStep ==
  ASSUME RvmInvariant, [Next]_vars
  PROVE  StateIsOfLastFrame'
<1> USE DEF StateIsOfLastFrame
<1>1. TypeOK /\ StagesHaveWhatTheyNeed /\ NetworkInputs /\ StateIsOfLastFrame
  BY DEF RvmInvariant
<1>2. CASE Configure
  <2>1. job # None /\ job.size # None
    BY <1>1, <1>2, NoneAssumption DEF Configure, StagesHaveWhatTheyNeed, TypeOK, Job
  <2>2. CASE recurrentStateInitialized /\ configured = job.size
    <3>1. inputDims' = outputDims /\ configured' = configured
      BY <1>2, <2>2 DEF Configure, SourceChanged
    <3>2. outputDims' = outputDims
      BY <1>1, <1>2, <2>1, <2>2, ConfigureFits
    <3>3. \A i \in States : inputTensorValues[i].length = VectorProduct(inputDims'[i])
      BY <1>1, <2>2, <3>1
    <3>4. \A i \in States : inputTensorValues'[i] = inputTensorValues[i]
      BY <1>1, <1>2, <2>1, <3>3, ConfigureFits
    <3> QED
      BY <1>1, <2>2, <3>1, <3>2, <3>4
  <2>3. CASE ~(recurrentStateInitialized /\ configured = job.size)
    BY <1>2, <2>3 DEF Configure, SourceChanged
  <2> QED
    BY <2>2, <2>3
<1>3. CASE Accept
  <2>1. /\ configured = job.size /\ outputDims = Features(job.size, HiddenRatio)
        /\ job.size # None
    BY <1>1, <1>3, NoneAssumption
    DEF Accept, StagesHaveWhatTheyNeed, NetworkInputs, InputsFitNetwork, TypeOK, Job
  <2> QED
    BY <1>3, <2>1 DEF Accept
<1>4. CASE Leaves \/ Renews
  BY <1>1, <1>4 DEF Leaves, Renews, ResetRecurrentState
<1> QED
  BY <1>2, <1>3, <1>4, TensorSteps

\* While the network runs the worker holds modelMutex, so that only the worker itself ends
\* that; what a callback may do is to outdate the frame, which keeps its size.
LEMMA OnlyOutdated ==
  ASSUME TypeOK, StagesHaveWhatTheyNeed, wstage = "run", [Next]_vars, wstage' = "run"
  PROVE  job'.size = job.size /\ Leaves /\ modelMutex # "free"
<1>1. job \in Job /\ modelMutex # "free"
  BY DEF TypeOK, StagesHaveWhatTheyNeed
<1>2. ASSUME NEW c \in Callers, InvalidateInference(c) PROVE job'.size = job.size
  BY <1>1, <1>2 DEF InvalidateInference, Outdate, Job
<1>3. ASSUME NEW c \in Callers, UpdateStep(c) \/ ActivityStep(c) PROVE job' = job
  BY <1>3 DEF UpdateStep, EnterUpdate, StoreMode, StoreNativeAlpha, StoreRatio, InitModel, Finish,
     ActivityStep, Activate, Deactivate, ResetModelState, worker
<1>4. ~WorkerStep
  BY DEF WorkerStep, TakeFrame, ReadNativeAlpha, SkipFrame, Configure, RunOther, Accept, Refuse,
     Throw, FallBack, Drop
<1>5. ~Configure /\ ~Accept /\ ~Renews
  BY <1>1, <1>4 DEF WorkerStep, Renews
<1>6. CASE UNCHANGED vars
  BY <1>1, <1>5, <1>6, TensorSteps DEF vars, worker
<1> QED
  BY <1>1, <1>2, <1>3, <1>4, <1>5, <1>6, TensorSteps, EditorsAssumption DEF Next

LEMMA NetworkInputsStep ==
  ASSUME RvmInvariant, [Next]_vars
  PROVE  NetworkInputs'
<1>1. TypeOK /\ StagesHaveWhatTheyNeed /\ NetworkInputs /\ StateIsOfLastFrame /\ WrittenIsNotFresh
  BY DEF RvmInvariant
<1> SUFFICES ASSUME wstage' = "run"
             PROVE  ViewsFitBuffers' /\ StateKeepsShape' /\ InputsFitNetwork'
  BY DEF NetworkInputs
<1>2. CASE wstage = "run"
  BY <1>1, <1>2, OnlyOutdated
  DEF NetworkInputs, Leaves, ResetRecurrentState, ViewsFitBuffers, StateKeepsShape, InputsFitNetwork
<1>3. CASE Configure
  <2>1. job # None /\ job' = job /\ configured' = job.size
    BY <1>1, <1>3 DEF Configure, StagesHaveWhatTheyNeed
  <2>2. ViewsFitBuffers'
    BY <1>1, <1>3, <2>1, ConfigureFits DEF ViewsFitBuffers
  <2>3. CASE recurrentStateInitialized /\ configured = job.size
    <3>1. inputDims' = outputDims /\ outputDims' = outputDims
      BY <1>1, <1>3, <2>1, <2>3, ConfigureFits DEF Configure, SourceChanged, StateIsOfLastFrame
    <3>2. \A i \in States : /\ inputTensorValues[i].length = VectorProduct(inputDims'[i])
                            /\ inputTensorValues[i].written
                                 = [size |-> job.size, shape |-> inputDims'[i]]
      BY <1>1, <2>3, <3>1 DEF StateIsOfLastFrame
    <3>3. \A i \in States : inputTensorValues'[i] = inputTensorValues[i]
      BY <1>1, <1>3, <2>1, <3>2, ConfigureFits
    <3>4. StateKeepsShape'
      BY <2>1, <3>2, <3>3 DEF StateKeepsShape
    <3> QED
      BY <1>1, <1>3, <2>1, <2>2, <3>1, <3>4, ConfigureFits DEF InputsFitNetwork
  <2>4. CASE ~(recurrentStateInitialized /\ configured = job.size)
    <3>1. inputDims' = Unit
      BY <1>3, <2>4 DEF Configure, SourceChanged
    <3>2. \A i \in States : inputTensorValues'[i].written = None
      BY <1>1, <1>3, <2>1, <3>1, ConfigureFits, UnitIsShape DEF WrittenIsNotFresh, Zeros
    <3> QED
      BY <1>1, <1>3, <2>1, <2>2, <3>1, <3>2, ConfigureFits DEF StateKeepsShape, InputsFitNetwork
  <2> QED
    BY <2>3, <2>4
<1>4. wstage = "run" \/ Configure
  BY DEF Next, UpdateStep, EnterUpdate, StoreMode, StoreNativeAlpha, StoreRatio, InitModel, Finish,
     ActivityStep, Activate, Deactivate, ResetModelState, InvalidateInference,
     WorkerStep, TakeFrame, ReadNativeAlpha, SkipFrame, RunOther, Accept, Refuse, Throw, FallBack,
     Drop, worker, vars
<1> QED
  BY <1>2, <1>3, <1>4

-----------------------------------------------------------------------------
(* The theorems. *)

\* The recurrent state is what the last frame wrote, in its shape, and belongs to the
\* resolution the model is configured for (ModelRVM.hpp:56-135, ort-session-utils.cpp:35-81),
\* for all resolutions, any number of callers, and whatever callbacks do meanwhile.
THEOREM RvmInvariantHolds == Spec => []RvmInvariant
<1>1. RvmInvariant /\ [Next]_vars => RvmInvariant'
  <2> SUFFICES ASSUME RvmInvariant, [Next]_vars PROVE RvmInvariant'
    OBVIOUS
  <2>1. TypeOK /\ StagesHaveWhatTheyNeed /\ NetworkInputs
    BY DEF RvmInvariant
  <2>2. CallbackTypes' /\ WorkerTypes' /\ TensorTypes'
    BY <2>1, CallbackTypesStep, WorkerTypesStep, TensorTypesStep
  <2>3. TypeOK'
    BY <2>2 DEF TypeOK, CallbackTypes, WorkerTypes, TensorTypes
  <2>4. StagesHaveWhatTheyNeed'
    BY <2>2 DEF StagesHaveWhatTheyNeed, CallbackTypes, WorkerTypes
  <2> QED
    BY <2>3, <2>4, WrittenIsNotFreshStep, StateIsOfLastFrameStep, NetworkInputsStep
    DEF RvmInvariant
<1> QED
  BY <1>1, InitEstablishes, PTL DEF Spec

\* The network never has a reason to refuse its recurrent inputs: each has one element
\* or the shape that is computed for this frame (ort-session-utils.cpp:75), although
\* buffers are kept by their length and a turned picture has the same length.
THEOREM NetworkAcceptsInputs == Spec => [](wstage = "run" => Fits)
<1>1. RvmInvariant => (wstage = "run" => Fits)
  BY DEF RvmInvariant, NetworkInputs, InputsFitNetwork, Fits, Unit
<1> QED
  BY <1>1, RvmInvariantHolds, PTL
=============================================================================
