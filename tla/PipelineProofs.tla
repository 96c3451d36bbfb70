---------------------------- MODULE PipelineProofs ----------------------------
(***************************************************************************)
(* The safety properties of the inference pipeline that hold however       *)
(* callbacks, frames and inferences overlap, proved for every number of    *)
(* callers, set of settings, fault and bound.  IndInv is inductive: its    *)
(* parts are proved one lemma each, one step per action that can disturb   *)
(* the part and one for all the others of a thread.                        *)
(***************************************************************************)
EXTENDS PipelineRefinement, TLAPS

-----------------------------------------------------------------------------
(* What the composite actions do, for the provers. *)

\* update leaves the engine alone, gives the model a session on some device, or
\* ends without a model, with the filter disabled.
LEMMA InitModelCases ==
  ASSUME TypeControl, NEW c \in Callers, InitModel(c)
  PROVE  \/ /\ UNCHANGED <<useGPU, model, session, isDisabled>>
            /\ stage' = [stage EXCEPT ![c] = "enable"]
         \/ /\ \E kind \in Kinds, d \in Devices : SessionOn(kind, d)
            /\ stage' = [stage EXCEPT ![c] = "enable"]
         \/ model' = None /\ useGPU' = "cpu" /\ isDisabled' = TRUE
BY DEF TypeControl, InitModel, NoSession, Setting, Devices, Kinds, GoTo

\* The exception handler leaves the engine alone, moves the model's session from
\* the GPU to the CPU, or ends without a session.
LEMMA FallBackCases ==
  ASSUME TypeEngine, FallBackToCpu
  PROVE  \/ UNCHANGED <<useGPU, session, isDisabled>>
         \/ /\ useGPU # "cpu" /\ useGPU' = "cpu"
            /\ model # None /\ session' = model /\ UNCHANGED isDisabled
         \/ useGPU' = "cpu" /\ session' = None
BY DEF FallBackToCpu

\* What the worker publishes is a matte of the frame and generation of its job.
LEMMA NewMatteType ==
  ASSUME TypeThreads, wstage \in {"publishAlpha", "publishMask"},
         NEW polarity \in {"foreground", "background"}
  PROVE  /\ NewMatte(polarity) \in Matte /\ NewMatte(polarity) # None
         /\ NewMatte(polarity).number = job.frame.number
         /\ NewMatte(polarity).generation = job.generation
<1>1. /\ job \in Job /\ job.output \in Kinds
      /\ job.frame \in Frame /\ job.frame.number \in Nat /\ job.generation \in Nat
      /\ Blended(job.previous) \subseteq Nat \X Kinds
  BY NoneAssumption DEF TypeThreads, Job, Frame, Matte, Blended
<1>2. {<<job.generation, job.output>>} \cup Blended(job.previous) \in SUBSET (Nat \X Kinds)
  BY <1>1
<1> QED
  BY <1>1, <1>2, NoneAssumption DEF NewMatte, Matte

-----------------------------------------------------------------------------
(* Types. *)

\* A step that leaves a group of variables alone keeps its types.
LEMMA TypeFrame ==
  /\ TypeControl /\ UNCHANGED control => TypeControl'
  /\ TypeFlags /\ UNCHANGED flags => TypeFlags'
  /\ TypeEngine /\ UNCHANGED engine => TypeEngine'
  /\ TypeQueue /\ UNCHANGED <<queue, inferenceGeneration>> => TypeQueue'
  /\ TypeOutputs /\ UNCHANGED <<outputs, lastImageBGRA>> => TypeOutputs'
  /\ TypeThreads /\ UNCHANGED <<graphics, worker, modelMutex, model>> => TypeThreads'
BY DEF TypeControl, TypeFlags, TypeEngine, TypeQueue, TypeOutputs, TypeThreads,
       control, flags, engine, queue, outputs, graphics, worker

\* TypeOK is preserved; LifeCycle shows that the worker starts only once.
LEMMA TypeStep == TypeOK /\ LifeCycle /\ [Next]_vars => TypeOK'
<1> SUFFICES ASSUME TypeOK, LifeCycle, [Next]_vars PROVE TypeOK'
  OBVIOUS
<1> USE TypeFrame DEF TypeOK
<1>1. ASSUME NEW c \in Callers, Activate(c) PROVE TypeOK'
  <2>1. TypeControl'
    BY <1>1 DEF Activate, Enter, GoTo, TypeControl, Stages, Ops
  <2>2. TypeFlags'
    <3>1. isDisabled' \in BOOLEAN
      BY <1>1, Zenon DEF Activate, TypeFlags
    <3>2. maskEveryXFramesCount' \in 0 .. Every - 1
      BY <1>1, BoundsAssumption DEF Activate, TypeFlags
    <3> QED
      BY <1>1, <3>1, <3>2 DEF Activate, TypeFlags
  <2>3. UNCHANGED <<engine, inferenceGeneration, queue, outputs, lastImageBGRA, graphics, worker>>
    BY <1>1 DEF Activate
  <2> QED
    BY <2>1, <2>2, <2>3 DEF engine
<1>2. ASSUME NEW c \in Callers, Deactivate(c) PROVE TypeOK'
  <2>1. TypeControl'
    BY <1>2 DEF Deactivate, Enter, GoTo, TypeControl, Stages, Ops
  <2>2. TypeFlags'
    <3>1. isDisabled' \in BOOLEAN
      BY <1>2, Zenon DEF Deactivate, TypeFlags
    <3>2. maskEveryXFramesCount' \in 0 .. Every - 1
      BY <1>2, BoundsAssumption DEF Deactivate, TypeFlags
    <3> QED
      BY <1>2, <3>1, <3>2 DEF Deactivate, TypeFlags
  <2>3. UNCHANGED <<engine, inferenceGeneration, queue, outputs, lastImageBGRA, graphics, worker>>
    BY <1>2 DEF Deactivate
  <2> QED
    BY <2>1, <2>2, <2>3 DEF engine
<1>3. ASSUME NEW c \in Callers, InitModel(c) PROVE TypeOK'
  <2>1. stage' \in [Callers -> Stages]
    BY <1>3 DEF InitModel, Return, GoTo, TypeControl, Stages
  <2>a. TypeEngine'
    BY <1>3, SettingsAssumption
    DEF InitModel, SessionOn, NoSession, ResetRecurrentState, TypeEngine, TypeControl, Setting,
        Devices
  <2>b. isDisabled' \in BOOLEAN
    BY <1>3, Zenon DEF InitModel, SessionOn, NoSession, TypeFlags
  <2>2. TypeEngine' /\ isDisabled' \in BOOLEAN
    BY <2>a, <2>b
  <2>3. TypeControl' /\ TypeFlags'
    BY <1>3, <2>1, <2>2 DEF InitModel, TypeControl, TypeFlags
  <2>4. TypeThreads'
    BY <1>3 DEF InitModel, TypeThreads, graphics, worker
  <2> QED
    BY <1>3, <2>2, <2>3, <2>4 DEF InitModel
<1>4. ASSUME NEW c \in Callers, Enable(c) PROVE TypeOK'
  <2>1. stage' \in [Callers -> Stages]
    BY <1>4 DEF Enable, Return, GoTo, TypeControl, Stages
  <2>2. TypeControl' /\ TypeFlags'
    BY <1>4, <2>1 DEF Enable, TypeControl, TypeFlags
  <2> QED
    BY <1>4, <2>2 DEF Enable, engine
<1>5. ASSUME NEW c \in Callers, StartWorker(c) PROVE TypeOK'
  <2>1. wstage = "none"
    BY <1>5 DEF StartWorker, LifeCycle, TypeControl
  <2>2. TypeControl' 
    BY <1>5 DEF StartWorker, GoTo, TypeControl, Stages
  <2>3. TypeQueue' 
    BY <1>5 DEF StartWorker, TypeQueue
  <2>4. TypeThreads' 
    BY <1>5, <2>1 DEF StartWorker, TypeThreads, WorkerStages, graphics, engine
  <2> QED
    BY <1>5, <2>2, <2>3, <2>4 DEF StartWorker
<1>6. CASE FallBackToCpu
  <2>a. TypeEngine'
    BY <1>6 DEF FallBackToCpu, ResetRecurrentState, TypeEngine, Devices
  <2>b. isDisabled' \in BOOLEAN
    BY <1>6, Zenon DEF FallBackToCpu, TypeFlags
  <2>1. TypeEngine' /\ TypeFlags'
    BY <1>6, <2>a, <2>b DEF FallBackToCpu, TypeFlags
  <2>2. TypeThreads'
    BY <1>6 DEF FallBackToCpu, NextIteration, TypeThreads, WorkerStages, graphics
  <2> QED
    BY <1>6, <2>1, <2>2 DEF FallBackToCpu
<1> HIDE TypeFrame
<1> USE BoundsAssumption, NoneAssumption, SettingsAssumption
    DEF TypeOK, TypeControl, TypeFlags, TypeEngine, TypeQueue, TypeOutputs,
        TypeThreads, control, flags, engine, queue, outputs, graphics, worker,
        Stages, Ops, WorkerStages, Kinds, Devices, Setting, Frame, Matte, Job
<1>7. ASSUME NEW c \in Callers, Create(c) PROVE TypeOK'
  BY <1>7 DEF Create, EnterUpdate, Enter, GoTo
<1>8. ASSUME NEW c \in Callers, Update(c) PROVE TypeOK'
  BY <1>8 DEF Update, EnterUpdate, Enter, GoTo
<1>9. ASSUME NEW c \in Callers, Destroy(c) PROVE TypeOK'
  BY <1>9 DEF Destroy, Enter, GoTo
<1>10. ASSUME NEW c \in Callers, BumpGeneration(c) PROVE TypeOK'
  BY <1>10 DEF BumpGeneration, GoTo
<1>11. ASSUME NEW c \in Callers, ReleasePending(c) PROVE TypeOK'
  BY <1>11 DEF ReleasePending, GoTo
<1>12. ASSUME NEW c \in Callers,
            \/ ReleaseOutputs(c) \/ ReleaseLastImage(c)
     PROVE  TypeOK'
  BY <1>12 DEF ReleaseOutputs, ReleaseMats, GoTo, ReleaseLastImage
<1>13. ASSUME NEW c \in Callers, InvalidateDone(c) PROVE TypeOK'
  BY <1>13 DEF InvalidateDone, AfterInvalidate, Notify, GoTo
<1>14. ASSUME NEW c \in Callers, StoreSettings(c) PROVE TypeOK'
  <2>1. CASE StoreMattingMode(c)
    BY <2>1 DEF StoreMattingMode, GoTo
  <2>2. CASE ApplySettings(c)
    BY <2>2 DEF ApplySettings, GoTo
  <2>3. CASE StoreNativeAlpha(c)
    BY <2>3 DEF StoreNativeAlpha, WantsNativeAlpha, GoTo
  <2> QED
    BY <1>14, <2>1, <2>2, <2>3 DEF StoreSettings
<1>15. ASSUME NEW c \in Callers, ResetModelState(c) PROVE TypeOK'
  BY <1>15 DEF ResetModelState, ResetRecurrentState, GoTo
<1>16. ASSUME NEW c \in Callers, RequestStop(c) PROVE TypeOK'
  BY <1>16 DEF RequestStop, GoTo
<1>17. ASSUME NEW c \in Callers,
            \/ NotifyStop(c) \/ JoinAndFree(c)
     PROVE  TypeOK'
  BY <1>17 DEF NotifyStop, Notify, GoTo, JoinAndFree
<1>18. CASE \E image \in Images : TickBegin(image)
  BY <1>18 DEF TickBegin
<1>19. CASE PushFrame
  BY <1>19 DEF PushFrame, QueueAfterPush, PushedFrame
<1>20. CASE NotifyWorker
  BY <1>20 DEF NotifyWorker, Notify
<1>21. CASE RenderAlpha
  <2>1. backgroundAlpha' \in Matte
    BY <1>21 DEF RenderAlpha, Flip
  <2> QED
    BY <1>21, <2>1 DEF RenderAlpha
<1>22. CASE \/ WorkerExit \/ WorkerSleep \/ SpuriousWakeup
  BY <1>22 DEF WorkerExit, WorkerSleep, SpuriousWakeup
<1>23. CASE TakeFrame
  <2>1. job' \in Job /\ pendingInferenceFrame' = None
    BY <1>23 DEF TakeFrame, LeftPending
  <2> QED
    BY <1>23, <2>1 DEF TakeFrame
<1>24. CASE \/ CheckFrame \/ CheckSimilarity
  BY <1>24 DEF CheckFrame, NextIteration, Refused, CheckSimilarity
<1>25. CASE ReadNativeAlpha
  BY <1>25 DEF ReadNativeAlpha
<1>26. CASE EnterInference
  BY <1>26 DEF EnterInference, CannotRun, NextIteration
<1>27. CASE InferenceDone
  BY <1>27 DEF InferenceDone
<1>28. CASE \/ InferenceFailed \/ InferenceThrew
  BY <1>28 DEF InferenceFailed, NextIteration, InferenceThrew
<1>29. CASE CheckResult
  BY <1>29 DEF CheckResult, NextIteration
<1>30. CASE PublishAlpha
  BY <1>30, NewMatteType DEF PublishAlpha, NextIteration
<1>31. CASE ReadPreviousMask
  BY <1>31 DEF ReadPreviousMask, NextIteration
<1>32. CASE PublishMask
  BY <1>32, NewMatteType DEF PublishMask, NextIteration
<1>33. CASE UNCHANGED vars
  BY <1>33 DEF vars
<1> HIDE DEF TypeOK, TypeControl, TypeFlags, TypeEngine, TypeQueue, TypeOutputs,
        TypeThreads, control, flags, engine, queue, outputs, graphics, worker,
        Stages, Ops, WorkerStages, Kinds, Devices, Setting, Frame, Matte, Job
<1>34. QED
  BY <1>1, <1>2, <1>3, <1>4, <1>5, <1>6, <1>7, <1>8, <1>9, <1>10, <1>11,
     <1>12, <1>13, <1>14, <1>15, <1>16, <1>17, <1>18, <1>19, <1>20, <1>21,
     <1>22, <1>23, <1>24, <1>25, <1>26, <1>27, <1>28, <1>29, <1>30, <1>31,
     <1>32, <1>33
     DEF Next, Begin, Continue, Invalidate, Submit, Work, Freed

-----------------------------------------------------------------------------
(* The parts of the inductive invariant. *)

\* The creating callback stays alone: no other may enter before it has ended.
LEMMA LifeCycleStep == IndInv /\ TypeOK' /\ [Next]_vars => LifeCycle'
<1> SUFFICES ASSUME IndInv, TypeOK', [Next]_vars PROVE LifeCycle'
  OBVIOUS
<1> USE NoneAssumption
    DEF IndInv, LifeCycle, TypeOK, TypeControl, Stages, Ops,
        control, flags, engine, queue, graphics, worker
<1>1. ASSUME NEW c \in Callers, Create(c) PROVE LifeCycle'
  BY <1>1 DEF Create, EnterUpdate, Enter, GoTo
<1>2. ASSUME NEW c \in Callers, Destroy(c) PROVE LifeCycle'
  BY <1>2 DEF Destroy, Enter, GoTo
<1>3. ASSUME NEW c \in Callers, InvalidateDone(c) PROVE LifeCycle'
  BY <1>3 DEF InvalidateDone, AfterInvalidate, Notify, GoTo
<1>4. ASSUME NEW c \in Callers, InitModel(c) PROVE LifeCycle'
  BY <1>4 DEF InitModel, SessionOn, NoSession, ResetRecurrentState,
          SameEngine, Return, GoTo
<1>5. ASSUME NEW c \in Callers, StartWorker(c) PROVE LifeCycle'
  BY <1>5 DEF StartWorker, GoTo
<1>6. ASSUME NEW c \in Callers,
            \/ Update(c) \/ Activate(c) \/ Deactivate(c)
            \/ BumpGeneration(c) \/ ReleasePending(c)
            \/ ReleaseOutputs(c) \/ ReleaseLastImage(c)
            \/ StoreSettings(c) \/ Enable(c) \/ ResetModelState(c)
            \/ RequestStop(c) \/ NotifyStop(c) \/ JoinAndFree(c)
     PROVE  LifeCycle'
  BY <1>6 DEF Update, EnterUpdate, Enter, GoTo, Activate, Deactivate,
          BumpGeneration, ReleasePending, ReleaseOutputs, ReleaseMats,
          ReleaseLastImage, StoreSettings, StoreMattingMode, ApplySettings,
          StoreNativeAlpha, WantsNativeAlpha, Enable, Return,
          ResetModelState, ResetRecurrentState, RequestStop, NotifyStop,
          Notify, JoinAndFree
<1>7. CASE \/ (\E image \in Images : TickBegin(image)) \/ PushFrame
          \/ NotifyWorker \/ RenderAlpha
  BY <1>7 DEF TickBegin, PushFrame, QueueAfterPush, PushedFrame,
          NotifyWorker, Notify, RenderAlpha, Flip
<1>8. CASE \/ WorkerExit \/ WorkerSleep \/ TakeFrame \/ CheckFrame
          \/ ReadNativeAlpha \/ CheckSimilarity \/ EnterInference
          \/ InferenceDone \/ InferenceFailed \/ InferenceThrew
          \/ FallBackToCpu \/ CheckResult \/ PublishAlpha
          \/ ReadPreviousMask \/ PublishMask \/ SpuriousWakeup
  BY <1>8 DEF WorkerExit, WorkerSleep, TakeFrame, LeftPending, CheckFrame,
          NextIteration, Refused, ReadNativeAlpha, CheckSimilarity,
          EnterInference, CannotRun, InferenceDone, InferenceFailed,
          InferenceThrew, FallBackToCpu, ResetRecurrentState, CheckResult,
          PublishAlpha, NewMatte, Blended, ReadPreviousMask, PublishMask,
          SpuriousWakeup
<1>9. CASE UNCHANGED vars
  BY <1>9 DEF vars
<1> HIDE DEF IndInv, LifeCycle, TypeOK, TypeControl, Stages, Ops,
         control, flags, engine, queue, graphics, worker
<1>10. QED
  BY <1>1, <1>2, <1>3, <1>4, <1>5, <1>6, <1>7, <1>8, <1>9
     DEF Next, Begin, Continue, Invalidate, Submit, Work, Freed

\* A tag is a copy of inferenceGeneration, which only grows.
LEMMA TagsFromThePastStep == IndInv /\ TypeOK' /\ [Next]_vars => TagsFromThePast'
<1> SUFFICES ASSUME IndInv, TypeOK', [Next]_vars PROVE TagsFromThePast'
  OBVIOUS
<1> USE NoneAssumption
    DEF IndInv, TagsFromThePast, Mattes, TypeOK, TypeQueue, TypeOutputs, TypeThreads,
              Job, Matte, outputs,
        control, flags, engine, queue, graphics, worker
<1>1. ASSUME NEW c \in Callers, BumpGeneration(c) PROVE TagsFromThePast'
  BY <1>1 DEF BumpGeneration, GoTo
<1>2. ASSUME NEW c \in Callers, ReleasePending(c) PROVE TagsFromThePast'
  BY <1>2 DEF ReleasePending, GoTo
<1>3. ASSUME NEW c \in Callers, ReleaseOutputs(c) PROVE TagsFromThePast'
  BY <1>3 DEF ReleaseOutputs, ReleaseMats, GoTo
<1>4. ASSUME NEW c \in Callers,
            \/ Create(c) \/ Update(c) \/ Activate(c) \/ Deactivate(c)
            \/ Destroy(c) \/ ReleaseLastImage(c) \/ InvalidateDone(c)
            \/ StoreSettings(c) \/ InitModel(c) \/ Enable(c)
            \/ ResetModelState(c) \/ StartWorker(c) \/ RequestStop(c)
            \/ NotifyStop(c) \/ JoinAndFree(c)
     PROVE  TagsFromThePast'
  BY <1>4 DEF Create, EnterUpdate, Enter, GoTo, Update, Activate,
          Deactivate, Destroy, ReleaseLastImage, InvalidateDone,
          AfterInvalidate, Notify, StoreSettings, StoreMattingMode, ApplySettings,
          StoreNativeAlpha, WantsNativeAlpha,
          InitModel, SessionOn, NoSession, ResetRecurrentState, SameEngine,
          Return, Enable, ResetModelState, StartWorker, RequestStop,
          NotifyStop, JoinAndFree
<1>5. CASE PushFrame
  BY <1>5 DEF PushFrame, QueueAfterPush, PushedFrame
<1>6. CASE RenderAlpha
  BY <1>6 DEF RenderAlpha, Flip
<1>7. CASE \/ (\E image \in Images : TickBegin(image)) \/ NotifyWorker
  BY <1>7 DEF TickBegin, NotifyWorker, Notify
<1>8. CASE TakeFrame
  BY <1>8 DEF TakeFrame, LeftPending
<1>9. CASE PublishAlpha
  BY <1>9 DEF PublishAlpha, NewMatte, Blended, NextIteration
<1>10. CASE PublishMask
  BY <1>10 DEF PublishMask, NewMatte, Blended, NextIteration
<1>11. CASE \/ WorkerExit \/ WorkerSleep \/ CheckFrame \/ ReadNativeAlpha
          \/ CheckSimilarity \/ EnterInference \/ InferenceDone
          \/ InferenceFailed \/ InferenceThrew \/ FallBackToCpu
          \/ CheckResult \/ ReadPreviousMask \/ SpuriousWakeup
  BY <1>11 DEF WorkerExit, WorkerSleep, CheckFrame, NextIteration, Refused,
          ReadNativeAlpha, CheckSimilarity, EnterInference, CannotRun,
          InferenceDone, InferenceFailed, InferenceThrew, FallBackToCpu,
          ResetRecurrentState, CheckResult, ReadPreviousMask, SpuriousWakeup
<1>12. CASE UNCHANGED vars
  BY <1>12 DEF vars
<1> HIDE DEF IndInv, TagsFromThePast, Mattes, TypeOK, TypeQueue, TypeOutputs, TypeThreads,
              Job, Matte, outputs,
         control, flags, engine, queue, graphics, worker
<1>13. QED
  BY <1>1, <1>2, <1>3, <1>4, <1>5, <1>6, <1>7, <1>8, <1>9, <1>10, <1>11,
     <1>12
     DEF Next, Begin, Continue, Invalidate, Submit, Work, Freed

\* Frames are numbered as they are queued; the queue holds only the newest, and
\* the worker takes the next one only after it is done with the last.
LEMMA FramesInOrderStep == IndInv /\ TypeOK' /\ [Next]_vars => FramesInOrder'
<1> SUFFICES ASSUME IndInv, TypeOK', [Next]_vars PROVE FramesInOrder'
  OBVIOUS
<1> USE NoneAssumption
    DEF IndInv, FramesInOrder, Mattes, TypeOK, TypeQueue, TypeThreads, TypeOutputs,
              Frame, Matte, Job, outputs,
        control, flags, engine, queue, graphics, worker
<1>1. ASSUME NEW c \in Callers, ReleaseOutputs(c) PROVE FramesInOrder'
  BY <1>1 DEF ReleaseOutputs, ReleaseMats, GoTo
<1>2. ASSUME NEW c \in Callers,
            \/ Create(c) \/ Update(c) \/ Activate(c) \/ Deactivate(c)
            \/ Destroy(c) \/ BumpGeneration(c) \/ ReleasePending(c)
            \/ ReleaseLastImage(c) \/ InvalidateDone(c)
            \/ StoreSettings(c) \/ InitModel(c) \/ Enable(c)
            \/ ResetModelState(c) \/ StartWorker(c) \/ RequestStop(c)
            \/ NotifyStop(c) \/ JoinAndFree(c)
     PROVE  FramesInOrder'
  BY <1>2 DEF Create, EnterUpdate, Enter, GoTo, Update, Activate,
          Deactivate, Destroy, BumpGeneration, ReleasePending,
          ReleaseLastImage, InvalidateDone, AfterInvalidate, Notify,
          StoreSettings, StoreMattingMode, ApplySettings, StoreNativeAlpha,
          WantsNativeAlpha, InitModel, SessionOn, NoSession,
          ResetRecurrentState, SameEngine, Return, Enable, ResetModelState,
          StartWorker, RequestStop, NotifyStop, JoinAndFree
<1>3. CASE PushFrame
  BY <1>3 DEF PushFrame, QueueAfterPush, PushedFrame
<1>4. CASE RenderAlpha
  BY <1>4 DEF RenderAlpha, Flip
<1>5. CASE \/ (\E image \in Images : TickBegin(image)) \/ NotifyWorker
  BY <1>5 DEF TickBegin, NotifyWorker, Notify
<1>6. CASE TakeFrame
  BY <1>6 DEF TakeFrame, LeftPending
<1>7. CASE PublishAlpha
  BY <1>7 DEF PublishAlpha, NewMatte, Blended, NextIteration
<1>8. CASE PublishMask
  BY <1>8 DEF PublishMask, NewMatte, Blended, NextIteration
<1>9. CASE \/ WorkerExit \/ WorkerSleep \/ CheckFrame \/ ReadNativeAlpha
          \/ CheckSimilarity \/ EnterInference \/ InferenceDone
          \/ InferenceFailed \/ InferenceThrew \/ FallBackToCpu
          \/ CheckResult \/ ReadPreviousMask \/ SpuriousWakeup
  BY <1>9 DEF WorkerExit, WorkerSleep, CheckFrame, NextIteration, Refused,
          ReadNativeAlpha, CheckSimilarity, EnterInference, CannotRun,
          InferenceDone, InferenceFailed, InferenceThrew, FallBackToCpu,
          ResetRecurrentState, CheckResult, ReadPreviousMask, SpuriousWakeup
<1>10. CASE UNCHANGED vars
  BY <1>10 DEF vars
<1> HIDE DEF IndInv, FramesInOrder, Mattes, TypeOK, TypeQueue, TypeThreads, TypeOutputs,
              Frame, Matte, Job, outputs,
         control, flags, engine, queue, graphics, worker
<1>11. QED
  BY <1>1, <1>2, <1>3, <1>4, <1>5, <1>6, <1>7, <1>8, <1>9, <1>10
     DEF Next, Begin, Continue, Invalidate, Submit, Work, Freed

\* createOrtSession records a device only together with the session on it.
LEMMA EngineConsistentStep == IndInv /\ TypeOK' /\ [Next]_vars => EngineConsistent'
<1> SUFFICES ASSUME IndInv, TypeOK', [Next]_vars PROVE EngineConsistent'
  OBVIOUS
<1> USE NoneAssumption
    DEF IndInv, EngineConsistent, TypeOK, TypeEngine, TypeThreads, Devices, Kinds,
        control, flags, engine, queue, graphics, worker
<1>1. ASSUME NEW c \in Callers, InitModel(c) PROVE EngineConsistent'
  <2>1. UNCHANGED wstage
    BY <1>1 DEF InitModel
  <2> QED
    BY <1>1, <2>1, InitModelCases DEF SessionOn
<1>2. ASSUME NEW c \in Callers,
            \/ Create(c) \/ Update(c) \/ Activate(c) \/ Deactivate(c)
            \/ Destroy(c) \/ BumpGeneration(c) \/ ReleasePending(c)
            \/ ReleaseOutputs(c) \/ ReleaseLastImage(c)
            \/ InvalidateDone(c) \/ StoreSettings(c) \/ Enable(c)
            \/ ResetModelState(c) \/ StartWorker(c) \/ RequestStop(c)
            \/ NotifyStop(c) \/ JoinAndFree(c)
     PROVE  EngineConsistent'
  BY <1>2 DEF Create, EnterUpdate, Enter, GoTo, Update, Activate,
          Deactivate, Destroy, BumpGeneration, ReleasePending,
          ReleaseOutputs, ReleaseMats, ReleaseLastImage, InvalidateDone,
          AfterInvalidate, Notify, StoreSettings, StoreMattingMode, ApplySettings,
          StoreNativeAlpha, WantsNativeAlpha, Enable,
          Return, ResetModelState, ResetRecurrentState, StartWorker,
          RequestStop, NotifyStop, JoinAndFree
<1>3. CASE \/ (\E image \in Images : TickBegin(image)) \/ PushFrame
          \/ NotifyWorker \/ RenderAlpha
  BY <1>3 DEF TickBegin, PushFrame, QueueAfterPush, PushedFrame,
          NotifyWorker, Notify, RenderAlpha, Flip
<1>4. CASE InferenceThrew
  BY <1>4 DEF InferenceThrew
<1>5. CASE FallBackToCpu
  BY <1>5, FallBackCases DEF FallBackToCpu, NextIteration
<1>6. CASE \/ WorkerExit \/ WorkerSleep \/ TakeFrame \/ CheckFrame
          \/ ReadNativeAlpha \/ CheckSimilarity \/ EnterInference
          \/ InferenceDone \/ InferenceFailed \/ CheckResult
          \/ PublishAlpha \/ ReadPreviousMask \/ PublishMask
          \/ SpuriousWakeup
  BY <1>6 DEF WorkerExit, WorkerSleep, TakeFrame, LeftPending, CheckFrame,
          NextIteration, Refused, ReadNativeAlpha, CheckSimilarity,
          EnterInference, CannotRun, InferenceDone, InferenceFailed,
          CheckResult, PublishAlpha, NewMatte, Blended, ReadPreviousMask,
          PublishMask, SpuriousWakeup
<1>7. CASE UNCHANGED vars
  BY <1>7 DEF vars
<1> HIDE DEF IndInv, EngineConsistent, TypeOK, TypeEngine, TypeThreads, Devices, Kinds,
         control, flags, engine, queue, graphics, worker
<1>8. QED
  BY <1>1, <1>2, <1>3, <1>4, <1>5, <1>6, <1>7
     DEF Next, Begin, Continue, Invalidate, Submit, Work, Freed

\* A matte is published only under the current generation, and the callback that
\* ends a generation releases the outputs before it does anything else.
LEMMA NoStaleMatteStep == IndInv /\ TypeOK' /\ [Next]_vars => NoStaleMatte'
<1> SUFFICES ASSUME IndInv, TypeOK', [Next]_vars PROVE NoStaleMatte'
  OBVIOUS
<1> USE NoneAssumption
    DEF IndInv, NoStaleMatte, Mattes, outputs, TypeOK, TypeControl, TypeQueue,
        control, flags, engine, queue, graphics, worker
<1>1. ASSUME NEW c \in Callers, Create(c) PROVE NoStaleMatte'
  BY <1>1 DEF Create, EnterUpdate, Enter, GoTo, MayEnter
<1>2. ASSUME NEW c \in Callers, Update(c) PROVE NoStaleMatte'
  BY <1>2 DEF Update, EnterUpdate, Enter, GoTo, MayEnter
<1>3. ASSUME NEW c \in Callers, Activate(c) PROVE NoStaleMatte'
  BY <1>3 DEF Activate, Enter, GoTo, MayEnter
<1>4. ASSUME NEW c \in Callers, Deactivate(c) PROVE NoStaleMatte'
  BY <1>4 DEF Deactivate, Enter, GoTo, MayEnter
<1>5. ASSUME NEW c \in Callers, Destroy(c) PROVE NoStaleMatte'
  BY <1>5 DEF Destroy, Enter, GoTo, Quiet
<1>6. ASSUME NEW c \in Callers, BumpGeneration(c) PROVE NoStaleMatte'
  BY <1>6 DEF BumpGeneration, GoTo
<1>7. ASSUME NEW c \in Callers, ReleaseOutputs(c) PROVE NoStaleMatte'
  BY <1>7 DEF ReleaseOutputs, ReleaseMats, GoTo
<1>8. ASSUME NEW c \in Callers,
            \/ ReleasePending(c) \/ ReleaseLastImage(c)
            \/ InvalidateDone(c) \/ StoreSettings(c) \/ InitModel(c)
            \/ Enable(c) \/ ResetModelState(c) \/ StartWorker(c)
            \/ RequestStop(c) \/ NotifyStop(c) \/ JoinAndFree(c)
     PROVE  NoStaleMatte'
  BY <1>8 DEF ReleasePending, GoTo, ReleaseLastImage, InvalidateDone,
          AfterInvalidate, Notify, StoreSettings, StoreMattingMode, ApplySettings,
          StoreNativeAlpha, WantsNativeAlpha,
          InitModel, SessionOn, NoSession, ResetRecurrentState, SameEngine,
          Return, Enable, ResetModelState, StartWorker, RequestStop,
          NotifyStop, JoinAndFree
<1>9. CASE RenderAlpha
  BY <1>9 DEF RenderAlpha, TypeOutputs, Matte, control
<1>10. CASE \/ (\E image \in Images : TickBegin(image)) \/ PushFrame
          \/ NotifyWorker
  BY <1>10 DEF TickBegin, PushFrame, QueueAfterPush, PushedFrame,
          NotifyWorker, Notify
<1>11. CASE PublishAlpha
  BY <1>11 DEF PublishAlpha, NewMatte, Current, control
<1>12. CASE PublishMask
  BY <1>12 DEF PublishMask, NewMatte, Current, control
<1>13. CASE \/ WorkerExit \/ WorkerSleep \/ TakeFrame \/ CheckFrame
          \/ ReadNativeAlpha \/ CheckSimilarity \/ EnterInference
          \/ InferenceDone \/ InferenceFailed \/ InferenceThrew
          \/ FallBackToCpu \/ CheckResult \/ ReadPreviousMask
          \/ SpuriousWakeup
  BY <1>13 DEF WorkerExit, WorkerSleep, TakeFrame, LeftPending, CheckFrame,
          NextIteration, Refused, ReadNativeAlpha, CheckSimilarity,
          EnterInference, CannotRun, InferenceDone, InferenceFailed,
          InferenceThrew, FallBackToCpu, ResetRecurrentState, CheckResult,
          ReadPreviousMask, SpuriousWakeup
<1>14. CASE UNCHANGED vars
  BY <1>14 DEF vars
<1> HIDE DEF IndInv, NoStaleMatte, Mattes, outputs, TypeOK, TypeControl, TypeQueue,
         control, flags, engine, queue, graphics, worker
<1>15. QED
  BY <1>1, <1>2, <1>3, <1>4, <1>5, <1>6, <1>7, <1>8, <1>9, <1>10, <1>11,
     <1>12, <1>13, <1>14
     DEF Next, Begin, Continue, Invalidate, Submit, Work, Freed

\* A disabled filter gains a matte only from a frame that was not yet disowned.
LEMMA StoppedIsEmptyStep == IndInv /\ TypeOK' /\ [Next]_vars => StoppedIsEmpty'
<1> SUFFICES ASSUME IndInv, TypeOK', [Next]_vars PROVE StoppedIsEmpty'
  OBVIOUS
<1> USE NoneAssumption
    DEF IndInv, StoppedIsEmpty, Stopped, Mattes, Withdrawing, Updating,
              outputs, TypeOK, TypeControl,
        control, flags, engine, queue, graphics, worker
<1>1. ASSUME NEW c \in Callers, Create(c) PROVE StoppedIsEmpty'
  BY <1>1 DEF Create, EnterUpdate, Enter, GoTo
<1>2. ASSUME NEW c \in Callers, Update(c) PROVE StoppedIsEmpty'
  BY <1>2 DEF Update, EnterUpdate, Enter, GoTo
<1>3. ASSUME NEW c \in Callers, Deactivate(c) PROVE StoppedIsEmpty'
  BY <1>3 DEF Deactivate, Enter, GoTo
<1>4. ASSUME NEW c \in Callers, Destroy(c) PROVE StoppedIsEmpty'
  BY <1>4 DEF Destroy, Enter, GoTo
<1>5. ASSUME NEW c \in Callers, ReleaseOutputs(c) PROVE StoppedIsEmpty'
  BY <1>5 DEF ReleaseOutputs, ReleaseMats, GoTo
<1>6. ASSUME NEW c \in Callers, InitModel(c) PROVE StoppedIsEmpty'
  <2>1. /\ UNCHANGED <<op, outputs>>
        /\ stage[c] = "model" /\ op[c] \in {"create", "update"}
    BY <1>6 DEF InitModel, LifeCycle
  <2> QED
    BY <1>6, <2>1, InitModelCases
<1>7. ASSUME NEW c \in Callers,
            \/ Activate(c) \/ BumpGeneration(c) \/ ReleasePending(c)
            \/ ReleaseLastImage(c) \/ InvalidateDone(c)
            \/ StoreSettings(c) \/ Enable(c) \/ ResetModelState(c)
            \/ StartWorker(c) \/ RequestStop(c) \/ NotifyStop(c)
            \/ JoinAndFree(c)
     PROVE  StoppedIsEmpty'
  BY <1>7, ZenonT(60) DEF Activate, Enter, GoTo, BumpGeneration, ReleasePending,
          ReleaseLastImage, InvalidateDone, AfterInvalidate, Notify,
          StoreSettings, StoreMattingMode, ApplySettings, StoreNativeAlpha,
          WantsNativeAlpha, Enable, Return, ResetModelState,
          ResetRecurrentState, StartWorker, RequestStop, NotifyStop,
          JoinAndFree
<1>8. CASE RenderAlpha
  BY <1>8 DEF RenderAlpha, Flip
<1>9. CASE \/ (\E image \in Images : TickBegin(image)) \/ PushFrame
          \/ NotifyWorker
  BY <1>9 DEF TickBegin, PushFrame, QueueAfterPush, PushedFrame,
          NotifyWorker, Notify
<1>10. CASE FallBackToCpu
  <2>1. UNCHANGED <<op, stage, outputs, model>>
    BY <1>10 DEF FallBackToCpu, control
  <2> QED
    BY <1>10, <2>1, FallBackCases DEF EngineConsistent, TypeThreads, TypeEngine, Devices
<1>11. CASE PublishAlpha
  BY <1>11 DEF PublishAlpha, Current, StoppedWorksInVain, Disowning, TypeThreads,
              control, flags, engine
<1>12. CASE PublishMask
  BY <1>12 DEF PublishMask, Current, StoppedWorksInVain, Disowning, TypeThreads,
              control, flags, engine
<1>13. CASE \/ WorkerExit \/ WorkerSleep \/ TakeFrame \/ CheckFrame
          \/ ReadNativeAlpha \/ CheckSimilarity \/ EnterInference
          \/ InferenceDone \/ InferenceFailed \/ InferenceThrew
          \/ CheckResult \/ ReadPreviousMask \/ SpuriousWakeup
  BY <1>13 DEF WorkerExit, WorkerSleep, TakeFrame, LeftPending, CheckFrame,
          NextIteration, Refused, ReadNativeAlpha, CheckSimilarity,
          EnterInference, CannotRun, InferenceDone, InferenceFailed,
          InferenceThrew, CheckResult, ReadPreviousMask, SpuriousWakeup
<1>14. CASE UNCHANGED vars
  BY <1>14 DEF vars
<1> HIDE DEF IndInv, StoppedIsEmpty, Stopped, Mattes, Withdrawing, Updating,
              outputs, TypeOK, TypeControl,
         control, flags, engine, queue, graphics, worker
<1>15. QED
  BY <1>1, <1>2, <1>3, <1>4, <1>5, <1>6, <1>7, <1>8, <1>9, <1>10, <1>11,
     <1>12, <1>13, <1>14
     DEF Next, Begin, Continue, Invalidate, Submit, Work, Freed

\* The worker checks isDisabled after it took its frame, and the callback that
\* disables the filter disowns what was checked before.
LEMMA StoppedWorksInVainStep == IndInv /\ TypeOK' /\ [Next]_vars => StoppedWorksInVain'
<1> SUFFICES ASSUME IndInv, TypeOK', [Next]_vars PROVE StoppedWorksInVain'
  OBVIOUS
<1> USE NoneAssumption
    DEF IndInv, StoppedWorksInVain, Stopped, Disowning, Withdrawing, Updating, Current,
              TypeOK, TypeControl, TypeThreads,
        control, flags, engine, queue, graphics, worker
<1>1. ASSUME NEW c \in Callers, Create(c) PROVE StoppedWorksInVain'
  BY <1>1 DEF Create, EnterUpdate, Enter, GoTo
<1>2. ASSUME NEW c \in Callers, Update(c) PROVE StoppedWorksInVain'
  BY <1>2 DEF Update, EnterUpdate, Enter, GoTo
<1>3. ASSUME NEW c \in Callers, Deactivate(c) PROVE StoppedWorksInVain'
  BY <1>3 DEF Deactivate, Enter, GoTo
<1>4. ASSUME NEW c \in Callers, Destroy(c) PROVE StoppedWorksInVain'
  BY <1>4 DEF Destroy, Enter, GoTo
<1>5. ASSUME NEW c \in Callers, BumpGeneration(c) PROVE StoppedWorksInVain'
  BY <1>5 DEF BumpGeneration, GoTo, TagsFromThePast, TypeQueue, Job, worker, flags, engine
<1>6. ASSUME NEW c \in Callers, InitModel(c) PROVE StoppedWorksInVain'
  <2>1. /\ UNCHANGED <<op, worker, inferenceGeneration>>
        /\ stage[c] = "model" /\ op[c] \in {"create", "update"}
    BY <1>6 DEF InitModel, LifeCycle
  <2> QED
    BY <1>6, <2>1, InitModelCases DEF worker
<1>7. ASSUME NEW c \in Callers,
            \/ Activate(c) \/ ReleasePending(c) \/ ReleaseOutputs(c)
            \/ ReleaseLastImage(c) \/ InvalidateDone(c)
            \/ StoreSettings(c) \/ Enable(c) \/ ResetModelState(c)
            \/ StartWorker(c) \/ RequestStop(c) \/ NotifyStop(c)
            \/ JoinAndFree(c)
     PROVE  StoppedWorksInVain'
  BY <1>7, ZenonT(60) DEF Activate, Enter, GoTo, ReleasePending, ReleaseOutputs,
          ReleaseMats, ReleaseLastImage, InvalidateDone, AfterInvalidate,
          Notify, StoreSettings, StoreMattingMode, ApplySettings, StoreNativeAlpha,
          WantsNativeAlpha, Enable, Return,
          ResetModelState, ResetRecurrentState, StartWorker, RequestStop,
          NotifyStop, JoinAndFree
<1>8. CASE \/ (\E image \in Images : TickBegin(image)) \/ PushFrame
          \/ NotifyWorker \/ RenderAlpha
  BY <1>8 DEF TickBegin, PushFrame, QueueAfterPush, PushedFrame,
          NotifyWorker, Notify, RenderAlpha, Flip
<1>9. CASE TakeFrame
  BY <1>9 DEF TakeFrame, LeftPending
<1>10. CASE CheckFrame
  BY <1>10 DEF CheckFrame, NextIteration, Refused
<1>11. CASE ReadNativeAlpha
  BY <1>11 DEF ReadNativeAlpha
<1>12. CASE InferenceDone
  BY <1>12 DEF InferenceDone
<1>13. CASE FallBackToCpu
  BY <1>13 DEF FallBackToCpu, NextIteration
<1>14. CASE ReadPreviousMask
  BY <1>14 DEF ReadPreviousMask, NextIteration
<1>15. CASE \/ WorkerExit \/ WorkerSleep \/ CheckSimilarity
          \/ EnterInference \/ InferenceFailed \/ InferenceThrew
          \/ CheckResult \/ PublishAlpha \/ PublishMask
          \/ SpuriousWakeup
  BY <1>15 DEF WorkerExit, WorkerSleep, CheckSimilarity, NextIteration,
          EnterInference, CannotRun, InferenceFailed, InferenceThrew,
          CheckResult, PublishAlpha, NewMatte, Blended, PublishMask,
          SpuriousWakeup
<1>16. CASE UNCHANGED vars
  BY <1>16 DEF vars
<1> HIDE DEF IndInv, StoppedWorksInVain, Stopped, Disowning, Withdrawing, Updating, Current,
              TypeOK, TypeControl, TypeThreads,
         control, flags, engine, queue, graphics, worker
<1>17. QED
  BY <1>1, <1>2, <1>3, <1>4, <1>5, <1>6, <1>7, <1>8, <1>9, <1>10, <1>11,
     <1>12, <1>13, <1>14, <1>15, <1>16
     DEF Next, Begin, Continue, Invalidate, Submit, Work, Freed

\* The worker goes to sleep only with nothing to do, and who leaves it something
\* notifies it afterwards.
LEMMA NoLostWakeupStep == TypeOK /\ NoLostWakeup /\ [Next]_vars => NoLostWakeup'
<1> SUFFICES ASSUME TypeOK, NoLostWakeup, [Next]_vars PROVE NoLostWakeup'
  OBVIOUS
<1> USE DEF NoLostWakeup, queue, graphics, worker
<1>1. ASSUME NEW c \in Callers, InvalidateDone(c) \/ NotifyStop(c) PROVE NoLostWakeup'
  BY <1>1 DEF InvalidateDone, NotifyStop, Notify
<1>2. ASSUME NEW c \in Callers, RequestStop(c) PROVE NoLostWakeup'
  BY <1>2 DEF RequestStop, GoTo, TypeOK, TypeControl
<1>3. ASSUME NEW c \in Callers, ReleasePending(c) \/ StartWorker(c) PROVE NoLostWakeup'
  <2>1. CASE StartWorker(c)
    BY <2>1 DEF StartWorker
  <2>2. CASE ReleasePending(c)
    BY <2>2 DEF ReleasePending, GoTo, TypeOK, TypeControl
  <2> QED
    BY <1>3, <2>1, <2>2
<1>4. ASSUME NEW c \in Callers, Begin(c)
      PROVE  NoLostWakeup'
  <2>1. /\ UNCHANGED <<queue, graphics, worker>>
        /\ \A d \in Callers : stage[d] = "stopNotify" => stage'[d] = "stopNotify"
    BY <1>4 DEF Begin, Create, Update, EnterUpdate, Activate, Deactivate, Destroy, MayEnter,
       Quiet, Enter, GoTo, TypeOK, TypeControl
  <2> QED
    BY <2>1
<1>5. ASSUME NEW c \in Callers,
             \/ BumpGeneration(c) \/ ReleaseOutputs(c) \/ ReleaseLastImage(c) \/ StoreSettings(c)
             \/ InitModel(c) \/ Enable(c) \/ ResetModelState(c) \/ JoinAndFree(c)
      PROVE  NoLostWakeup'
  <2>1. /\ UNCHANGED <<queue, graphics, worker>>
        /\ \A d \in Callers : stage[d] = "stopNotify" => stage'[d] = "stopNotify"
    BY <1>5 DEF BumpGeneration, ReleaseOutputs, ReleaseLastImage, StoreSettings,
                StoreMattingMode, ApplySettings, StoreNativeAlpha, InitModel,
       Enable, ResetModelState, JoinAndFree, Return, GoTo, TypeOK, TypeControl
  <2> QED
    BY <2>1
<1>6. CASE (\E image \in Images : TickBegin(image)) \/ PushFrame \/ NotifyWorker \/ RenderAlpha
  BY <1>6 DEF TickBegin, PushFrame, NotifyWorker, Notify, RenderAlpha, control
<1>7. CASE WorkerSleep
  BY <1>7 DEF WorkerSleep, control
<1>8. CASE \/ WorkerExit \/ TakeFrame \/ CheckFrame \/ ReadNativeAlpha \/ CheckSimilarity
           \/ EnterInference \/ InferenceDone \/ InferenceFailed \/ InferenceThrew
           \/ FallBackToCpu \/ CheckResult \/ PublishAlpha \/ ReadPreviousMask \/ PublishMask
           \/ SpuriousWakeup
  <2>1. wstage' # "asleep"
    BY <1>8 DEF WorkerExit, TakeFrame, CheckFrame, NextIteration, ReadNativeAlpha,
       CheckSimilarity, EnterInference, InferenceDone, InferenceFailed, InferenceThrew,
       FallBackToCpu, CheckResult, PublishAlpha, ReadPreviousMask, PublishMask, SpuriousWakeup
  <2> QED
    BY <2>1
<1>9. CASE UNCHANGED vars
  BY <1>9 DEF vars, control
<1> HIDE DEF NoLostWakeup
<1> QED
  BY <1>1, <1>2, <1>3, <1>4, <1>5, <1>6, <1>7, <1>8, <1>9
  DEF Next, Continue, Invalidate, Submit, Work, Freed

\* Callbacks end with destroy, and only it stops the worker.
LEMMA StopComesLastStep == IndInv /\ [Next]_vars => StopComesLast'
<1> SUFFICES ASSUME IndInv, [Next]_vars PROVE StopComesLast'
  OBVIOUS
<1> USE DEF StopComesLast, IndInv, TypeOK, TypeControl, queue, control
<1>1. ASSUME NEW c \in Callers, Create(c) PROVE StopComesLast'
  BY <1>1 DEF Create, EnterUpdate, Enter, GoTo, LifeCycle
<1>2. ASSUME NEW c \in Callers, Update(c) \/ Activate(c) \/ Deactivate(c) PROVE StopComesLast'
  BY <1>2 DEF Update, EnterUpdate, Activate, Deactivate, Enter, GoTo
<1>3. ASSUME NEW c \in Callers, Destroy(c) PROVE StopComesLast'
  BY <1>3 DEF Destroy, Enter
<1>4. ASSUME NEW c \in Callers, StartWorker(c) PROVE StopComesLast'
  BY <1>4 DEF StartWorker, GoTo, LifeCycle
<1>5. ASSUME NEW c \in Callers, JoinAndFree(c) PROVE StopComesLast'
  BY <1>5 DEF JoinAndFree
<1>6. ASSUME NEW c \in Callers, InvalidateDone(c) PROVE StopComesLast'
  BY <1>6 DEF InvalidateDone, AfterInvalidate, GoTo
<1>7. ASSUME NEW c \in Callers, RequestStop(c) \/ NotifyStop(c) PROVE StopComesLast'
  BY <1>7 DEF RequestStop, NotifyStop, GoTo
<1>8. ASSUME NEW c \in Callers,
             \/ BumpGeneration(c) \/ ReleasePending(c) \/ ReleaseOutputs(c)
             \/ ReleaseLastImage(c) \/ StoreSettings(c) \/ InitModel(c) \/ Enable(c)
             \/ ResetModelState(c)
      PROVE  StopComesLast'
  <2>1. /\ UNCHANGED <<phase, op, stopInferenceWorker>>
        /\ stage'[c] \notin {"stop", "stopNotify", "join"} /\ stage[c] # "idle"
        /\ \A d \in Callers \ {c} : stage'[d] = stage[d]
    BY <1>8 DEF BumpGeneration, ReleasePending, ReleaseOutputs, ReleaseLastImage,
       StoreSettings, StoreMattingMode, ApplySettings, StoreNativeAlpha, InitModel, Enable,
       ResetModelState, Return, GoTo
  <2> QED
    BY <2>1
<1>9. CASE \/ (\E image \in Images : TickBegin(image)) \/ Submit \/ RenderAlpha \/ Work
           \/ SpuriousWakeup \/ UNCHANGED vars
  <2>1. UNCHANGED <<phase, stage, op, stopInferenceWorker>>
    BY <1>9 DEF TickBegin, Submit, PushFrame, NotifyWorker, RenderAlpha, Work, WorkerExit,
       WorkerSleep, TakeFrame, CheckFrame, ReadNativeAlpha, CheckSimilarity, EnterInference,
       InferenceDone, InferenceFailed, InferenceThrew, FallBackToCpu, CheckResult,
       PublishAlpha, ReadPreviousMask, PublishMask, SpuriousWakeup, vars
  <2> QED
    BY <2>1
<1> HIDE DEF StopComesLast, IndInv, TypeOK, TypeControl, queue, control
<1> QED
  BY <1>1, <1>2, <1>3, <1>4, <1>5, <1>6, <1>7, <1>8, <1>9
  DEF Next, Begin, Continue, Invalidate, Freed

-----------------------------------------------------------------------------
(* The theorems. *)

\* Initially there is no frame, no matte, no model and no thread.
LEMMA InitInvariant == Init => IndInv
<1> SUFFICES ASSUME Init PROVE IndInv
  OBVIOUS
<1> USE NoneAssumption DEF Init, Mattes
<1>1. TypeOK
  <2>1. TypeControl
    <3>1. request \in [Callers -> Setting]
      BY SettingsAssumption
    <3> QED
      BY <3>1 DEF TypeControl, Stages, Ops
  <2>2. TypeFlags
    <3>1. maskEveryXFramesCount \in 0 .. Every - 1
      BY BoundsAssumption
    <3> QED
      BY <3>1 DEF TypeFlags
  <2> QED
    BY <2>1, <2>2 DEF TypeOK, TypeEngine, TypeQueue, TypeOutputs, TypeThreads,
                      WorkerStages, Kinds, Devices
<1>2. LifeCycle /\ TagsFromThePast /\ FramesInOrder
  BY DEF LifeCycle, TagsFromThePast, FramesInOrder
<1>3. EngineConsistent /\ NoStaleMatte
  BY DEF EngineConsistent, NoStaleMatte, Devices
<1>4. StoppedIsEmpty /\ StoppedWorksInVain
  BY DEF StoppedIsEmpty, StoppedWorksInVain, Stopped
<1>5. StopComesLast /\ NoLostWakeup
  BY DEF StopComesLast, NoLostWakeup
<1> QED
  BY <1>1, <1>2, <1>3, <1>4, <1>5 DEF IndInv

\* IndInv is preserved by every step.
LEMMA IndInvStep == IndInv /\ [Next]_vars => IndInv'
<1> SUFFICES ASSUME IndInv, [Next]_vars PROVE IndInv'
  OBVIOUS
<1>1. TypeOK'
  BY TypeStep DEF IndInv
<1> QED
  BY <1>1, LifeCycleStep, TagsFromThePastStep, FramesInOrderStep,
     EngineConsistentStep, NoStaleMatteStep, StoppedIsEmptyStep,
     StoppedWorksInVainStep, StopComesLastStep, NoLostWakeupStep DEF IndInv

\* The inductive invariant holds in every reachable state of the pipeline.
THEOREM InvariantHolds == Spec => []IndInv
<1> QED
  BY InitInvariant, IndInvStep, PTL DEF Spec

\* Every variable keeps the values the code can give it: the worker always holds
\* the frame, the model and the output that its next step uses.
THEOREM TypeCorrect == Spec => []TypeOK
<1>1. IndInv => TypeOK
  BY DEF IndInv
<1> QED
  BY <1>1, InvariantHolds, PTL

\* No matte of an earlier generation survives the invalidation that ended it, and
\* none is published after it, whatever inference was running at the time.
THEOREM NeverStale == Spec => []NoStaleMatte
<1>1. IndInv => NoStaleMatte
  BY DEF IndInv
<1> QED
  BY <1>1, InvariantHolds, PTL

\* A filter that update, deactivate or destroy disabled has no matte to show once
\* the callback has returned, although the worker may still be at work.
THEOREM DisabledIsEmpty == Spec => []DisabledHasNoMatte
<1>1. IndInv => DisabledHasNoMatte
  BY DEF IndInv, DisabledHasNoMatte, StoppedIsEmpty, Stopped, Quiet,
         Withdrawing, Updating
<1> QED
  BY <1>1, InvariantHolds, PTL

\* The worker never replaces a matte by that of an earlier frame or the same one.
THEOREM NeverBackwards == Spec => []MattesAdvance
<1>1. IndInv => MattesAdvance
  <2> SUFFICES ASSUME IndInv PROVE MattesAdvance
    OBVIOUS
  <2> USE NoneAssumption DEF IndInv, TypeOK, TypeThreads, TypeOutputs,
          FramesInOrder, Mattes, Overtakes, Job, Frame, Matte
  <2> QED
    BY DEF MattesAdvance
<1> QED
  BY <1>1, InvariantHolds, PTL

\* No wakeup is lost: neither a frame nor a stop is left to a worker that sleeps on.
THEOREM WorkerIsWoken == Spec => []NoLostWakeup
<1>1. IndInv => NoLostWakeup
  BY DEF IndInv
<1> QED
  BY <1>1, InvariantHolds, PTL

\* Whatever the worker is at when it is told to stop, each of its steps leads on to its
\* end: it neither sleeps again nor takes another frame.
LEMMA HeedsStop ==
  ASSUME TypeOK, LifeCycle, StopComesLast, [Next]_vars, stopInferenceWorker
  PROVE  UNCHANGED worker \/ StepsToExit[wstage'] < StepsToExit[wstage]
<1> USE DEF StepsToExit, worker
<1>1. ASSUME NEW c \in Callers, StartWorker(c) PROVE FALSE
  BY <1>1 DEF StartWorker, LifeCycle, StopComesLast
<1>2. ASSUME NEW c \in Callers, InvalidateDone(c) \/ NotifyStop(c)
      PROVE  UNCHANGED worker \/ StepsToExit[wstage'] < StepsToExit[wstage]
  BY <1>2 DEF InvalidateDone, NotifyStop, Notify
<1>3. ASSUME NEW c \in Callers,
             \/ Begin(c) \/ BumpGeneration(c) \/ ReleasePending(c) \/ ReleaseOutputs(c)
             \/ ReleaseLastImage(c) \/ StoreSettings(c) \/ InitModel(c) \/ Enable(c)
             \/ ResetModelState(c) \/ RequestStop(c) \/ JoinAndFree(c)
      PROVE  UNCHANGED worker
  BY <1>3 DEF Begin, Create, Update, Activate, Deactivate, Destroy, BumpGeneration,
     ReleasePending, ReleaseOutputs, ReleaseLastImage, StoreSettings, StoreMattingMode,
     ApplySettings, StoreNativeAlpha, InitModel, Enable,
     ResetModelState, RequestStop, JoinAndFree
<1>4. CASE (\E image \in Images : TickBegin(image)) \/ PushFrame \/ RenderAlpha \/ UNCHANGED vars
  BY <1>4 DEF TickBegin, PushFrame, RenderAlpha, vars
<1>5. CASE NotifyWorker
  BY <1>5 DEF NotifyWorker, Notify
<1>6. CASE WorkerExit \/ SpuriousWakeup \/ FallBackToCpu \/ PublishAlpha \/ PublishMask
  BY <1>6 DEF WorkerExit, SpuriousWakeup, FallBackToCpu, PublishAlpha, PublishMask, NextIteration
<1>7. CASE WorkerSleep \/ TakeFrame
  BY <1>7 DEF WorkerSleep, TakeFrame
<1>8. CASE CheckFrame \/ CheckResult \/ ReadPreviousMask
  BY <1>8 DEF CheckFrame, CheckResult, ReadPreviousMask, NextIteration
<1>9. CASE ReadNativeAlpha \/ CheckSimilarity \/ EnterInference
  BY <1>9 DEF ReadNativeAlpha, CheckSimilarity, EnterInference, NextIteration
<1>10. CASE InferenceDone \/ InferenceFailed \/ InferenceThrew
  BY <1>10 DEF InferenceDone, InferenceFailed, InferenceThrew, NextIteration
<1> HIDE DEF StepsToExit, worker
<1> QED
  BY <1>1, <1>2, <1>3, <1>4, <1>5, <1>6, <1>7, <1>8, <1>9, <1>10
  DEF Next, Continue, Invalidate, Submit, Work, Freed

\* Once it is told to stop the worker takes nine steps at most.
THEOREM StopIsHeeded == Spec => WorkerHeedsStop
<1>1. IndInv /\ [Next]_vars =>
        [stopInferenceWorker =>
           UNCHANGED worker \/ StepsToExit[wstage'] < StepsToExit[wstage]]_vars
  BY HeedsStop DEF IndInv
<1> QED
  BY <1>1, InvariantHolds, PTL DEF Spec, WorkerHeedsStop

-----------------------------------------------------------------------------
(* The pipeline implements LatestMatte. *)

\* A new pipeline shows nothing and has nothing to do.
LEMMA InitImplements == Init => Promise!Init
BY NoneAssumption DEF Init, Promise!Init, WaitingNumber, InHandNumber, ShownNumber, Number

\* Every step is a step of LatestMatte or none: the generation's increment is the
\* new epoch, the publication of a matte of that generation is Show, and a
\* publication that finds its generation gone changes nothing.
LEMMA StepImplements ==
  IndInv /\ IndInv' /\ [Next]_vars => [Promise!Next]_(Promise!vars)
<1> SUFFICES ASSUME IndInv, IndInv', [Next]_vars
             PROVE  Promise!Next \/ UNCHANGED Promise!vars
  BY DEF Promise!vars
<1> USE NoneAssumption
    DEF Promise!Next, Promise!vars, WaitingNumber, InHandNumber, ShownNumber,
        Number, Current, IndInv, TypeOK, TypeQueue, TypeOutputs, TypeThreads,
        Mattes, Frame, Matte, Job
<1>1. ASSUME NEW c \in Callers, BumpGeneration(c) PROVE Promise!NewEpoch
  BY <1>1 DEF BumpGeneration, TagsFromThePast, Promise!NewEpoch, queue, outputs, worker
<1>2. ASSUME NEW c \in Callers, ReleasePending(c) \/ RequestStop(c) PROVE Promise!Withdraw
  BY <1>2 DEF ReleasePending, RequestStop, Promise!Withdraw, queue, outputs, worker
<1>3. ASSUME NEW c \in Callers, ReleaseOutputs(c) PROVE Promise!Withdraw
  BY <1>3 DEF ReleaseOutputs, ReleaseMats, Promise!Withdraw, queue, worker
<1>4. CASE PushFrame
  BY <1>4 DEF PushFrame, QueueAfterPush, PushedFrame, Promise!Offer, outputs, worker
<1>5. CASE RenderAlpha
  <2>1. UNCHANGED <<backgroundMask, inferenceGeneration, queue, worker>>
    BY <1>5 DEF RenderAlpha
  <2>2. backgroundAlpha \in Matte /\ backgroundAlpha' \in Matte
    BY <1>5 DEF RenderAlpha, Flip
  <2>3. /\ backgroundAlpha'.number = backgroundAlpha.number
        /\ backgroundAlpha'.generation = backgroundAlpha.generation
    BY <1>5, <2>2 DEF RenderAlpha
  <2> QED
    BY <2>1, <2>2, <2>3 DEF queue, worker
<1>6. CASE TakeFrame
  BY <1>6 DEF TakeFrame, LeftPending, Promise!Take, outputs, queue
<1>7. CASE PublishAlpha
  <2>1. /\ UNCHANGED <<inferenceGeneration, queue>>
        /\ job' = None /\ InHandNumber' = 0 /\ WaitingNumber' = WaitingNumber
    BY <1>7 DEF PublishAlpha, NextIteration, queue
  <2>2. CASE Current
    <3>1. ShownNumber' = job.frame.number /\ InHandNumber = job.frame.number
      BY <1>7, <2>1, <2>2, NewMatteType DEF PublishAlpha
    <3>2. job.frame.number > ShownNumber
      BY <1>7, <2>2 DEF PublishAlpha, FramesInOrder
    <3> QED
      BY <2>1, <3>1, <3>2 DEF Promise!Show, queue
  <2>3. CASE ~Current
    BY <1>7, <2>1, <2>3 DEF PublishAlpha, queue
  <2> QED
    BY <2>2, <2>3
<1>8. CASE PublishMask
  <2>1. /\ UNCHANGED <<inferenceGeneration, queue>>
        /\ job' = None /\ InHandNumber' = 0 /\ WaitingNumber' = WaitingNumber
    BY <1>8 DEF PublishMask, NextIteration, queue
  <2>2. CASE Current
    <3>1. /\ backgroundMask' # None /\ UNCHANGED backgroundAlpha
          /\ Number(backgroundMask)' = job.frame.number
          /\ InHandNumber = job.frame.number
      BY <1>8, <2>1, <2>2, NewMatteType DEF PublishMask
    <3>2. job.frame.number > ShownNumber /\ job.frame.number > Number(backgroundAlpha)
      BY <1>8, <2>2 DEF PublishMask, FramesInOrder
    <3>3. ShownNumber' = job.frame.number
      BY <3>1, <3>2, <2>1
    <3> QED
      BY <2>1, <3>1, <3>2, <3>3 DEF Promise!Show, queue
  <2>3. CASE ~Current
    BY <1>8, <2>1, <2>3 DEF PublishMask, queue
  <2> QED
    BY <2>2, <2>3
<1>9. CASE WorkerExit \/ WorkerSleep \/ SpuriousWakeup \/ InferenceThrew
  BY <1>9 DEF WorkerExit, WorkerSleep, SpuriousWakeup, InferenceThrew,
              queue, outputs, worker
<1>10. CASE \/ CheckFrame \/ CheckSimilarity \/ EnterInference
            \/ InferenceFailed \/ FallBackToCpu \/ CheckResult
  BY <1>10 DEF CheckFrame, CheckSimilarity, EnterInference, InferenceFailed,
               FallBackToCpu, CheckResult, NextIteration, Promise!Abandon,
               queue, outputs, worker
<1>11. CASE ReadNativeAlpha \/ InferenceDone \/ ReadPreviousMask
  BY <1>11 DEF ReadNativeAlpha, InferenceDone, ReadPreviousMask, NextIteration,
               Promise!Abandon, queue, outputs, worker
<1>12. ASSUME NEW c \in Callers,
             \/ Create(c) \/ Update(c) \/ Activate(c) \/ Deactivate(c)
             \/ Destroy(c) \/ ReleaseLastImage(c) \/ InvalidateDone(c)
             \/ StoreSettings(c) \/ InitModel(c) \/ Enable(c)
             \/ ResetModelState(c) \/ StartWorker(c) \/ NotifyStop(c)
             \/ JoinAndFree(c)
       PROVE  UNCHANGED <<inferenceGeneration, pendingInferenceFrame,
                          pendingInferenceGeneration, submittedFrames, outputs, job>>
  BY <1>12 DEF Create, Update, Activate, Deactivate, Destroy, ReleaseLastImage,
               InvalidateDone, StoreSettings, StoreMattingMode, ApplySettings,
               StoreNativeAlpha, InitModel, Enable, ResetModelState,
               StartWorker, NotifyStop, JoinAndFree, queue, worker
<1>13. CASE (\E image \in Images : TickBegin(image)) \/ NotifyWorker \/ Freed
  BY <1>13 DEF TickBegin, NotifyWorker, Freed, vars, queue, outputs, worker
<1>14. CASE UNCHANGED vars
  BY <1>14 DEF vars, queue, outputs, worker
<1>15. UNCHANGED <<inferenceGeneration, pendingInferenceFrame,
                   pendingInferenceGeneration, submittedFrames, outputs, job>>
         => UNCHANGED Promise!vars
  BY DEF outputs
<1> HIDE DEF Promise!vars, WaitingNumber, InHandNumber, ShownNumber, Number,
         IndInv, TypeOK, TypeQueue, TypeOutputs, TypeThreads, Mattes,
         Frame, Matte, Job, Current
<1> QED
  BY <1>1, <1>2, <1>3, <1>4, <1>5, <1>6, <1>7, <1>8, <1>9, <1>10, <1>11,
     <1>12, <1>13, <1>14, <1>15
     DEF Next, Begin, Continue, Invalidate, Submit, Work

\* With all its threads, locks and late releases, the pipeline shows the newest
\* finished frame of the settings in force, and never one of earlier settings.
THEOREM PipelineImplementsLatestMatte == Spec => ImplementsLatestMatte
<1>1. IndInv /\ IndInv' /\ [Next]_vars => [Promise!Next]_(Promise!vars)
  BY StepImplements
<1> QED
  BY <1>1, InitImplements, InvariantHolds, PTL
     DEF Spec, ImplementsLatestMatte, Promise!Spec

-----------------------------------------------------------------------------
(* Callbacks one after another. *)

\* Who enables the filter is the only callback then, so nobody else's is undone.
LEMMA StaysDisabledStep ==
  IndInv /\ SerialInv /\ OneAtATime /\ OneAtATime' /\ TypeOK' /\ [Next]_vars => StaysDisabled'
<1> SUFFICES ASSUME IndInv, SerialInv, OneAtATime, OneAtATime', TypeOK', [Next]_vars
             PROVE  StaysDisabled'
  OBVIOUS
<1> USE NoneAssumption
    DEF IndInv, SerialInv, OneAtATime, StaysDisabled, Disabling, TypeOK, TypeControl, Ops,
        control, flags, engine, queue, graphics, worker
<1>1. ASSUME NEW c \in Callers, Create(c) \/ Update(c) \/ Destroy(c)
      PROVE  StaysDisabled'
  BY <1>1 DEF Create, Update, Destroy, EnterUpdate, Enter, GoTo
<1>2. ASSUME NEW c \in Callers, Activate(c) PROVE StaysDisabled'
  BY <1>2 DEF Activate, Enter, GoTo
<1>3. ASSUME NEW c \in Callers, Deactivate(c) PROVE StaysDisabled'
  BY <1>3 DEF Deactivate, Enter, GoTo
<1>4. ASSUME NEW c \in Callers, InvalidateDone(c) PROVE StaysDisabled'
  BY <1>4 DEF InvalidateDone, AfterInvalidate, GoTo
<1>5. ASSUME NEW c \in Callers, InitModel(c) PROVE StaysDisabled'
  <2>1. /\ stage[c] = "model" /\ op[c] \in {"create", "update"} /\ UNCHANGED op
        /\ \/ stage' = [stage EXCEPT ![c] = "enable"]
           \/ stage' = [stage EXCEPT ![c] = "start"]
           \/ stage' = [stage EXCEPT ![c] = "idle"]
    BY <1>5 DEF InitModel, Return, GoTo, LifeCycle
  <2>2. isDisabled /\ isDisabled'
    BY <1>5, <2>1, InitModelCases DEF SessionOn
  <2> QED
    BY <2>1, <2>2
<1>6. ASSUME NEW c \in Callers, Enable(c) PROVE StaysDisabled'
  BY <1>6 DEF Enable, Return, GoTo, LifeCycle
<1>7. ASSUME NEW c \in Callers,
             \/ BumpGeneration(c) \/ ReleasePending(c) \/ ReleaseOutputs(c)
             \/ ReleaseLastImage(c) \/ StoreSettings(c) \/ ResetModelState(c)
             \/ StartWorker(c) \/ RequestStop(c) \/ NotifyStop(c) \/ JoinAndFree(c)
      PROVE  StaysDisabled'
  BY <1>7 DEF BumpGeneration, ReleasePending, ReleaseOutputs, ReleaseLastImage,
              StoreSettings, StoreMattingMode, ApplySettings, StoreNativeAlpha,
              ResetModelState, StartWorker, RequestStop, NotifyStop,
              JoinAndFree, GoTo
<1>8. CASE FallBackToCpu
  <2>1. UNCHANGED <<stage, op>> /\ (isDisabled => isDisabled')
    BY <1>8 DEF FallBackToCpu
  <2> QED
    BY <2>1
<1>9. CASE UNCHANGED <<stage, op, isDisabled>>
  BY <1>9
<1>10. CASE \/ \E image \in Images : TickBegin(image)
            \/ Submit \/ RenderAlpha \/ SpuriousWakeup \/ Freed
  BY <1>10, <1>9 DEF TickBegin, Submit, PushFrame, NotifyWorker, RenderAlpha,
                     SpuriousWakeup, Freed, vars
<1>11. CASE Work /\ ~FallBackToCpu
  BY <1>11, <1>9 DEF Work, WorkerExit, WorkerSleep, TakeFrame, CheckFrame,
          ReadNativeAlpha, CheckSimilarity, EnterInference, InferenceDone,
          InferenceFailed, InferenceThrew, CheckResult, PublishAlpha,
          ReadPreviousMask, PublishMask
<1>12. CASE UNCHANGED vars
  BY <1>12, <1>9 DEF vars
<1> HIDE DEF IndInv, SerialInv, OneAtATime, StaysDisabled, Disabling, TypeOK, TypeControl,
        Ops, control, flags, engine, queue, graphics, worker
<1> QED
  BY <1>1, <1>2, <1>3, <1>4, <1>5, <1>6, <1>7, <1>8, <1>10, <1>11, <1>12
     DEF Next, Begin, Continue, Invalidate

\* The frames of before are outdated from the increment of the generation on; a new
\* one cannot get past the worker's test of isDisabled.
LEMMA ModelIsIdleStep ==
  IndInv /\ SerialInv /\ OneAtATime /\ OneAtATime' /\ TypeOK' /\ [Next]_vars => ModelIsIdle'
<1> SUFFICES ASSUME IndInv, SerialInv, OneAtATime, OneAtATime', TypeOK', [Next]_vars
             PROVE  ModelIsIdle'
  OBVIOUS
<1> USE NoneAssumption
    DEF IndInv, SerialInv, OneAtATime, ModelIsIdle, Disowned, StaysDisabled, Disabling,
        Current, Mattes, TypeOK, TypeControl, TypeThreads, Ops,
        control, flags, engine, queue, outputs, graphics, worker
<1>1. ASSUME NEW c \in Callers, Create(c) \/ Update(c) \/ Destroy(c)
      PROVE  ModelIsIdle'
  BY <1>1 DEF Create, Update, Destroy, EnterUpdate, Enter, GoTo
<1>2. ASSUME NEW c \in Callers, Activate(c) \/ Deactivate(c) PROVE ModelIsIdle'
  BY <1>2 DEF Activate, Deactivate, Enter, GoTo
<1>3. ASSUME NEW c \in Callers, BumpGeneration(c) PROVE ModelIsIdle'
  BY <1>3 DEF BumpGeneration, GoTo, TagsFromThePast, TypeQueue, Job
<1>4. ASSUME NEW c \in Callers, ReleaseOutputs(c) PROVE ModelIsIdle'
  BY <1>4 DEF ReleaseOutputs, ReleaseMats, GoTo
<1>5. ASSUME NEW c \in Callers, InvalidateDone(c) PROVE ModelIsIdle'
  BY <1>5 DEF InvalidateDone, AfterInvalidate, Notify, GoTo
<1>6. ASSUME NEW c \in Callers, InitModel(c) PROVE ModelIsIdle'
  <2>1. /\ stage[c] = "model" /\ UNCHANGED <<op, worker, outputs, inferenceGeneration>>
        /\ \/ stage' = [stage EXCEPT ![c] = "enable"]
           \/ stage' = [stage EXCEPT ![c] = "start"]
           \/ stage' = [stage EXCEPT ![c] = "idle"]
    BY <1>6 DEF InitModel, Return, GoTo
  <2> QED
    BY <2>1
<1>7. ASSUME NEW c \in Callers,
             \/ ReleasePending(c) \/ ReleaseLastImage(c) \/ StoreSettings(c) \/ Enable(c)
             \/ ResetModelState(c) \/ StartWorker(c) \/ RequestStop(c) \/ NotifyStop(c)
             \/ JoinAndFree(c)
      PROVE  ModelIsIdle'
  BY <1>7 DEF ReleasePending, ReleaseLastImage, StoreSettings, StoreMattingMode,
              ApplySettings, StoreNativeAlpha, Enable, Return,
              ResetModelState, StartWorker, RequestStop, NotifyStop, JoinAndFree,
              Notify, GoTo
<1>8. CASE TakeFrame
  BY <1>8 DEF TakeFrame
<1>9. CASE CheckFrame
  BY <1>9 DEF CheckFrame, NextIteration, Refused
<1>10. CASE ReadNativeAlpha \/ InferenceDone
  BY <1>10 DEF ReadNativeAlpha, InferenceDone, Job
<1>11. CASE CheckResult \/ ReadPreviousMask
  BY <1>11 DEF CheckResult, ReadPreviousMask, NextIteration, Job
<1>12. CASE PublishAlpha \/ PublishMask
  BY <1>12 DEF PublishAlpha, PublishMask, NextIteration
<1>13. CASE \/ CheckSimilarity \/ EnterInference \/ InferenceFailed \/ InferenceThrew
            \/ FallBackToCpu \/ WorkerExit \/ WorkerSleep \/ SpuriousWakeup
  BY <1>13 DEF CheckSimilarity, EnterInference, InferenceFailed, InferenceThrew,
               FallBackToCpu, WorkerExit, WorkerSleep, SpuriousWakeup, NextIteration
<1>14. CASE (\E image \in Images : TickBegin(image)) \/ Submit
  BY <1>14 DEF TickBegin, Submit, PushFrame, NotifyWorker, Notify
<1>15. CASE RenderAlpha
  BY <1>15 DEF RenderAlpha
<1>16. CASE UNCHANGED vars
  BY <1>16 DEF vars
<1> HIDE DEF IndInv, SerialInv, OneAtATime, ModelIsIdle, Disowned, StaysDisabled, Disabling,
        Current, Mattes, TypeOK, TypeControl, TypeThreads, Ops,
        control, flags, engine, queue, outputs, graphics, worker
<1> QED
  BY <1>1, <1>2, <1>3, <1>4, <1>5, <1>6, <1>7, <1>8, <1>9, <1>10, <1>11, <1>12, <1>13,
     <1>14, <1>15, <1>16
     DEF Next, Begin, Continue, Invalidate, Work, Freed

\* Only update replaces the model, when the worker's frame is outdated or unchecked.
LEMMA WorkFitsModelStep ==
  IndInv /\ SerialInv /\ TypeOK' /\ [Next]_vars => WorkFitsModel'
<1> SUFFICES ASSUME IndInv, SerialInv, TypeOK', [Next]_vars PROVE WorkFitsModel'
  OBVIOUS
<1> USE NoneAssumption
    DEF IndInv, SerialInv, WorkFitsModel, Current, Blended, TypeOK, TypeThreads,
        control, flags, engine, queue, outputs, graphics, worker
<1>1. ASSUME NEW c \in Callers, BumpGeneration(c) PROVE WorkFitsModel'
  BY <1>1 DEF BumpGeneration, TagsFromThePast, TypeQueue, Job
<1>2. ASSUME NEW c \in Callers, InitModel(c) PROVE WorkFitsModel'
  <2>1. stage[c] = "model" /\ UNCHANGED <<worker, inferenceGeneration>>
    BY <1>2 DEF InitModel
  <2>2. job # None /\ wstage # "check" => ~Current
    BY <2>1 DEF ModelIsIdle, Disowned, LifeCycle
  <2> QED
    BY <2>1, <2>2
<1>3. ASSUME NEW c \in Callers,
             \/ Create(c) \/ Update(c) \/ Activate(c) \/ Deactivate(c) \/ Destroy(c)
             \/ ReleasePending(c) \/ ReleaseOutputs(c) \/ ReleaseLastImage(c)
             \/ StoreSettings(c) \/ Enable(c) \/ ResetModelState(c)
             \/ RequestStop(c) \/ JoinAndFree(c)
      PROVE  WorkFitsModel'
  BY <1>3 DEF Create, Update, Activate, Deactivate, Destroy, ReleasePending,
              ReleaseOutputs, ReleaseLastImage, StoreSettings, StoreMattingMode,
              ApplySettings, StoreNativeAlpha, Enable, ResetModelState,
              RequestStop, JoinAndFree
<1>4. ASSUME NEW c \in Callers, InvalidateDone(c) \/ StartWorker(c) \/ NotifyStop(c)
      PROVE  WorkFitsModel'
  BY <1>4 DEF InvalidateDone, StartWorker, NotifyStop, Notify
<1>5. CASE TakeFrame
  BY <1>5 DEF TakeFrame
<1>6. CASE CheckFrame \/ CheckSimilarity \/ EnterInference
  BY <1>6 DEF CheckFrame, CheckSimilarity, EnterInference, NextIteration
<1>7. CASE ReadNativeAlpha
  BY <1>7 DEF ReadNativeAlpha, Job
<1>8. CASE InferenceDone
  BY <1>8 DEF InferenceDone, Job
<1>9. CASE ReadPreviousMask
  BY <1>9 DEF ReadPreviousMask, NextIteration, Job, MattesFitModel, Mattes
<1>10. CASE InferenceFailed \/ InferenceThrew \/ CheckResult
  BY <1>10 DEF InferenceFailed, InferenceThrew, CheckResult, NextIteration
<1>11. CASE PublishAlpha \/ PublishMask \/ FallBackToCpu
  BY <1>11 DEF PublishAlpha, PublishMask, FallBackToCpu, NextIteration
<1>12. CASE WorkerExit \/ WorkerSleep \/ SpuriousWakeup
  BY <1>12 DEF WorkerExit, WorkerSleep, SpuriousWakeup
<1>13. CASE (\E image \in Images : TickBegin(image)) \/ Submit \/ RenderAlpha
  BY <1>13 DEF TickBegin, Submit, PushFrame, NotifyWorker, Notify, RenderAlpha
<1>14. CASE UNCHANGED vars
  BY <1>14 DEF vars
<1> HIDE DEF IndInv, SerialInv, WorkFitsModel, Current, Blended, TypeOK, TypeThreads,
        control, flags, engine, queue, outputs, graphics, worker
<1> QED
  BY <1>1, <1>2, <1>3, <1>4, <1>5, <1>6, <1>7, <1>8, <1>9, <1>10, <1>11, <1>12, <1>13, <1>14
     DEF Next, Begin, Continue, Invalidate, Work, Freed

\* A step that adds no matte and keeps the model keeps what the mattes come from.
LEMMA MattesFrame ==
  ASSUME MattesFitModel, UNCHANGED <<outputs, model>>
  PROVE  MattesFitModel'
BY DEF MattesFitModel, Mattes, outputs

LEMMA MattesFitModelStep ==
  IndInv /\ SerialInv /\ TypeOK' /\ [Next]_vars => MattesFitModel'
<1> SUFFICES ASSUME IndInv, SerialInv, TypeOK', [Next]_vars PROVE MattesFitModel'
  OBVIOUS
<1> USE DEF IndInv, SerialInv
<1>1. ASSUME NEW c \in Callers, InitModel(c) PROVE MattesFitModel'
  <2>1. stage[c] = "model" /\ op[c] \in {"create", "update"} /\ UNCHANGED outputs
    BY <1>1 DEF InitModel, LifeCycle
  <2>2. Mattes = {}
    BY <2>1 DEF ModelIsIdle, Disowned
  <2> QED
    BY <2>1, <2>2 DEF MattesFitModel, Mattes, outputs
<1>2. ASSUME NEW c \in Callers, ReleaseOutputs(c) PROVE MattesFitModel'
  BY <1>2 DEF ReleaseOutputs, ReleaseMats, MattesFitModel, Mattes
<1>3. CASE PublishAlpha \/ PublishMask
  <2>1. /\ Current => /\ job.output = model
                      /\ \A f \in Blended(job.previous) : f[2] = model
        /\ UNCHANGED model
    BY <1>3, NoneAssumption
       DEF PublishAlpha, PublishMask, WorkFitsModel, TypeOK, TypeThreads, Kinds, engine
  <2>2. \A p \in {"foreground", "background"} :
          Current => \A f \in NewMatte(p).from : f[2] = model
    BY <2>1 DEF NewMatte
  <2>3. Mattes' \subseteq Mattes \cup
          IF Current THEN {NewMatte("foreground"), NewMatte("background")} ELSE {}
    BY <1>3 DEF PublishAlpha, PublishMask, Mattes
  <2> QED
    BY <2>1, <2>2, <2>3 DEF MattesFitModel
<1>4. CASE RenderAlpha
  <2>1. /\ UNCHANGED <<backgroundMask, lastBackgroundMask, model>>
        /\ backgroundAlpha # None /\ backgroundAlpha'.from = backgroundAlpha.from
    BY <1>4 DEF RenderAlpha, engine, TypeOK, TypeOutputs, Matte
  <2> QED
    BY <2>1 DEF MattesFitModel, Mattes
<1>5. ASSUME NEW c \in Callers,
             \/ Create(c) \/ Update(c) \/ Activate(c) \/ Deactivate(c) \/ Destroy(c)
             \/ BumpGeneration(c) \/ ReleasePending(c) \/ ReleaseLastImage(c)
             \/ InvalidateDone(c) \/ StoreSettings(c) \/ Enable(c) \/ ResetModelState(c)
             \/ StartWorker(c) \/ RequestStop(c) \/ NotifyStop(c) \/ JoinAndFree(c)
      PROVE  UNCHANGED <<outputs, model>>
  BY <1>5 DEF Create, Update, Activate, Deactivate, Destroy, BumpGeneration,
              ReleasePending, ReleaseLastImage, InvalidateDone, StoreSettings,
              StoreMattingMode, ApplySettings, StoreNativeAlpha, Enable,
              ResetModelState, StartWorker, RequestStop, NotifyStop, JoinAndFree, engine
<1>6. CASE \/ (\E image \in Images : TickBegin(image)) \/ Submit \/ SpuriousWakeup
           \/ Freed \/ UNCHANGED vars
  BY <1>6, MattesFrame DEF TickBegin, Submit, PushFrame, NotifyWorker, SpuriousWakeup,
              Freed, vars, engine
<1>7. CASE Work /\ ~(PublishAlpha \/ PublishMask)
  <2>1. UNCHANGED <<outputs, model>>
    BY <1>7 DEF Work, WorkerExit, WorkerSleep, TakeFrame, CheckFrame,
          ReadNativeAlpha, CheckSimilarity, EnterInference, InferenceDone,
          InferenceFailed, InferenceThrew, FallBackToCpu, CheckResult,
          ReadPreviousMask, engine
  <2> QED
    BY <2>1, MattesFrame
<1> QED
  BY <1>1, <1>2, <1>3, <1>4, <1>5, <1>6, <1>7, MattesFrame
     DEF Next, Begin, Continue, Invalidate

\* update and activate reset the recurrent state under modelMutex, when no inference
\* runs, and none of an earlier generation starts after that.
LEMMA RecurrentFitsStep ==
  IndInv /\ SerialInv /\ OneAtATime /\ OneAtATime' /\ TypeOK' /\ [Next]_vars => RecurrentFits'
<1> SUFFICES ASSUME IndInv, SerialInv, OneAtATime, OneAtATime', TypeOK', [Next]_vars
             PROVE  RecurrentFits'
  OBVIOUS
<1> USE NoneAssumption
    DEF IndInv, SerialInv, OneAtATime, RecurrentFits, Current, StaysDisabled, Disabling,
        TypeOK, TypeControl, TypeThreads, Ops, Stages,
        control, flags, engine, queue, graphics, worker
<1>1. ASSUME NEW c \in Callers, Create(c) \/ Update(c) \/ Destroy(c)
      PROVE  RecurrentFits'
  BY <1>1 DEF Create, Update, Destroy, EnterUpdate, Enter, GoTo
<1>2. ASSUME NEW c \in Callers, Activate(c) PROVE RecurrentFits'
  BY <1>2 DEF Activate, Enter, GoTo
<1>3. ASSUME NEW c \in Callers, Deactivate(c) PROVE RecurrentFits'
  BY <1>3 DEF Deactivate, Enter, GoTo
<1>4. ASSUME NEW c \in Callers, InvalidateDone(c) PROVE RecurrentFits'
  BY <1>4 DEF InvalidateDone, AfterInvalidate, Notify, GoTo
<1>5. ASSUME NEW c \in Callers, InitModel(c) PROVE RecurrentFits'
  <2>1. recurrent' = 0 /\ UNCHANGED worker /\ wstage # "infer"
    BY <1>5 DEF InitModel, SessionOn, NoSession, ResetRecurrentState
  <2> QED
    BY <2>1
<1>6. ASSUME NEW c \in Callers, Enable(c) PROVE RecurrentFits'
  BY <1>6 DEF Enable, Return, GoTo
<1>7. ASSUME NEW c \in Callers, ResetModelState(c) PROVE RecurrentFits'
  BY <1>7 DEF ResetModelState, ResetRecurrentState, GoTo
<1>8. ASSUME NEW c \in Callers,
             \/ BumpGeneration(c) \/ ReleasePending(c) \/ ReleaseOutputs(c)
             \/ ReleaseLastImage(c) \/ StoreSettings(c)
             \/ RequestStop(c) \/ NotifyStop(c) \/ JoinAndFree(c)
      PROVE  RecurrentFits'
  BY <1>8 DEF BumpGeneration, ReleasePending, ReleaseOutputs, ReleaseLastImage,
              StoreSettings, StoreMattingMode, ApplySettings, StoreNativeAlpha, RequestStop,
              NotifyStop, JoinAndFree, Notify, GoTo
<1>9. ASSUME NEW c \in Callers, StartWorker(c) PROVE RecurrentFits'
  BY <1>9 DEF StartWorker, GoTo
<1>10. CASE EnterInference
  BY <1>10 DEF EnterInference, CannotRun, NextIteration
<1>11. CASE InferenceDone
  BY <1>11 DEF InferenceDone
<1>12. CASE FallBackToCpu
  BY <1>12 DEF FallBackToCpu, ResetRecurrentState, NextIteration
<1>13. CASE \/ TakeFrame \/ CheckFrame \/ ReadNativeAlpha \/ CheckSimilarity
            \/ InferenceFailed \/ InferenceThrew \/ CheckResult \/ PublishAlpha
            \/ ReadPreviousMask \/ PublishMask \/ WorkerExit \/ WorkerSleep
            \/ SpuriousWakeup
  BY <1>13 DEF TakeFrame, CheckFrame, ReadNativeAlpha, CheckSimilarity,
          InferenceFailed, InferenceThrew, CheckResult, PublishAlpha,
          ReadPreviousMask, PublishMask, WorkerExit, WorkerSleep, SpuriousWakeup,
          NextIteration
<1>14. CASE (\E image \in Images : TickBegin(image)) \/ Submit \/ RenderAlpha
  BY <1>14 DEF TickBegin, Submit, PushFrame, NotifyWorker, Notify, RenderAlpha
<1>15. CASE UNCHANGED vars
  BY <1>15 DEF vars
<1> HIDE DEF IndInv, SerialInv, OneAtATime, RecurrentFits, Current, StaysDisabled, Disabling,
        TypeOK, TypeControl, TypeThreads, Ops, Stages,
        control, flags, engine, queue, graphics, worker
<1> QED
  BY <1>1, <1>2, <1>3, <1>4, <1>5, <1>6, <1>7, <1>8, <1>9, <1>10, <1>11, <1>12, <1>13,
     <1>14, <1>15
     DEF Next, Begin, Continue, Invalidate, Work, Freed

-----------------------------------------------------------------------------
(* Ticks only between callbacks. *)

LEMMA GraphicsWaitsStep == TypeOK /\ GraphicsWaits /\ [Next]_vars => GraphicsWaits'
<1> SUFFICES ASSUME TypeOK, GraphicsWaits, [Next]_vars PROVE GraphicsWaits'
  OBVIOUS
<1> USE DEF GraphicsWaits
<1>1. ASSUME NEW c \in Callers, Begin(c) PROVE GraphicsWaits'
  BY <1>1 DEF Begin, Create, Update, Activate, Deactivate, Destroy, EnterUpdate, MayEnter,
              graphics
<1>2. ASSUME NEW c \in Callers, Continue(c) PROVE GraphicsWaits'
  <2>1. stage[c] # "idle" /\ UNCHANGED gstage
    BY <1>2 DEF Continue, Invalidate, BumpGeneration, ReleasePending, ReleaseOutputs,
           ReleaseLastImage, InvalidateDone, StoreSettings, StoreMattingMode, ApplySettings,
           StoreNativeAlpha, InitModel, Enable,
           ResetModelState, StartWorker, RequestStop, NotifyStop, JoinAndFree, graphics
  <2> QED
    BY <2>1 DEF Quiet
<1>3. CASE \E image \in Images : TickBegin(image)
  BY <1>3 DEF TickBegin, GraphicsMayRun, Quiet, control
<1>4. CASE Submit
  BY <1>4 DEF Submit, PushFrame, NotifyWorker, Quiet, control
<1>5. CASE UNCHANGED <<stage, gstage>>
  BY <1>5 DEF Quiet
<1>6. CASE Work \/ RenderAlpha \/ SpuriousWakeup \/ Freed \/ UNCHANGED vars
  BY <1>6, <1>5 DEF Work, WorkerExit, WorkerSleep, TakeFrame, CheckFrame,
          ReadNativeAlpha, CheckSimilarity, EnterInference, InferenceDone,
          InferenceFailed, InferenceThrew, FallBackToCpu, CheckResult, PublishAlpha,
          ReadPreviousMask, PublishMask, RenderAlpha, SpuriousWakeup, Freed, vars,
          control, graphics
<1> QED
  BY <1>1, <1>2, <1>3, <1>4, <1>6 DEF Next

\* After the increment nothing is pushed until every callback has returned.
LEMMA NothingNewYetStep ==
  IndInv /\ GraphicsWaits /\ NothingNewYet /\ TypeOK' /\ [Next]_vars => NothingNewYet'
<1> SUFFICES ASSUME IndInv, GraphicsWaits, NothingNewYet, TypeOK', [Next]_vars, ~GraphicsOverlaps
             PROVE  NothingNewYet'
  BY DEF NothingNewYet
<1> USE NoneAssumption
    DEF IndInv, NothingNewYet, Current, TypeOK, TypeControl, TypeQueue, TypeThreads,
        control, flags, engine, queue, graphics, worker
<1>1. ASSUME NEW c \in Callers, BumpGeneration(c) PROVE NothingNewYet'
  BY <1>1 DEF BumpGeneration, GoTo, TagsFromThePast, Job
<1>2. ASSUME NEW c \in Callers, ReleasePending(c) PROVE NothingNewYet'
  BY <1>2 DEF ReleasePending, GoTo
<1>3. ASSUME NEW c \in Callers,
             \/ Create(c) \/ Update(c) \/ Activate(c) \/ Deactivate(c) \/ Destroy(c)
      PROVE  NothingNewYet'
  BY <1>3 DEF Create, Update, Activate, Deactivate, Destroy, EnterUpdate, Enter, GoTo
<1>4. ASSUME NEW c \in Callers, InitModel(c) PROVE NothingNewYet'
  BY <1>4 DEF InitModel, Return, GoTo
<1>5. ASSUME NEW c \in Callers,
             \/ ReleaseOutputs(c) \/ ReleaseLastImage(c) \/ InvalidateDone(c)
             \/ StoreSettings(c) \/ Enable(c) \/ ResetModelState(c)
             \/ StartWorker(c) \/ RequestStop(c) \/ NotifyStop(c) \/ JoinAndFree(c)
      PROVE  NothingNewYet'
  BY <1>5 DEF ReleaseOutputs, ReleaseLastImage, InvalidateDone, AfterInvalidate,
              StoreSettings, StoreMattingMode, ApplySettings, StoreNativeAlpha, Enable,
              Return, ResetModelState, StartWorker, RequestStop,
              NotifyStop, JoinAndFree, GoTo
<1>6. CASE Submit
  <2>1. Quiet
    BY <1>6 DEF Submit, PushFrame, NotifyWorker, GraphicsWaits
  <2> QED
    BY <1>6, <2>1 DEF Submit, PushFrame, NotifyWorker, Quiet
<1>7. CASE (\E image \in Images : TickBegin(image)) \/ RenderAlpha \/ SpuriousWakeup
  BY <1>7 DEF TickBegin, RenderAlpha, SpuriousWakeup
<1>8. CASE TakeFrame
  BY <1>8 DEF TakeFrame, LeftPending
<1>9. CASE ReadNativeAlpha \/ InferenceDone \/ ReadPreviousMask
  BY <1>9 DEF ReadNativeAlpha, InferenceDone, ReadPreviousMask, NextIteration, Job
<1>10. CASE \/ CheckFrame \/ CheckSimilarity \/ EnterInference \/ InferenceFailed
            \/ InferenceThrew \/ FallBackToCpu \/ CheckResult \/ PublishAlpha
            \/ PublishMask \/ WorkerExit \/ WorkerSleep
  BY <1>10 DEF CheckFrame, CheckSimilarity, EnterInference, InferenceFailed,
          InferenceThrew, FallBackToCpu, CheckResult, PublishAlpha, PublishMask,
          WorkerExit, WorkerSleep, NextIteration
<1>11. CASE UNCHANGED vars
  BY <1>11 DEF vars
<1> HIDE DEF IndInv, NothingNewYet, Current, TypeOK, TypeControl, TypeQueue, TypeThreads,
        control, flags, engine, queue, graphics, worker
<1> QED
  BY <1>1, <1>2, <1>3, <1>4, <1>5, <1>6, <1>7, <1>8, <1>9, <1>10, <1>11
     DEF Next, Begin, Continue, Invalidate, Work, Freed

\* A current frame finds only masks of its generation to be smoothed with.
LEMMA BlendStep ==
  ASSUME ~GraphicsOverlaps, IndInv, BlendInv, TypeOK', [Next]_vars
  PROVE  BlendOfOneGeneration' /\ NoMixedMatte'
<1> USE NoneAssumption
    DEF BlendInv, BlendOfOneGeneration, NoMixedMatte, Blended, Current
<1>1. CASE ReadPreviousMask
  <2>1. UNCHANGED outputs /\ job \in Job
    BY <1>1 DEF ReadPreviousMask, IndInv, TypeOK, TypeThreads
  <2>2. CASE ~Current
    BY <1>1, <2>1, <2>2 DEF ReadPreviousMask, NextIteration, Mattes, outputs
  <2>3. CASE Current
    <3>1. \A m \in Mattes : m.generation = job.generation
      BY <1>1, <2>1, <2>3 DEF NothingNewYet, IndInv, NoStaleMatte, Job
    <3>2. job' = [job EXCEPT !.previous = lastBackgroundMask]
      BY <1>1, <2>3 DEF ReadPreviousMask
    <3>3. job'.previous = lastBackgroundMask /\ job'.generation = job.generation
      BY <2>1, <3>2 DEF Job
    <3> QED
      BY <2>1, <3>1, <3>3 DEF Mattes, outputs
  <2> QED
    BY <2>2, <2>3
<1>2. CASE PublishAlpha \/ PublishMask
  <2>1. job' = None /\ job # None
    BY <1>2 DEF PublishAlpha, PublishMask, NextIteration, IndInv, TypeOK, TypeThreads
  <2>2. \A p \in {"foreground", "background"} :
          \A f \in NewMatte(p).from : f[1] = NewMatte(p).generation
    BY <2>1 DEF NewMatte
  <2>3. Mattes' \subseteq Mattes \cup {NewMatte("foreground"), NewMatte("background")}
    BY <1>2 DEF PublishAlpha, PublishMask, Mattes
  <2> QED
    BY <2>1, <2>2, <2>3
<1>3. CASE RenderAlpha
  <2>1. /\ UNCHANGED <<backgroundMask, lastBackgroundMask, job>>
        /\ backgroundAlpha # None
        /\ backgroundAlpha'.from = backgroundAlpha.from
        /\ backgroundAlpha'.generation = backgroundAlpha.generation
    BY <1>3 DEF RenderAlpha, worker, IndInv, TypeOK, TypeOutputs, Matte
  <2> QED
    BY <2>1 DEF Mattes
<1>4. CASE TakeFrame
  BY <1>4 DEF TakeFrame, Mattes, outputs
<1>5. CASE ReadNativeAlpha \/ InferenceDone
  <2>1. /\ UNCHANGED outputs /\ job # None
        /\ job'.previous = job.previous /\ job'.generation = job.generation
    BY <1>5 DEF ReadNativeAlpha, InferenceDone, IndInv, TypeOK, TypeThreads, Job
  <2> QED
    BY <2>1 DEF Mattes, outputs
<1>6. ASSUME NEW c \in Callers, ReleaseOutputs(c)
      PROVE  BlendOfOneGeneration' /\ NoMixedMatte'
  BY <1>6 DEF ReleaseOutputs, ReleaseMats, Mattes, worker
<1>7. CASE UNCHANGED outputs /\ (UNCHANGED job \/ job' = None)
  BY <1>7 DEF Mattes, outputs
<1> HIDE DEF BlendInv, BlendOfOneGeneration, NoMixedMatte, Blended, Current
<1>8. ASSUME NEW c \in Callers,
             \/ Create(c) \/ Update(c) \/ Activate(c) \/ Deactivate(c) \/ Destroy(c)
             \/ BumpGeneration(c) \/ ReleasePending(c) \/ ReleaseLastImage(c)
             \/ InvalidateDone(c) \/ StoreSettings(c) \/ InitModel(c) \/ Enable(c)
             \/ ResetModelState(c) \/ StartWorker(c) \/ RequestStop(c) \/ NotifyStop(c)
             \/ JoinAndFree(c)
      PROVE  UNCHANGED <<outputs, job>>
  BY <1>8 DEF Create, Update, Activate, Deactivate, Destroy, BumpGeneration,
              ReleasePending, ReleaseLastImage, InvalidateDone, StoreSettings,
              StoreMattingMode, ApplySettings, StoreNativeAlpha, InitModel,
              Enable, ResetModelState, StartWorker, RequestStop, NotifyStop, JoinAndFree,
              worker
<1>9. CASE (\E image \in Images : TickBegin(image)) \/ Submit \/ SpuriousWakeup \/ Freed
           \/ UNCHANGED vars
  BY <1>9, <1>7 DEF TickBegin, Submit, PushFrame, NotifyWorker, SpuriousWakeup, Freed,
              vars, worker
<1>10. CASE \/ WorkerExit \/ WorkerSleep \/ CheckFrame \/ CheckSimilarity
            \/ EnterInference \/ InferenceFailed \/ InferenceThrew \/ FallBackToCpu
            \/ CheckResult
  BY <1>10, <1>7 DEF WorkerExit, WorkerSleep, CheckFrame, CheckSimilarity, EnterInference,
              InferenceFailed, InferenceThrew, FallBackToCpu, CheckResult, NextIteration
<1> QED
  BY <1>1, <1>2, <1>3, <1>4, <1>5, <1>6, <1>7, <1>8, <1>9, <1>10
     DEF Next, Begin, Continue, Invalidate, Work

-----------------------------------------------------------------------------
(* The theorems about callbacks and ticks that take turns. *)

LEMMA InitSerial == Init => SerialInv /\ BlendInv
<1> SUFFICES ASSUME Init PROVE SerialInv /\ BlendInv
  OBVIOUS
<1> USE NoneAssumption DEF Init, Mattes, Blended
<1>1. StaysDisabled /\ ModelIsIdle
  BY DEF StaysDisabled, Disabling, ModelIsIdle, Disowned
<1>2. WorkFitsModel /\ MattesFitModel /\ RecurrentFits
  BY DEF WorkFitsModel, MattesFitModel, RecurrentFits
<1>3. BlendInv
  BY DEF BlendInv, GraphicsWaits, NothingNewYet, BlendOfOneGeneration, NoMixedMatte
<1> QED
  BY <1>1, <1>2, <1>3 DEF SerialInv

LEMMA SerialStep ==
  IndInv /\ IndInv' /\ SerialInv /\ OneAtATime /\ OneAtATime' /\ [Next]_vars => SerialInv'
BY StaysDisabledStep, ModelIsIdleStep, WorkFitsModelStep, MattesFitModelStep,
   RecurrentFitsStep DEF IndInv, SerialInv

LEMMA BlendInvStep ==
  ~GraphicsOverlaps /\ IndInv /\ IndInv' /\ BlendInv /\ [Next]_vars => BlendInv'
BY GraphicsWaitsStep, NothingNewYetStep, BlendStep DEF IndInv, BlendInv

\* If no two callbacks overlap, what is shown comes from the model in use, whatever
\* the worker was doing when the model was replaced, and whenever ticks come.
THEOREM ModelOfMatte == Spec /\ []OneAtATime => []MatteFromSelectedModel
<1>1. SerialInv => MatteFromSelectedModel
  BY DEF SerialInv, MattesFitModel, MatteFromSelectedModel
<1> QED
  BY <1>1, InitSerial, SerialStep, InvariantHolds, PTL DEF Spec

\* If no two callbacks overlap, an enabled filter at rest feeds RVM no recurrent state
\* of an earlier generation, whatever inference was running at the reset.
THEOREM RecurrentStateOfGeneration == Spec /\ []OneAtATime => []RecurrentStateIsCurrent
<1>1. SerialInv => RecurrentStateIsCurrent
  BY DEF SerialInv, RecurrentFits, RecurrentStateIsCurrent, Quiet
<1> QED
  BY <1>1, InitSerial, SerialStep, InvariantHolds, PTL DEF Spec

\* If ticks wait for callbacks to return, temporal smoothing never blends masks of two
\* generations, however many callbacks overlap.
THEOREM NeverMixed == ASSUME ~GraphicsOverlaps PROVE Spec => []NoMixedMatte
<1>1. IndInv /\ IndInv' /\ BlendInv /\ [Next]_vars => BlendInv'
  BY BlendInvStep
<1>2. Init => BlendInv
  BY InitSerial
<1>3. BlendInv => NoMixedMatte
  BY DEF BlendInv
<1> QED
  BY <1>1, <1>2, <1>3, InvariantHolds, PTL DEF Spec
=============================================================================
