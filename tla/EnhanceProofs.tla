---------------------------- MODULE EnhanceProofs ----------------------------
(***************************************************************************)
(* The enhancement filter's inductive invariant, proved for every set of   *)
(* settings, every fault and any number of updates.  Each lemma takes one  *)
(* part of the invariant across every step.                                *)
(***************************************************************************)
EXTENDS EnhanceFilter, TLAPS

\* Every step keeps every variable in its type.
LEMMA TypeStep ==
  ASSUME TypeOK, [Next]_vars
  PROVE  TypeOK'
<1> USE DEF TypeOK, life, update, model, picture, tick
<1>1. ASSUME NEW s \in Settings, Create(s) \/ Update(s) PROVE TypeOK'
  <2>1. CASE Create(s)
    BY <2>1 DEF Create, EnterUpdate
  <2>2. CASE Update(s)
    BY <2>2 DEF Update, EnterUpdate
  <2> QED
    BY <1>1, <2>1, <2>2
<1>2. CASE CreateFails \/ Activate \/ Deactivate \/ Destroy
  <2>1. CASE CreateFails
    BY <2>1 DEF CreateFails
  <2>2. CASE Destroy
    BY <2>2 DEF Destroy
  <2>3. ASSUME NEW b \in BOOLEAN, SetDisabled(b) PROVE TypeOK'
    BY <2>3 DEF SetDisabled
  <2> QED
    BY <1>2, <2>1, <2>2, <2>3 DEF Activate, Deactivate
<1>3. CASE SwapModel
  BY <1>3 DEF SwapModel, Engine
<1>4. CASE CreateOrtSession
  BY <1>4 DEF CreateOrtSession, Engine
<1>5. CASE LoadEffect
  BY <1>5 DEF LoadEffect
<1>6. CASE DestroyGraphics
  <2>1. blendEffect' \in BOOLEAN
    BY <1>6 DEF DestroyGraphics
  <2> QED
    BY <1>6, <2>1 DEF DestroyGraphics
<1>7. CASE DeletePointer
  BY <1>7 DEF DeletePointer
<1>8. CASE EnterTick \/ CloneInput \/ LockModel
  BY <1>8, ZenonT(60) DEF EnterTick, CloneInput, LockModel
<1>9. CASE SkipInput \/ OutputBusy
  BY <1>9, ZenonT(60) DEF SkipInput, OutputBusy, LeaveTick, Drop
<1>10. CASE Infer
  BY <1>10 DEF Infer
<1>11. CASE InferenceFault
  <2>1. engine.class \in Nat
    BY DEF Engine
  <2>2. broken' \subseteq Nat
    BY <1>11, <2>1 DEF InferenceFault
  <2> QED
    BY <1>11, <2>2 DEF InferenceFault, LeaveTick, Drop
<1>12. CASE StoreOutput
  BY <1>12 DEF StoreOutput, LeaveTick, Drop
<1>13. CASE EnterRender \/ CaptureInput \/ BeginFilter
  BY <1>13, ZenonT(60) DEF EnterRender, CaptureInput, BeginFilter
<1>14. CASE SkipRender \/ SkipEmpty
  BY <1>14, ZenonT(60) DEF SkipRender, SkipEmpty, LeaveRender, Drop
<1>15. CASE Draw
  BY <1>15 DEF Draw, LeaveRender, Drop
<1>16. CASE UNCHANGED vars
  BY <1>16 DEF vars, life, update, model, picture, tick
<1> HIDE DEF TypeOK
<1> QED
  BY <1>1, <1>2, <1>3, <1>4, <1>5, <1>6, <1>7, <1>8, <1>9, <1>10, <1>11, <1>12, <1>13, <1>14, <1>15, <1>16
  DEF Next, UpdateStep, DestroyStep, TickStep, RenderStep

\* modelMutex and the graphics context have the owner their stage says.
LEMMA LocksStep ==
  ASSUME LocksHeld, [Next]_vars
  PROVE  LocksHeld'
<1> USE DEF LocksHeld, life, update, model, picture, tick
<1>1. ASSUME NEW s \in Settings, Create(s) \/ Update(s) PROVE LocksHeld'
  BY <1>1 DEF Create, Update, EnterUpdate
<1>2. CASE CreateFails \/ Activate \/ Deactivate \/ Destroy
  BY <1>2 DEF CreateFails, Activate, Deactivate, SetDisabled, Destroy
<1>3. CASE SwapModel
  BY <1>3 DEF SwapModel
<1>4. CASE CreateOrtSession
  BY <1>4 DEF CreateOrtSession
<1>5. CASE LoadEffect
  BY <1>5 DEF LoadEffect
<1>6. CASE DestroyGraphics
  BY <1>6 DEF DestroyGraphics
<1>7. CASE DeletePointer
  BY <1>7 DEF DeletePointer, Holders
<1>8. CASE EnterTick \/ CloneInput \/ LockModel
  BY <1>8 DEF EnterTick, CloneInput, LockModel
<1>9. CASE SkipInput \/ OutputBusy
  BY <1>9 DEF SkipInput, OutputBusy, LeaveTick, Drop, Holders
<1>10. CASE Infer
  BY <1>10 DEF Infer
<1>11. CASE InferenceFault
  BY <1>11 DEF InferenceFault, LeaveTick, Drop, Holders
<1>12. CASE StoreOutput
  BY <1>12 DEF StoreOutput, LeaveTick, Drop, Holders
<1>13. CASE EnterRender \/ CaptureInput \/ BeginFilter
  BY <1>13 DEF EnterRender, CaptureInput, BeginFilter
<1>14. CASE SkipRender \/ SkipEmpty
  BY <1>14 DEF SkipRender, SkipEmpty, LeaveRender, Drop, Holders
<1>15. CASE Draw
  BY <1>15 DEF Draw, LeaveRender, Drop, Holders
<1>16. CASE UNCHANGED vars
  BY <1>16 DEF vars, life, update, model, picture, tick
<1> HIDE DEF LocksHeld
<1> QED
  BY <1>1, <1>2, <1>3, <1>4, <1>5, <1>6, <1>7, <1>8, <1>9, <1>10, <1>11, <1>12, <1>13, <1>14, <1>15, <1>16
  DEF Next, UpdateStep, DestroyStep, TickStep, RenderStep

\* The instance outlives every callback that has copied its shared pointer.
LEMMA LifeStep ==
  ASSUME LocksHeld, NothingUsedAfterFree, [Next]_vars
  PROVE  NothingUsedAfterFree'
<1> USE DEF NothingUsedAfterFree, LocksHeld, life, update, model, picture, tick
<1>1. ASSUME NEW s \in Settings, Create(s) \/ Update(s) PROVE NothingUsedAfterFree'
  BY <1>1 DEF Create, Update, EnterUpdate
<1>2. CASE CreateFails \/ Activate \/ Deactivate \/ Destroy
  BY <1>2 DEF CreateFails, Activate, Deactivate, SetDisabled, Destroy
<1>3. CASE SwapModel
  BY <1>3 DEF SwapModel
<1>4. CASE CreateOrtSession
  BY <1>4 DEF CreateOrtSession
<1>5. CASE LoadEffect
  BY <1>5 DEF LoadEffect
<1>6. CASE DestroyGraphics
  BY <1>6 DEF DestroyGraphics
<1>7. CASE DeletePointer
  BY <1>7 DEF DeletePointer, Holders
<1>8. CASE EnterTick \/ CloneInput \/ LockModel
  BY <1>8 DEF EnterTick, CloneInput, LockModel
<1>9. CASE SkipInput \/ OutputBusy
  BY <1>9 DEF SkipInput, OutputBusy, LeaveTick, Drop, Holders
<1>10. CASE Infer
  BY <1>10 DEF Infer
<1>11. CASE InferenceFault
  BY <1>11 DEF InferenceFault, LeaveTick, Drop, Holders
<1>12. CASE StoreOutput
  BY <1>12 DEF StoreOutput, LeaveTick, Drop, Holders
<1>13. CASE EnterRender \/ CaptureInput \/ BeginFilter
  BY <1>13 DEF EnterRender, CaptureInput, BeginFilter
<1>14. CASE SkipRender \/ SkipEmpty
  BY <1>14 DEF SkipRender, SkipEmpty, LeaveRender, Drop, Holders
<1>15. CASE Draw
  BY <1>15 DEF Draw, LeaveRender, Drop, Holders
<1>16. CASE UNCHANGED vars
  BY <1>16 DEF vars, life, update, model, picture, tick
<1> HIDE DEF NothingUsedAfterFree
<1> QED
  BY <1>1, <1>2, <1>3, <1>4, <1>5, <1>6, <1>7, <1>8, <1>9, <1>10, <1>11, <1>12, <1>13, <1>14, <1>15, <1>16
  DEF Next, UpdateStep, DestroyStep, TickStep, RenderStep

\* Numbers are given in order, and a model is marked built at most once.
LEMMA NumbersStep ==
  ASSUME TypeOK, LocksHeld, WholeEngine, NumbersInOrder, [Next]_vars
  PROVE  NumbersInOrder'
<1> USE NoneAssumption DEF TypeOK, LocksHeld, NumbersInOrder, WholeEngine, Whole, Pictures, Engine, life, update, model, picture, tick
<1>1. ASSUME NEW s \in Settings, Create(s) \/ Update(s) PROVE NumbersInOrder'
  BY <1>1 DEF Create, Update, EnterUpdate
<1>2. CASE CreateFails \/ Activate \/ Deactivate \/ Destroy
  BY <1>2 DEF CreateFails, Activate, Deactivate, SetDisabled, Destroy
<1>3. CASE SwapModel
  BY <1>3 DEF SwapModel
<1>4. CASE CreateOrtSession
  BY <1>4 DEF CreateOrtSession
<1>5. CASE LoadEffect
  BY <1>5 DEF LoadEffect
<1>6. CASE DestroyGraphics
  BY <1>6 DEF DestroyGraphics
<1>7. CASE DeletePointer
  BY <1>7 DEF DeletePointer
<1>8. CASE EnterTick \/ CloneInput \/ LockModel
  BY <1>8 DEF EnterTick, CloneInput, LockModel
<1>9. CASE SkipInput \/ OutputBusy
  BY <1>9 DEF SkipInput, OutputBusy, LeaveTick
<1>10. CASE Infer
  BY <1>10 DEF Infer
<1>11. CASE InferenceFault
  BY <1>11 DEF InferenceFault, LeaveTick
<1>12. CASE StoreOutput
  BY <1>12 DEF StoreOutput, LeaveTick
<1>13. CASE EnterRender \/ CaptureInput \/ BeginFilter
  BY <1>13 DEF EnterRender, CaptureInput, BeginFilter
<1>14. CASE SkipRender \/ SkipEmpty
  BY <1>14 DEF SkipRender, SkipEmpty, LeaveRender
<1>15. CASE Draw
  BY <1>15 DEF Draw, LeaveRender
<1>16. CASE UNCHANGED vars
  BY <1>16 DEF vars
<1> HIDE DEF NumbersInOrder
<1> QED
  BY <1>1, <1>2, <1>3, <1>4, <1>5, <1>6, <1>7, <1>8, <1>9, <1>10, <1>11, <1>12, <1>13, <1>14, <1>15, <1>16
  DEF Next, UpdateStep, DestroyStep, TickStep, RenderStep

\* No inference mixes two updates, and nothing computed by a mixed engine is called built later.
LEMMA WholeStep ==
  ASSUME TypeOK, LocksHeld, WholeEngine, NumbersInOrder, [Next]_vars
  PROVE  WholeEngine'
<1> USE NoneAssumption DEF TypeOK, LocksHeld, NumbersInOrder, WholeEngine, Whole, Pictures, Engine, life, update, model, picture, tick
<1>1. ASSUME NEW s \in Settings, Create(s) \/ Update(s) PROVE WholeEngine'
  BY <1>1 DEF Create, Update, EnterUpdate
<1>2. CASE CreateFails \/ Activate \/ Deactivate \/ Destroy
  BY <1>2 DEF CreateFails, Activate, Deactivate, SetDisabled, Destroy
<1>3. CASE SwapModel
  BY <1>3 DEF SwapModel
<1>4. CASE CreateOrtSession
  BY <1>4 DEF CreateOrtSession
<1>5. CASE LoadEffect
  BY <1>5 DEF LoadEffect
<1>6. CASE DestroyGraphics
  BY <1>6 DEF DestroyGraphics
<1>7. CASE DeletePointer
  BY <1>7 DEF DeletePointer
<1>8. CASE EnterTick \/ CloneInput \/ LockModel
  BY <1>8 DEF EnterTick, CloneInput, LockModel
<1>9. CASE SkipInput \/ OutputBusy
  BY <1>9 DEF SkipInput, OutputBusy, LeaveTick
<1>10. CASE Infer
  BY <1>10 DEF Infer
<1>11. CASE InferenceFault
  BY <1>11 DEF InferenceFault, LeaveTick
<1>12. CASE StoreOutput
  BY <1>12 DEF StoreOutput, LeaveTick
<1>13. CASE EnterRender \/ CaptureInput \/ BeginFilter
  BY <1>13 DEF EnterRender, CaptureInput, BeginFilter
<1>14. CASE SkipRender \/ SkipEmpty
  BY <1>14 DEF SkipRender, SkipEmpty, LeaveRender
<1>15. CASE Draw
  BY <1>15 DEF Draw, LeaveRender
<1>16. CASE UNCHANGED vars
  BY <1>16 DEF vars
<1> HIDE DEF WholeEngine
<1> QED
  BY <1>1, <1>2, <1>3, <1>4, <1>5, <1>6, <1>7, <1>8, <1>9, <1>10, <1>11, <1>12, <1>13, <1>14, <1>15, <1>16
  DEF Next, UpdateStep, DestroyStep, TickStep, RenderStep

LEMMA InitInvariant == Init => EnhanceInvariant
<1> SUFFICES ASSUME Init PROVE EnhanceInvariant
  OBVIOUS
<1>1. TypeOK
  BY DEF Init, TypeOK, NoEngine, Engine
<1>2. LocksHeld /\ NothingUsedAfterFree
  BY DEF Init, LocksHeld, NothingUsedAfterFree
<1>3. WholeEngine /\ NumbersInOrder
  BY DEF Init, WholeEngine, Whole, NumbersInOrder, Pictures, NoEngine
<1> QED
  BY <1>1, <1>2, <1>3 DEF EnhanceInvariant

\* The locks exclude each other, a tick or a render that destroy overtakes keeps the
\* instance, nothing is drawn with what destroy has freed, and no inference runs on
\* half an update (enhance-filter.cpp:141-182, 209-292).
THEOREM EnhanceInvariantHolds == Spec => []EnhanceInvariant
<1>1. EnhanceInvariant /\ [Next]_vars => EnhanceInvariant'
  BY TypeStep, LocksStep, LifeStep, WholeStep, NumbersStep DEF EnhanceInvariant
<1> QED
  BY InitInvariant, <1>1, PTL DEF Spec

\* Every picture was computed by the parts of one update, whatever the settings and
\* the faults; only a failed createOrtSession leaves an older session in place
\* (modelMutex in enhance-filter.cpp:158 and 271).
THEOREM OnePictureOneEngine == Spec => []WholeEngine
<1>1. EnhanceInvariant => WholeEngine
  BY DEF EnhanceInvariant
<1> QED
  BY EnhanceInvariantHolds, <1>1, PTL
=============================================================================
