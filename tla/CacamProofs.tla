---------------------------- MODULE CacamProofs ----------------------------
(***************************************************************************)
(* What the runs of CacamSource check for small instances, proved for any  *)
(* number of callers, phones, ports and settings.                          *)
(***************************************************************************)
EXTENDS CacamSource, TLAPS

LEMMA InitEstablishes == Init => CacamInvariant
<1> SUFFICES ASSUME Init PROVE CacamInvariant
  OBVIOUS
<1> USE DEF Init, Joinable
<1>1. DefaultSettings \in Setting
  BY CacamSettingsAssumption DEF DefaultSettings, Setting
<1>2. TypeCallbacks
  BY <1>1 DEF TypeCallbacks
<1>3. TypeThread
  BY CacamRetryAssumption DEF TypeThread, WorkerStages, AdbStages
<1>4. TypeDevices
  BY DEF TypeDevices
<1>5. WorkerFollowsMode /\ UsbReleased /\ OnlySelectedPhone
  BY DEF WorkerFollowsMode, UsbReleased, OnlySelectedPhone, UsbStages, AdbStages
<1>6. JoinIsProtected /\ StaleWorkerIsStopped /\ DestructionIsLast
  BY DEF JoinIsProtected, StaleWorkerIsStopped, DestructionIsLast
<1>7. CallbackFollowsSettings /\ WorkerIffAutomatic
  BY DEF CallbackFollowsSettings, WorkerIffAutomatic
<1> QED
  BY <1>2, <1>3, <1>4, <1>5, <1>6, <1>7 DEF CacamInvariant, CacamTypeOK

-----------------------------------------------------------------------------
(* Types.  A callback changes the thread only in Start and Join, a worker   *)
(* step no variable of the callbacks.                                       *)

LEMMA ProceedType ==
  ASSUME TypeCallbacks, NEW c \in Callers, Proceed(c)
  PROVE  /\ life' \in {"new", "creating", "live", "dying", "gone"}
         /\ stage' \in [Callers -> {"idle", "restart", "start", "stop"}]
BY DEF TypeCallbacks, Proceed, GoTo, StageFor

LEMMA TypeCallbacksStep ==
  ASSUME TypeCallbacks, [Next]_vars
  PROVE  TypeCallbacks'
<1> USE DEF TypeCallbacks
<1>1. ASSUME NEW c \in Callers, Enter(c) PROVE TypeCallbacks'
  <2>1. \A s \in Settings : s \in Setting /\ s.auto \in BOOLEAN
    BY CacamSettingsAssumption DEF Setting
  <2>2. ASSUME NEW s \in Settings, Configure(c, s),
               life' \in {"new", "creating", "live", "dying", "gone"}
        PROVE  TypeCallbacks'
    <3>1. wants' \in [Callers -> BOOLEAN]
      BY <2>1, <2>2 DEF Configure
    <3>2. stage' \in [Callers -> {"idle", "restart", "start", "stop"}]
      BY <2>2 DEF Configure, GoTo, AfterSettings, StageFor
    <3>3. alone' \in BOOLEAN
      BY <2>2 DEF Configure, Quiet
    <3> HIDE DEF TypeCallbacks
    <3>4. /\ currentSettings' \in Setting
          /\ workerMutex' \in Callers \cup {None} /\ stopRequested' \in BOOLEAN
      BY <2>1, <2>2 DEF Configure, TypeCallbacks
    <3> QED
      BY <2>2, <3>1, <3>2, <3>3, <3>4 DEF TypeCallbacks
  <2>3. CASE Create(c) \/ Update(c)
    BY <2>2, <2>3 DEF Create, Update
  <2>4. CASE Activate(c) \/ Deactivate(c) \/ Destroy(c)
    BY <2>4 DEF Activate, Deactivate, Destroy, GoTo
  <2> QED
    BY <1>1, <2>3, <2>4 DEF Enter
<1>2. ASSUME NEW c \in Callers, Continue(c) PROVE TypeCallbacks'
  <2>1. CASE Start(c)
    BY <2>1, ProceedType DEF Start
  <2>2. CASE RequestStop(c)
    BY <2>2, ProceedType DEF RequestStop
  <2>3. CASE Join(c)
    BY <2>3, ProceedType DEF Join
  <2> QED
    BY <1>2, <2>1, <2>2, <2>3 DEF Continue
<1>3. ASSUME UNCHANGED callbacks PROVE TypeCallbacks'
  BY <1>3 DEF callbacks
<1>4. Worker \/ StreamLost \/ (\E phone \in Phones : Plug(phone) \/ Unplug(phone)) \/ UNCHANGED vars
        => UNCHANGED callbacks
  BY DEF Worker, StreamLost, Plug, Unplug, vars, Step, Begin, SleepRetry, UsbExit, NoAccessory,
     OpenAccessory, StreamStopped, CloseConnection, AdbExit, StartServer, ListDevices,
     RemoveOldForward, CreateForward, ForwardSucceeds, Launch, AskHealth, GiveUpHealth,
     ReadSnapshot, SnapshotsStopped, RemoveForward
<1> HIDE DEF TypeCallbacks
<1> QED
  BY <1>1, <1>2, <1>3, <1>4 DEF Next

LEMMA TypeThreadStep ==
  ASSUME TypeCallbacks, TypeThread, TypeDevices, [Next]_vars
  PROVE  TypeThread'
<1> USE CacamRetryAssumption DEF TypeThread, WorkerStages, UsbStages, AdbStages, Joinable, Step, thread
<1>1. ASSUME NEW c \in Callers, Enter(c) PROVE TypeThread'
  BY <1>1 DEF Enter, Create, Update, Configure, Activate, Deactivate, Destroy
<1>2. ASSUME NEW c \in Callers, Continue(c) PROVE TypeThread'
  BY <1>2 DEF Continue, Start, RequestStop, Join, TypeCallbacks
<1>3. ASSUME Begin \/ SleepRetry \/ StreamLost PROVE TypeThread'
  <2>1. Joinable => running.mode \in {"usb", "adb"}
    BY DEF Setting
  <2> QED
    BY <1>3, <2>1 DEF Begin, SleepRetry, StreamLost
<1>4. ASSUME UsbExit \/ NoAccessory \/ OpenAccessory \/ StreamStopped \/ CloseConnection
      PROVE  TypeThread'
  BY <1>4 DEF UsbExit, NoAccessory, OpenAccessory, StreamStopped, CloseConnection
<1>5. ASSUME AdbExit \/ StartServer \/ ListDevices PROVE TypeThread'
  <2>1. Eligible \subseteq Phones
    BY DEF Eligible, TypeDevices
  <2> QED
    BY <1>5, <2>1 DEF AdbExit, StartServer, ListDevices
<1>6. ASSUME RemoveOldForward \/ CreateForward \/ RemoveForward PROVE TypeThread'
  BY <1>6 DEF RemoveOldForward, CreateForward, ForwardSucceeds, RemoveForward
<1>7. ASSUME Launch \/ AskHealth \/ GiveUpHealth \/ ReadSnapshot \/ SnapshotsStopped
      PROVE  TypeThread'
  BY <1>7 DEF Launch, AskHealth, GiveUpHealth, ReadSnapshot, SnapshotsStopped
<1>8. ASSUME NEW phone \in Phones, Plug(phone) \/ Unplug(phone) PROVE TypeThread'
  BY <1>8 DEF Plug, Unplug
<1>9. ASSUME UNCHANGED vars PROVE TypeThread'
  BY <1>9 DEF vars
<1> HIDE CacamRetryAssumption DEF TypeThread, Step
<1> QED
  BY <1>1, <1>2, <1>3, <1>4, <1>5, <1>6, <1>7, <1>8, <1>9 DEF Next, Worker

LEMMA TypeDevicesStep ==
  ASSUME TypeThread, TypeDevices, [Next]_vars
  PROVE  TypeDevices'
<1> USE DEF TypeDevices, TypeThread, AdbStages, Joinable, Step, usb, adb
<1>1. ASSUME NEW c \in Callers, Enter(c) \/ Continue(c) PROVE TypeDevices'
  BY <1>1 DEF Enter, Create, Update, Configure, Activate, Deactivate, Destroy,
     Continue, Start, RequestStop, Join
<1>2. ASSUME Begin \/ SleepRetry \/ StreamLost PROVE TypeDevices'
  BY <1>2 DEF Begin, SleepRetry, StreamLost
<1>3. ASSUME UsbExit \/ NoAccessory \/ OpenAccessory \/ StreamStopped \/ CloseConnection
      PROVE  TypeDevices'
  BY <1>3 DEF UsbExit, NoAccessory, OpenAccessory, StreamStopped, CloseConnection, ExitContext
<1>4. ASSUME RemoveOldForward \/ CreateForward \/ RemoveForward PROVE TypeDevices'
  BY <1>4 DEF RemoveOldForward, CreateForward, ForwardSucceeds, RemoveForward, Forwarded
<1>5. ASSUME \/ AdbExit \/ StartServer \/ ListDevices
             \/ Launch \/ AskHealth \/ GiveUpHealth \/ ReadSnapshot \/ SnapshotsStopped
      PROVE  TypeDevices'
  BY <1>5 DEF AdbExit, StartServer, ListDevices, Launch, AskHealth, GiveUpHealth,
     ReadSnapshot, SnapshotsStopped
<1>6. ASSUME NEW phone \in Phones, Plug(phone) \/ Unplug(phone) PROVE TypeDevices'
  BY <1>6 DEF Plug, Unplug
<1>7. ASSUME UNCHANGED vars PROVE TypeDevices'
  BY <1>7 DEF vars
<1> HIDE DEF TypeDevices, Step
<1> QED
  BY <1>1, <1>2, <1>3, <1>4, <1>5, <1>6, <1>7 DEF Next, Worker

-----------------------------------------------------------------------------
(* What the worker holds. *)

LEMMA WorkerFollowsModeStep ==
  ASSUME CacamTypeOK, WorkerFollowsMode, [Next]_vars
  PROVE  WorkerFollowsMode'
<1> USE DEF WorkerFollowsMode, UsbStages, AdbStages, Joinable, Step, thread
<1>1. ASSUME NEW c \in Callers, Enter(c) \/ Continue(c) PROVE WorkerFollowsMode'
  BY <1>1 DEF Enter, Create, Update, Configure, Activate, Deactivate, Destroy,
     Continue, Start, RequestStop, Join
<1>2. ASSUME \/ Begin \/ StreamLost \/ UsbExit \/ NoAccessory \/ OpenAccessory \/ StreamStopped
             \/ CloseConnection \/ AdbExit \/ StartServer \/ ListDevices
      PROVE  WorkerFollowsMode'
  BY <1>2 DEF Begin, StreamLost, UsbExit, NoAccessory, OpenAccessory, StreamStopped,
     CloseConnection, AdbExit, StartServer, ListDevices
<1>3. ASSUME \/ RemoveOldForward \/ CreateForward \/ Launch \/ AskHealth \/ GiveUpHealth
             \/ ReadSnapshot \/ SnapshotsStopped \/ RemoveForward
      PROVE  WorkerFollowsMode'
  BY <1>3 DEF RemoveOldForward, CreateForward, ForwardSucceeds, Launch, AskHealth,
     GiveUpHealth, ReadSnapshot, SnapshotsStopped, RemoveForward
<1>4. ASSUME SleepRetry PROVE WorkerFollowsMode'
  BY <1>4 DEF SleepRetry, CacamTypeOK, TypeThread, Setting
<1>5. ASSUME (\E phone \in Phones : Plug(phone) \/ Unplug(phone)) \/ UNCHANGED vars
      PROVE  WorkerFollowsMode'
  BY <1>5 DEF Plug, Unplug, vars
<1> HIDE DEF WorkerFollowsMode, Step
<1> QED
  BY <1>1, <1>2, <1>3, <1>4, <1>5 DEF Next, Worker

LEMMA UsbReleasedStep ==
  ASSUME CacamTypeOK, WorkerFollowsMode, UsbReleased, [Next]_vars
  PROVE  UsbReleased'
<1> USE DEF UsbReleased, UsbStages, Joinable, Step, usb, thread
<1>1. ASSUME NEW c \in Callers, Enter(c) PROVE UsbReleased'
  BY <1>1 DEF Enter, Create, Update, Configure, Activate, Deactivate, Destroy
<1>2. ASSUME NEW c \in Callers, Continue(c) PROVE UsbReleased'
  BY <1>2 DEF Continue, Start, RequestStop, Join, Joined
<1>3. ASSUME Begin PROVE UsbReleased'
  BY <1>3 DEF Begin
<1>4. ASSUME SleepRetry \/ StreamLost PROVE UsbReleased'
  <2>1. Joinable => running.mode \in {"usb", "adb"}
    BY DEF CacamTypeOK, TypeThread, Setting
  <2> QED
    BY <1>4, <2>1 DEF SleepRetry, StreamLost
<1>5. ASSUME UsbExit \/ NoAccessory \/ OpenAccessory \/ StreamStopped \/ CloseConnection
      PROVE  UsbReleased'
  BY <1>5 DEF UsbExit, NoAccessory, OpenAccessory, StreamStopped, CloseConnection, ExitContext
<1>6. ASSUME \/ AdbExit \/ StartServer \/ ListDevices \/ RemoveOldForward \/ CreateForward
             \/ Launch \/ AskHealth \/ GiveUpHealth \/ ReadSnapshot \/ SnapshotsStopped
             \/ RemoveForward
      PROVE  UsbReleased'
  BY <1>6 DEF AdbExit, StartServer, ListDevices, RemoveOldForward, CreateForward,
     ForwardSucceeds, Launch, AskHealth, GiveUpHealth, ReadSnapshot, SnapshotsStopped,
     RemoveForward, WorkerFollowsMode, AdbStages
<1>7. ASSUME NEW phone \in Phones, Plug(phone) \/ Unplug(phone) PROVE UsbReleased'
  BY <1>7 DEF Plug, Unplug
<1>8. ASSUME UNCHANGED vars PROVE UsbReleased'
  BY <1>8 DEF vars
<1> HIDE DEF UsbReleased, Step
<1> QED
  BY <1>1, <1>2, <1>3, <1>4, <1>5, <1>6, <1>7, <1>8 DEF Next, Worker

LEMMA OnlySelectedPhoneStep ==
  ASSUME CacamTypeOK, OnlySelectedPhone, [Next]_vars
  PROVE  OnlySelectedPhone'
<1> USE DEF OnlySelectedPhone, Joinable, Step, thread, adb
<1>1. ASSUME NEW c \in Callers, Enter(c) PROVE OnlySelectedPhone'
  BY <1>1 DEF Enter, Create, Update, Configure, Activate, Deactivate, Destroy
<1>2. ASSUME NEW c \in Callers, Continue(c) PROVE OnlySelectedPhone'
  BY <1>2 DEF Continue, Start, RequestStop, Join
<1>3. ASSUME Begin \/ SleepRetry \/ StreamLost PROVE OnlySelectedPhone'
  <2>1. Joinable => running.mode \in {"usb", "adb"}
    BY DEF CacamTypeOK, TypeThread, Setting
  <2> QED
    BY <1>3, <2>1 DEF Begin, SleepRetry, StreamLost
<1>4. ASSUME \/ UsbExit \/ NoAccessory \/ OpenAccessory \/ StreamStopped \/ CloseConnection
             \/ AdbExit \/ StartServer \/ ListDevices \/ RemoveOldForward \/ RemoveForward
      PROVE  OnlySelectedPhone'
  BY <1>4 DEF UsbExit, NoAccessory, OpenAccessory, StreamStopped, CloseConnection,
     AdbExit, StartServer, ListDevices, RemoveOldForward, RemoveForward
<1>5. ASSUME CreateForward PROVE OnlySelectedPhone'
  <2>1. CASE Step("forward", "sleep")
    BY <2>1
  <2>2. CASE ForwardSucceeds
    <3>1. running.port \in Ports
      BY <2>2 DEF ForwardSucceeds, CacamTypeOK, TypeThread, Setting
    <3> QED
      BY <1>5, <2>2, <3>1 DEF CreateForward, ForwardSucceeds, Forwarded, CacamTypeOK, TypeDevices
  <2> QED
    BY <1>5, <2>1, <2>2 DEF CreateForward
<1>6. ASSUME Launch \/ AskHealth \/ GiveUpHealth \/ ReadSnapshot \/ SnapshotsStopped
      PROVE  OnlySelectedPhone'
  BY <1>6 DEF Launch, AskHealth, GiveUpHealth, ReadSnapshot, SnapshotsStopped
<1>7. ASSUME NEW phone \in Phones, Plug(phone) \/ Unplug(phone) PROVE OnlySelectedPhone'
  <2>1. Joinable => running.port \in Ports
    BY DEF CacamTypeOK, TypeThread, Setting
  <2> QED
    BY <1>7, <2>1 DEF Plug, Unplug
<1>8. ASSUME UNCHANGED vars PROVE OnlySelectedPhone'
  BY <1>8 DEF vars
<1> HIDE DEF OnlySelectedPhone, Step
<1> QED
  BY <1>1, <1>2, <1>3, <1>4, <1>5, <1>6, <1>7, <1>8 DEF Next, Worker

-----------------------------------------------------------------------------
(* The callbacks.  All a worker step can do to them is to end the thread,   *)
(* which leaves it joinable.                                                *)

LEMMA WorkerLeavesCallbacks ==
  ASSUME TypeThread,
         \/ Worker \/ StreamLost
         \/ \E phone \in Phones : Plug(phone) \/ Unplug(phone)
         \/ UNCHANGED vars
  PROVE  UNCHANGED <<callbacks, running>> /\ Joinable' = Joinable
<1> USE DEF Step, Joinable, thread, callbacks
<1>1. ASSUME \/ Begin \/ UsbExit \/ NoAccessory \/ OpenAccessory \/ StreamStopped
             \/ CloseConnection \/ StreamLost \/ AdbExit \/ StartServer \/ ListDevices
      PROVE  UNCHANGED <<callbacks, running>> /\ Joinable' = Joinable
  BY <1>1 DEF Begin, UsbExit, NoAccessory, OpenAccessory, StreamStopped, CloseConnection,
     StreamLost, AdbExit, StartServer, ListDevices
<1>2. ASSUME \/ RemoveOldForward \/ CreateForward \/ Launch \/ AskHealth \/ GiveUpHealth
             \/ ReadSnapshot \/ SnapshotsStopped \/ RemoveForward
      PROVE  UNCHANGED <<callbacks, running>> /\ Joinable' = Joinable
  BY <1>2 DEF RemoveOldForward, CreateForward, ForwardSucceeds, Launch, AskHealth,
     GiveUpHealth, ReadSnapshot, SnapshotsStopped, RemoveForward
<1>3. ASSUME (\E phone \in Phones : Plug(phone) \/ Unplug(phone)) \/ UNCHANGED vars
      PROVE  UNCHANGED <<callbacks, running>> /\ Joinable' = Joinable
  BY <1>3 DEF Plug, Unplug, vars
<1>4. ASSUME SleepRetry
      PROVE  UNCHANGED <<callbacks, running>> /\ Joinable' = Joinable
  BY <1>4 DEF SleepRetry, TypeThread, Setting
<1> HIDE DEF Step, Joinable
<1> QED
  BY <1>1, <1>2, <1>3, <1>4 DEF Worker

LEMMA JoinIsProtectedStep ==
  ASSUME CacamTypeOK, JoinIsProtected, [Next]_vars
  PROVE  JoinIsProtected'
<1> USE CacamNoneAssumption DEF JoinIsProtected
<1>1. ASSUME NEW c \in Callers, Enter(c) PROVE JoinIsProtected'
  <2>1. stage[c] = "idle" /\ UNCHANGED <<workerMutex, stopRequested, wstage>>
    BY <1>1 DEF Enter, Create, Update, Configure, Activate, Deactivate, Destroy, Quiet, thread
  <2>2. \A d \in Callers \ {c} : stage'[d] = stage[d]
    BY <1>1 DEF Enter, Create, Update, Configure, Activate, Deactivate, Destroy, GoTo,
       CacamTypeOK, TypeCallbacks
  <2> QED
    BY <2>1, <2>2 DEF Joinable, CacamTypeOK, TypeCallbacks
<1>2. ASSUME NEW c \in Callers, Start(c) PROVE JoinIsProtected'
  BY <1>2 DEF Start, MayLock
<1>3. ASSUME NEW c \in Callers, RequestStop(c) PROVE JoinIsProtected'
  <2>1. CASE Joinable
    BY <1>3, <2>1 DEF RequestStop, MayLock, Joinable, thread
  <2>2. CASE ~Joinable
    BY <1>3, <2>2 DEF RequestStop, MayLock
  <2> QED
    BY <2>1, <2>2
<1>4. ASSUME NEW c \in Callers, Join(c) PROVE JoinIsProtected'
  BY <1>4 DEF Join
<1>5. ASSUME UNCHANGED <<callbacks, running>>, Joinable' = Joinable PROVE JoinIsProtected'
  BY <1>5 DEF callbacks
<1> QED
  BY <1>1, <1>2, <1>3, <1>4, <1>5, WorkerLeavesCallbacks DEF Next, Continue, CacamTypeOK

LEMMA StaleWorkerIsStoppedStep ==
  ASSUME CacamTypeOK, JoinIsProtected, StaleWorkerIsStopped, [Next]_vars
  PROVE  StaleWorkerIsStopped'
<1> USE CacamNoneAssumption DEF StaleWorkerIsStopped
<1>1. ASSUME NEW c \in Callers, NEW s \in Settings, Configure(c, s) PROVE StaleWorkerIsStopped'
  <2>1. Joinable' = Joinable /\ running' = running
    BY <1>1 DEF Configure, thread, Joinable
  <2>2. \A d \in Callers : stage[d] = "restart" => stage'[d] = "restart"
    BY <1>1 DEF Configure, GoTo, CacamTypeOK, TypeCallbacks
  <2>3. CASE s # currentSettings
    BY <1>1, <2>3 DEF Configure, GoTo, AfterSettings, CacamTypeOK, TypeCallbacks
  <2>4. CASE s = currentSettings
    BY <1>1, <2>1, <2>2, <2>4 DEF Configure
  <2> QED
    BY <2>3, <2>4
<1>2. ASSUME NEW c \in Callers, Activate(c) \/ Deactivate(c) \/ Destroy(c)
      PROVE  StaleWorkerIsStopped'
  <2>1. UNCHANGED <<running, currentSettings>> /\ Joinable' = Joinable
    BY <1>2 DEF Activate, Deactivate, Destroy, thread, Joinable
  <2>2. \A d \in Callers : stage[d] = "restart" => stage'[d] = "restart"
    BY <1>2 DEF Activate, Deactivate, Destroy, Quiet, GoTo, CacamTypeOK, TypeCallbacks
  <2> QED
    BY <2>1, <2>2
<1>3. ASSUME NEW c \in Callers, Start(c) PROVE StaleWorkerIsStopped'
  <2>1. \A d \in Callers : stage[d] = "restart" => stage'[d] = "restart"
    BY <1>3 DEF Start, Proceed, GoTo, CacamTypeOK, TypeCallbacks
  <2>2. CASE Joinable
    BY <1>3, <2>1, <2>2 DEF Start, Joinable
  <2>3. CASE ~Joinable
    BY <1>3, <2>3 DEF Start, Joinable
  <2> QED
    BY <2>2, <2>3
<1>4. ASSUME NEW c \in Callers, RequestStop(c) PROVE StaleWorkerIsStopped'
  BY <1>4 DEF RequestStop, thread, Joinable
<1>5. ASSUME NEW c \in Callers, Join(c) PROVE StaleWorkerIsStopped'
  BY <1>5 DEF Join, Joinable
<1>6. ASSUME UNCHANGED <<callbacks, running>>, Joinable' = Joinable PROVE StaleWorkerIsStopped'
  BY <1>6 DEF callbacks
<1> QED
  BY <1>1, <1>2, <1>3, <1>4, <1>5, <1>6, WorkerLeavesCallbacks
  DEF Next, Enter, Create, Update, Continue, CacamTypeOK

LEMMA DestructionIsLastStep ==
  ASSUME CacamTypeOK, JoinIsProtected, DestructionIsLast, [Next]_vars
  PROVE  DestructionIsLast'
<1> USE CacamNoneAssumption DEF DestructionIsLast, Quiet, CacamTypeOK, TypeCallbacks
<1>1. ASSUME NEW c \in Callers, Create(c) \/ Update(c) \/ Activate(c) \/ Deactivate(c)
      PROVE  DestructionIsLast'
  BY <1>1 DEF Create, Update, Configure, Activate, Deactivate
<1>2. ASSUME NEW c \in Callers, Destroy(c) PROVE DestructionIsLast'
  BY <1>2 DEF Destroy, GoTo
<1>3. ASSUME NEW c \in Callers, Start(c) PROVE DestructionIsLast'
  BY <1>3 DEF Start, Proceed
<1>4. ASSUME NEW c \in Callers, RequestStop(c) PROVE DestructionIsLast'
  <2>1. CASE Joinable
    BY <1>4, <2>1 DEF RequestStop, Joinable, thread
  <2>2. CASE ~Joinable
    BY <1>4, <2>2 DEF RequestStop, Proceed, GoTo, Joinable, thread
  <2> QED
    BY <2>1, <2>2
<1>5. ASSUME NEW c \in Callers, Join(c) PROVE DestructionIsLast'
  BY <1>5 DEF Join, Proceed, GoTo, Joinable, JoinIsProtected
<1>6. ASSUME UNCHANGED <<callbacks, running>>, Joinable' = Joinable PROVE DestructionIsLast'
  BY <1>6 DEF callbacks
<1> HIDE DEF DestructionIsLast
<1> QED
  BY <1>1, <1>2, <1>3, <1>4, <1>5, <1>6, WorkerLeavesCallbacks DEF Next, Enter, Continue

LEMMA CallbackFollowsSettingsStep ==
  ASSUME CacamTypeOK, JoinIsProtected, DestructionIsLast, CallbackFollowsSettings, [Next]_vars
  PROVE  CallbackFollowsSettings'
<1> USE DEF CallbackFollowsSettings, CacamTypeOK, TypeCallbacks, Quiet
<1>1. ASSUME NEW c \in Callers, NEW s \in Settings, Configure(c, s)
      PROVE  CallbackFollowsSettings'
  <2>1. s.auto \in BOOLEAN
    BY CacamSettingsAssumption DEF Setting
  <2>2. ASSUME alone'
        PROVE  \A d \in Callers \ {c} : stage[d] = "idle" /\ stage'[d] = "idle"
    BY <1>1, <2>2 DEF Configure, GoTo
  <2>3. /\ stage'[c] \in {"restart", StageFor(s.auto)}
        /\ wants'[c] = s.auto /\ currentSettings' = s
    BY <1>1, <2>1 DEF Configure, GoTo, AfterSettings
  <2> QED
    BY <2>1, <2>2, <2>3 DEF StageFor
<1>2. ASSUME NEW c \in Callers, Activate(c) \/ Deactivate(c) PROVE CallbackFollowsSettings'
  <2>1. /\ alone' => \A d \in Callers : stage[d] = "idle"
        /\ stage' = [stage EXCEPT ![c] = IF currentSettings.auto THEN "start" ELSE "stop"]
        /\ UNCHANGED <<life, currentSettings>>
    BY <1>2 DEF Activate, Deactivate, MayActivate, GoTo
  <2> QED
    BY <2>1
<1>3. ASSUME NEW c \in Callers, Destroy(c) PROVE CallbackFollowsSettings'
  BY <1>3 DEF Destroy, GoTo
<1>4. ASSUME NEW c \in Callers, Start(c) \/ RequestStop(c) \/ Join(c)
      PROVE  CallbackFollowsSettings'
  <2>1. CASE UNCHANGED <<life, stage, wants, currentSettings, alone>>
    BY <2>1
  <2>2. CASE Proceed(c) /\ UNCHANGED <<wants, currentSettings, alone>>
    <3>1. stage[c] \in {"restart", "start", "stop"}
      BY <1>4, CacamNoneAssumption DEF Start, RequestStop, Join, JoinIsProtected
    <3>2. CASE stage[c] = "restart"
      BY <2>2, <3>2 DEF Proceed, GoTo, StageFor
    <3>3. CASE stage[c] # "restart"
      BY <2>2, <3>1, <3>3 DEF Proceed, GoTo
    <3> QED
      BY <3>2, <3>3
  <2> QED
    BY <1>4, <2>1, <2>2 DEF Start, RequestStop, Join
<1>5. ASSUME UNCHANGED callbacks PROVE CallbackFollowsSettings'
  BY <1>5 DEF callbacks
<1> HIDE DEF CallbackFollowsSettings
<1> QED
  BY <1>1, <1>2, <1>3, <1>4, <1>5, WorkerLeavesCallbacks
  DEF Next, Enter, Continue, Create, Update, callbacks

LEMMA WorkerIffAutomaticStep ==
  ASSUME CacamTypeOK, JoinIsProtected, CallbackFollowsSettings, WorkerIffAutomatic, [Next]_vars
  PROVE  WorkerIffAutomatic'
<1> USE DEF WorkerIffAutomatic, CacamTypeOK, TypeCallbacks, Quiet
<1>1. ASSUME NEW c \in Callers, Enter(c) PROVE WorkerIffAutomatic'
  <2>1. stage'[c] # "idle"
    BY <1>1 DEF Enter, Create, Update, Configure, Activate, Deactivate, Destroy, GoTo,
       AfterSettings, StageFor
  <2> QED
    BY <2>1
<1>2. ASSUME NEW c \in Callers, Start(c) PROVE WorkerIffAutomatic'
  BY <1>2 DEF Start, Joinable, CallbackFollowsSettings
<1>3. ASSUME NEW c \in Callers, RequestStop(c) \/ Join(c) PROVE WorkerIffAutomatic'
  <2>1. CASE UNCHANGED stage
    <3>1. stage[c] # "idle"
      BY <1>3, CacamNoneAssumption DEF RequestStop, Join, JoinIsProtected
    <3> QED
      BY <2>1, <3>1
  <2>2. CASE Proceed(c) /\ ~Joinable' /\ UNCHANGED <<currentSettings, alone>>
    <3>1. stage[c] \in {"restart", "stop"}
      BY <1>3, CacamNoneAssumption DEF RequestStop, Join, JoinIsProtected
    <3>2. CASE stage[c] = "restart"
      BY <2>2, <3>2 DEF Proceed, GoTo, StageFor
    <3>3. CASE stage[c] = "stop"
      BY <2>2, <3>3 DEF Proceed, CallbackFollowsSettings
    <3> QED
      BY <3>1, <3>2, <3>3
  <2> QED
    BY <1>3, <2>1, <2>2 DEF RequestStop, Join, Joinable, thread
<1>4. ASSUME UNCHANGED callbacks, Joinable' = Joinable PROVE WorkerIffAutomatic'
  BY <1>4 DEF callbacks
<1> HIDE DEF WorkerIffAutomatic
<1> QED
  BY <1>1, <1>2, <1>3, <1>4, WorkerLeavesCallbacks DEF Next, Continue, CacamTypeOK, callbacks

-----------------------------------------------------------------------------
(* The theorems. *)

\* The inductive invariant of the source: what a joining caller holds, which
\* worker is about to be stopped, and what the worker has open at each step.
THEOREM CacamInvariantHolds == Spec => []CacamInvariant
<1>1. CacamInvariant /\ [Next]_vars => CacamInvariant'
  BY TypeCallbacksStep, TypeThreadStep, TypeDevicesStep, WorkerFollowsModeStep,
     UsbReleasedStep, OnlySelectedPhoneStep, JoinIsProtectedStep, StaleWorkerIsStoppedStep,
     DestructionIsLastStep, CallbackFollowsSettingsStep, WorkerIffAutomaticStep
  DEF CacamInvariant, CacamTypeOK
<1> QED
  BY <1>1, InitEstablishes, PTL DEF Spec

\* libusb and its interface are held exactly while the USB worker uses them.
THEOREM UsbIsReleased == Spec => []UsbReleased
<1>1. CacamInvariant => UsbReleased
  BY DEF CacamInvariant
<1> QED
  BY <1>1, CacamInvariantHolds, PTL

\* Between callbacks the worker runs with the settings applied last.
THEOREM WorkerIsCurrent == Spec => []WorkerRunsCurrentSettings
<1>1. CacamInvariant => WorkerRunsCurrentSettings
  BY DEF CacamInvariant, StaleWorkerIsStopped, WorkerRunsCurrentSettings, Quiet
<1> QED
  BY <1>1, CacamInvariantHolds, PTL

\* Auto-connect is a policy of the connection: while callbacks do not overlap there is
\* a worker between them exactly if the settings ask for one, active or not.
THEOREM WorkerFollowsPolicy == Spec => []WorkerIffAutomatic
<1>1. CacamInvariant => WorkerIffAutomatic
  BY DEF CacamInvariant
<1> QED
  BY <1>1, CacamInvariantHolds, PTL

\* Snapshots come from the selected phone only.
THEOREM SelectedPhoneOnly == Spec => []OnlySelectedPhone
<1>1. CacamInvariant => OnlySelectedPhone
  BY DEF CacamInvariant
<1> QED
  BY <1>1, CacamInvariantHolds, PTL

\* A destroyed source has no thread, no open device and no waiting caller.
THEOREM DestroyedIsEmpty == Spec => []DestroyedLeavesNothing
<1>1. CacamInvariant => DestroyedLeavesNothing
  BY DEF CacamInvariant, DestructionIsLast, JoinIsProtected, UsbReleased, DestroyedLeavesNothing,
     Joinable, CacamTypeOK, TypeCallbacks, TypeDevices
<1> QED
  BY <1>1, CacamInvariantHolds, PTL

-----------------------------------------------------------------------------
(* A stop() that waits.  It holds the mutex, so the flag stays up and no      *)
(* worker is started; and with the flag up every loop of the worker ends.     *)

LEMMA NobodyStarts ==
  ASSUME CacamTypeOK, JoinIsProtected, workerMutex # None, workerMutex' = workerMutex,
         NEW c \in Callers, Enter(c) \/ Continue(c)
  PROVE  UNCHANGED thread
BY CacamNoneAssumption DEF Enter, Create, Update, Configure, Activate, Deactivate, Destroy,
   Continue, Start, RequestStop, Join, MayLock

LEMMA WorkerComesNearer ==
  ASSUME CacamTypeOK, stopRequested, Worker \/ StreamLost
  PROVE  StepsToExit[wstage'] < StepsToExit[wstage]
<1> USE DEF StepsToExit, Step
<1>1. CASE Begin
  BY <1>1 DEF Begin
<1>2. CASE SleepRetry
  <2>1. running.mode \in {"usb", "adb"}
    BY <1>2 DEF SleepRetry, CacamTypeOK, TypeThread, Joinable, Setting
  <2> QED
    BY <1>2, <2>1 DEF SleepRetry
<1>3. CASE UsbExit \/ NoAccessory \/ OpenAccessory \/ StreamStopped \/ StreamLost \/ CloseConnection
  BY <1>3 DEF UsbExit, NoAccessory, OpenAccessory, StreamStopped, StreamLost, CloseConnection
<1>4. CASE AdbExit \/ StartServer \/ ListDevices \/ RemoveOldForward
  BY <1>4 DEF AdbExit, StartServer, ListDevices, RemoveOldForward
<1>5. CASE CreateForward \/ Launch \/ RemoveForward
  BY <1>5 DEF CreateForward, ForwardSucceeds, Launch, RemoveForward
<1>6. CASE AskHealth \/ GiveUpHealth \/ ReadSnapshot \/ SnapshotsStopped
  BY <1>6 DEF AskHealth, GiveUpHealth, ReadSnapshot, SnapshotsStopped
<1> HIDE DEF StepsToExit, Step
<1> QED
  BY <1>1, <1>2, <1>3, <1>4, <1>5, <1>6 DEF Worker

\* A stop() waits for eight steps of the worker at most, whoever else calls the source.
THEOREM JoinNeedsFewSteps == Spec => JoinDrawsNearer
<1>1. ASSUME CacamTypeOK, JoinIsProtected, [Next]_vars,
             workerMutex # None, workerMutex' = workerMutex
      PROVE  UNCHANGED thread \/ StepsToExit[wstage'] < StepsToExit[wstage]
  <2>1. stopRequested
    BY <1>1 DEF JoinIsProtected
  <2>2. CASE \E phone \in Phones : Plug(phone) \/ Unplug(phone)
    BY <2>2 DEF Plug, Unplug
  <2>3. CASE UNCHANGED vars
    BY <2>3 DEF vars
  <2> QED
    BY <1>1, <2>1, <2>2, <2>3, NobodyStarts, WorkerComesNearer DEF Next
<1>2. CacamInvariant /\ [Next]_vars =>
        [workerMutex # None /\ workerMutex' = workerMutex =>
           UNCHANGED thread \/ StepsToExit[wstage'] < StepsToExit[wstage]]_vars
  BY <1>1 DEF CacamInvariant
<1> QED
  BY <1>2, CacamInvariantHolds, PTL DEF Spec, JoinDrawsNearer
=============================================================================
