---------------------------- MODULE CacamSource ----------------------------
(***************************************************************************)
(* The phone camera source (src/src/cacam-usb-source.cpp): the OBS         *)
(* callbacks that create, update, activate, deactivate and destroy it, and *)
(* its one worker thread, which connects to a phone over USB or through    *)
(* adb, streams until the connection is lost or a stop is requested, and   *)
(* tries again.                                                            *)
(*                                                                         *)
(* workerMutex is held across steps by a stop() that joins the worker; the *)
(* other critical sections are single actions.  How the worker finds and   *)
(* opens a USB accessory is the subject of CacamAccessory, how it reads    *)
(* the stream that of CacamStream.                                         *)
(***************************************************************************)
EXTENDS Naturals, FiniteSets

CONSTANTS
  Callers,           \* threads that may be inside a callback
  Phones, Ports,     \* adb serials and local TCP ports
  Settings,          \* the settings a user may apply
  DefaultPort,       \* ADB_LOCAL_PORT_DEFAULT
  HealthRetries,     \* ADB_HEALTH_RETRY_COUNT
  SnapshotFailures,  \* consecutive failures that end a snapshot session
  None               \* no phone, no thread, no settings

\* The settings that tell connections apart; whatever else differs between two
\* SourceSettings (quality, paths, package) only makes them different.
Setting == [mode : {"usb", "adb"}, auto : BOOLEAN,
            serial : Phones \cup {None}, port : Ports, quality : {"standard", "hd"}]

DefaultSettings == [mode |-> "usb", auto |-> TRUE, serial |-> None,
                    port |-> DefaultPort, quality |-> "standard"]

ASSUME CacamSettingsAssumption == Settings \subseteq Setting /\ DefaultPort \in Ports
ASSUME CacamNoneAssumption     == None \notin Callers \cup Phones \cup Setting
ASSUME CacamRetryAssumption    == HealthRetries \in Nat \ {0} /\ SnapshotFailures \in Nat \ {0}

VARIABLES
  life,             \* "new", "creating", "live", "dying", "gone"
  stage,            \* stage[c]: the start() or stop() that caller c runs next, or "idle"
  wants,            \* wants[c]: next_settings.auto_connect of the update c runs
  currentSettings, workerMutex, stopRequested,
  wstage, running,  \* the worker thread ("none": not joinable) and its settings
  serial, attempts, \* locals of the adb worker
  context, claimed, \* libusb: initialised; a handle is open and its interface claimed
  phones, forwards, \* adb: the authorised phones; which phone a local port leads to
  alone             \* history: whether no two callbacks overlapped since the last
                    \* update began

callbacks == <<life, stage, wants, currentSettings, workerMutex, stopRequested, alone>>
thread    == <<wstage, running, serial, attempts>>
usb       == <<context, claimed>>
adb       == <<phones, forwards>>
vars      == <<callbacks, thread, usb, adb>>

Quiet == \A c \in Callers : stage[c] = "idle"

Joinable == wstage # "none"

\* The definitions named Variant... are those beside them with one plausible slip;
\* no specification uses them.  They show which slip each property would catch.

Init ==
  /\ life = "new"
  /\ stage = [c \in Callers |-> "idle"]
  /\ wants = [c \in Callers |-> FALSE]
  /\ currentSettings = DefaultSettings
  /\ workerMutex = None
  /\ stopRequested = FALSE
  /\ wstage = "none" /\ running = None /\ serial = None /\ attempts = 0
  /\ context = FALSE /\ claimed = FALSE
  /\ phones \in SUBSET Phones
  /\ forwards = [p \in Ports |-> None]
  /\ alone = TRUE

-----------------------------------------------------------------------------
(* The callbacks.  Each runs start() and stop() one after another; stage[c] *)
(* names the one it is about to run: "restart" is the stop() of an update   *)
(* whose settings changed, which start() or stop() follows.                 *)

GoTo(c, s) == stage' = [stage EXCEPT ![c] = s]

StageFor(auto) == IF auto THEN "start" ELSE "stop"

VariantForgetsRestart(s) == StageFor(s.auto)

AfterSettings(s) == IF s # currentSettings THEN "restart" ELSE StageFor(s.auto)

\* update: the settings are swapped under settings_mutex
Configure(c, s) ==
  /\ stage[c] = "idle"
  /\ currentSettings' = s
  /\ wants' = [wants EXCEPT ![c] = s.auto]
  /\ GoTo(c, AfterSettings(s))
  /\ alone' = Quiet
  /\ UNCHANGED <<workerMutex, stopRequested, thread, usb, adb>>

Create(c) ==
  /\ life = "new" /\ life' = "creating"
  /\ \E s \in Settings : Configure(c, s)

Update(c) ==
  /\ life = "live" /\ UNCHANGED life
  /\ \E s \in Settings : Configure(c, s)

VariantAlwaysActivates == TRUE

MayActivate == currentSettings.auto

Activate(c) ==
  /\ life = "live" /\ stage[c] = "idle"
  /\ MayActivate
  /\ GoTo(c, "start")
  /\ alone' = (alone /\ Quiet)
  /\ UNCHANGED <<life, wants, currentSettings, workerMutex, stopRequested, thread, usb, adb>>

Deactivate(c) ==
  /\ life = "live" /\ stage[c] = "idle"
  /\ ~currentSettings.auto
  /\ GoTo(c, "stop")
  /\ alone' = (alone /\ Quiet)
  /\ UNCHANGED <<life, wants, currentSettings, workerMutex, stopRequested, thread, usb, adb>>

\* OBS destroys a source when no other callback of it runs.
Destroy(c) ==
  /\ life = "live" /\ Quiet
  /\ life' = "dying"
  /\ GoTo(c, "stop")
  /\ alone' = (alone /\ Quiet)
  /\ UNCHANGED <<wants, currentSettings, workerMutex, stopRequested, thread, usb, adb>>

\* what the callback of c does after its start() or stop()
Proceed(c) ==
  IF stage[c] = "restart"
  THEN GoTo(c, StageFor(wants[c])) /\ UNCHANGED life
  ELSE /\ GoTo(c, "idle")
       /\ life' = CASE life = "creating" -> "live"
                    [] life = "dying"    -> "gone"
                    [] OTHER             -> life

\* lock_guard(worker_mutex)
MayLock == workerMutex = None

Start(c) ==
  /\ stage[c] = "start" /\ MayLock
  /\ Proceed(c)
  /\ \/ Joinable /\ UNCHANGED <<stopRequested, wstage, running>>
     \/ /\ ~Joinable
        /\ stopRequested' = FALSE
        /\ wstage' = "begin"
        /\ running' = currentSettings
  /\ UNCHANGED <<wants, currentSettings, workerMutex, alone, serial, attempts, usb, adb>>

\* stop() as far as the join
RequestStop(c) ==
  /\ stage[c] \in {"restart", "stop"} /\ MayLock
  /\ stopRequested' = TRUE
  /\ \/ Joinable /\ workerMutex' = c /\ UNCHANGED <<life, stage>>
     \/ ~Joinable /\ Proceed(c) /\ UNCHANGED workerMutex
  /\ UNCHANGED <<wants, currentSettings, alone, thread, usb, adb>>

Joined == wstage = "exited"

Join(c) ==
  /\ workerMutex = c /\ Joined
  /\ wstage' = "none" /\ running' = None /\ serial' = None /\ attempts' = 0
  /\ workerMutex' = None
  /\ Proceed(c)
  /\ UNCHANGED <<wants, currentSettings, stopRequested, alone, usb, adb>>

-----------------------------------------------------------------------------
(* The worker: what both connection modes share. *)

\* guard and frame of a worker step that leads from one place to another
Step(from, to) ==
  /\ wstage = from /\ wstage' = to
  /\ UNCHANGED <<callbacks, running, phones>>

\* worker_loop as far as its first loop; libusb may be missing or fail to start
Begin ==
  \/ /\ Step("begin", "adb") /\ running.mode = "adb"
     /\ UNCHANGED <<serial, attempts, context, claimed, forwards>>
  \/ /\ Step("begin", "usb") /\ running.mode = "usb"
     /\ context' = TRUE
     /\ UNCHANGED <<serial, attempts, claimed, forwards>>
  \/ /\ Step("begin", "exited") /\ running.mode = "usb"
     /\ UNCHANGED <<serial, attempts, context, claimed, forwards>>

\* sleep_retry: until the deadline or a stop
SleepRetry ==
  /\ Step("sleep", running.mode)
  /\ UNCHANGED <<serial, attempts, context, claimed, forwards>>

-----------------------------------------------------------------------------
(* The USB worker *)

ExitContext == context' = FALSE

UsbExit ==
  /\ stopRequested /\ Step("usb", "exited")
  /\ ExitContext
  /\ UNCHANGED <<serial, attempts, claimed, forwards>>

\* no accessory could be opened; perhaps a phone was asked to become one
NoAccessory ==
  /\ ~stopRequested /\ Step("usb", "sleep")
  /\ UNCHANGED <<serial, attempts, context, claimed, forwards>>

OpenAccessory ==
  /\ ~stopRequested /\ Step("usb", "stream")
  /\ claimed' = TRUE
  /\ UNCHANGED <<serial, attempts, context, forwards>>

VariantOnlyErrorsEndStream == FALSE

StreamMustEnd == stopRequested

\* read_exact and the loop of read_stream test the flag at least once a second
StreamStopped ==
  /\ StreamMustEnd /\ Step("stream", "close")
  /\ UNCHANGED <<serial, attempts, context, claimed, forwards>>

\* a bulk transfer failed: the phone was unplugged
StreamLost ==
  /\ Step("stream", "close")
  /\ UNCHANGED <<serial, attempts, context, claimed, forwards>>

CloseConnection ==
  /\ Step("close", "sleep")
  /\ claimed' = FALSE
  /\ UNCHANGED <<serial, attempts, context, forwards>>

-----------------------------------------------------------------------------
(* The adb worker.  A command may fail, time out or be cancelled at any     *)
(* time, after the adb server has obeyed it or before.                      *)

AdbExit ==
  /\ stopRequested /\ Step("adb", "exited")
  /\ UNCHANGED <<serial, attempts, context, claimed, forwards>>

\* adb start-server, whose exit code is not looked at
StartServer ==
  /\ ~stopRequested /\ Step("adb", "devices")
  /\ UNCHANGED <<serial, attempts, context, claimed, forwards>>

\* the phones that prepare_adb_device may choose: the configured one, or else the
\* only one; without a configured one, whichever is listed first
Eligible ==
  IF running.serial \in phones THEN {running.serial}
  ELSE {p \in phones : running.serial = None \/ phones = {p}}

ListDevices ==
  \/ /\ Step("devices", "unforward")
     /\ serial' \in Eligible
     /\ UNCHANGED <<attempts, context, claimed, forwards>>
  \/ /\ Step("devices", "sleep")
     /\ UNCHANGED <<serial, attempts, context, claimed, forwards>>

\* what may become of the local port when the command asks to lead it to `phone'
Forwarded(phone) == forwards' = [forwards EXCEPT ![running.port] = phone]

\* forward --remove before the new forward: the exit code is not looked at
RemoveOldForward ==
  /\ Step("unforward", "forward")
  /\ Forwarded(None) \/ UNCHANGED forwards
  /\ UNCHANGED <<serial, attempts, context, claimed>>

VariantForwardUnchecked ==
  /\ Step("forward", "launch")
  /\ Forwarded(serial) \/ UNCHANGED forwards

ForwardSucceeds ==
  /\ Step("forward", "launch")
  /\ serial \in phones
  /\ Forwarded(serial)

CreateForward ==
  /\ \/ ForwardSucceeds
     \/ /\ Step("forward", "sleep")
        /\ \/ serial \in phones /\ Forwarded(serial)
           \/ UNCHANGED forwards
  /\ UNCHANGED <<serial, attempts, context, claimed>>

\* am start; when it fails the forward stays
Launch ==
  /\ \/ serial \in phones /\ Step("launch", "health")
     \/ Step("launch", "sleep")
  /\ attempts' = 0
  /\ UNCHANGED <<serial, context, claimed, forwards>>

\* an HTTP request through the local port may be answered
Reachable == forwards[running.port] # None

AskHealth ==
  /\ ~stopRequested /\ attempts < HealthRetries
  /\ \/ /\ Step("health", "snapshots") /\ Reachable
        /\ attempts' = 0
     \/ /\ Step("health", "health")
        /\ attempts' = attempts + 1
  /\ UNCHANGED <<serial, context, claimed, forwards>>

GiveUpHealth ==
  /\ stopRequested \/ attempts = HealthRetries
  /\ Step("health", "remove")
  /\ attempts' = 0
  /\ UNCHANGED <<serial, context, claimed, forwards>>

ReadSnapshot ==
  /\ ~stopRequested
  /\ \/ /\ Step("snapshots", "snapshots") /\ Reachable
        /\ attempts' = 0
     \/ /\ attempts + 1 < SnapshotFailures /\ Step("snapshots", "snapshots")
        /\ attempts' = attempts + 1
     \/ /\ attempts + 1 >= SnapshotFailures /\ Step("snapshots", "remove")
        /\ attempts' = 0
  /\ UNCHANGED <<serial, context, claimed, forwards>>

SnapshotsStopped ==
  /\ stopRequested /\ Step("snapshots", "remove")
  /\ attempts' = 0
  /\ UNCHANGED <<serial, context, claimed, forwards>>

\* remove_adb_forward: not cancelled by a stop, but it too may fail
RemoveForward ==
  /\ Step("remove", "sleep")
  /\ Forwarded(None) \/ UNCHANGED forwards
  /\ UNCHANGED <<serial, attempts, context, claimed>>

Worker ==
  \/ Begin \/ SleepRetry
  \/ UsbExit \/ NoAccessory \/ OpenAccessory \/ StreamStopped \/ CloseConnection
  \/ AdbExit \/ StartServer \/ ListDevices \/ RemoveOldForward \/ CreateForward
  \/ Launch \/ AskHealth \/ GiveUpHealth \/ ReadSnapshot \/ SnapshotsStopped
  \/ RemoveForward

-----------------------------------------------------------------------------
(* The phones come and go; a forward ends with its phone. *)

Plug(phone) ==
  /\ phone \notin phones
  /\ phones' = phones \cup {phone}
  /\ UNCHANGED <<callbacks, thread, usb, forwards>>

Unplug(phone) ==
  /\ phone \in phones
  /\ phones' = phones \ {phone}
  /\ forwards' = [p \in Ports |-> IF forwards[p] = phone THEN None ELSE forwards[p]]
  /\ UNCHANGED <<callbacks, thread, usb>>

-----------------------------------------------------------------------------
Enter(c)    == Create(c) \/ Update(c) \/ Activate(c) \/ Deactivate(c) \/ Destroy(c)
Continue(c) == Start(c) \/ RequestStop(c) \/ Join(c)

Next ==
  \/ \E c \in Callers : Enter(c) \/ Continue(c)
  \/ Worker \/ StreamLost
  \/ \E phone \in Phones : Plug(phone) \/ Unplug(phone)

Spec == Init /\ [][Next]_vars

\* Every thread inside a callback and the worker keep running; nobody has to call
\* back, plug a phone in or pull it out, and a healthy stream may last for ever.
FairSpec ==
  /\ Spec
  /\ \A c \in Callers : WF_vars(Continue(c))
  /\ WF_vars(Worker)

-----------------------------------------------------------------------------
UsbStages == {"usb", "stream", "close"}
AdbStages == {"adb", "devices", "unforward", "forward", "launch", "health",
              "snapshots", "remove"}
WorkerStages == UsbStages \cup AdbStages \cup {"none", "begin", "sleep", "exited"}

TypeCallbacks ==
  /\ life \in {"new", "creating", "live", "dying", "gone"}
  /\ stage \in [Callers -> {"idle", "restart", "start", "stop"}]
  /\ wants \in [Callers -> BOOLEAN]
  /\ currentSettings \in Setting
  /\ workerMutex \in Callers \cup {None}
  /\ stopRequested \in BOOLEAN /\ alone \in BOOLEAN

TypeThread ==
  /\ wstage \in WorkerStages
  /\ IF Joinable THEN running \in Setting ELSE running = None
  /\ serial \in Phones \cup {None}
  /\ wstage \in AdbStages \ {"adb", "devices"} => serial \in Phones
  /\ attempts \in 0 .. HealthRetries + SnapshotFailures

TypeDevices ==
  /\ context \in BOOLEAN /\ claimed \in BOOLEAN
  /\ phones \in SUBSET Phones
  /\ forwards \in [Ports -> Phones \cup {None}]

CacamTypeOK == TypeCallbacks /\ TypeThread /\ TypeDevices

\* libusb is initialised exactly while the USB worker is in its loop and an
\* interface is claimed only while a stream is read, whenever the stop comes:
\* nothing is left open when the thread has ended, been joined or been restarted.
UsbReleased ==
  /\ context <=> Joinable /\ running.mode = "usb" /\ wstage \in UsbStages \cup {"sleep"}
  /\ claimed <=> wstage \in {"stream", "close"}

\* Between callbacks, the worker runs with the current settings, though several
\* callers may have changed them, stopped it and started it in any order.
WorkerRunsCurrentSettings ==
  Quiet /\ Joinable => running = currentSettings

\* "Auto-connect is a device connection policy, not a scene visibility policy."
\* (cacam-usb-source.cpp:1337) Between callbacks there is a worker exactly if the
\* settings ask for an automatic connection, whether or not the source is active.
\* (When an update overlaps another callback, the later start() or stop() wins.)
WorkerIffAutomatic ==
  Quiet /\ life = "live" /\ alone => (Joinable <=> currentSettings.auto)

\* What the adb worker reads comes from the phone it selected, even when an
\* earlier session left a forward of the same port to another phone behind.
OnlySelectedPhone ==
  wstage \in {"launch", "health", "snapshots"} =>
    forwards[running.port] \in {None, serial}

\* Nothing of a destroyed source is still running or open.
DestroyedLeavesNothing ==
  life = "gone" => ~Joinable /\ ~context /\ ~claimed /\ workerMutex = None

\* A stop() that waits for the worker ends, wherever the worker is and although
\* other callers try to start it: no callback hangs and the mutex is released.
JoinReturns == \A c \in Callers : workerMutex = c ~> workerMutex # c

\* the worker's longest way to its end, in steps, once its loops are left
StepsToExit ==
  [exited |-> 0, usb |-> 1, adb |-> 1, begin |-> 2, sleep |-> 2, close |-> 3, remove |-> 3,
   stream |-> 4, health |-> 4, snapshots |-> 4, launch |-> 5, forward |-> 6,
   unforward |-> 7, devices |-> 8]

\* While a stop() waits, every step of the worker brings it nearer to its end: none of its
\* five loops goes round again, whichever settings it has, whatever the phones do, and
\* although other callers try to start it (cacam-usb-source.cpp:1413-1421).
JoinDrawsNearer ==
  [][workerMutex # None /\ workerMutex' = workerMutex =>
       UNCHANGED thread \/ StepsToExit[wstage'] < StepsToExit[wstage]]_vars

-----------------------------------------------------------------------------
(* The inductive invariant *)

\* The worker runs the loop of the connection mode it was started with.
WorkerFollowsMode ==
  /\ wstage \in UsbStages => running.mode = "usb"
  /\ wstage \in AdbStages => running.mode = "adb"

\* A caller that joins holds the mutex, so nobody takes its stop request back.
JoinIsProtected ==
  workerMutex # None =>
    stage[workerMutex] \in {"restart", "stop"} /\ stopRequested /\ Joinable

\* A worker whose settings are no longer current is about to be stopped.
StaleWorkerIsStopped ==
  Joinable /\ running # currentSettings => \E c \in Callers : stage[c] = "restart"

\* Whoever destroys the source is alone and leaves no worker.
DestructionIsLast ==
  /\ life = "dying" =>
       \E c \in Callers : /\ stage[c] = "stop"
                          /\ \A d \in Callers \ {c} : stage[d] = "idle"
  /\ life = "gone" => Quiet /\ ~Joinable

\* A callback that overlaps no other does what the current settings ask for: no
\* update came between its look at them and its start() or stop().
CallbackFollowsSettings ==
  alone =>
    \A c \in Callers : stage[c] # "idle" =>
      /\ \A d \in Callers \ {c} : stage[d] = "idle"
      /\ stage[c] = "restart" => wants[c] = currentSettings.auto
      /\ stage[c] = "start" => currentSettings.auto
      /\ stage[c] = "stop" => life = "dying" \/ ~currentSettings.auto

CacamInvariant ==
  /\ CacamTypeOK /\ WorkerFollowsMode /\ UsbReleased /\ OnlySelectedPhone
  /\ JoinIsProtected /\ StaleWorkerIsStopped /\ DestructionIsLast
  /\ CallbackFollowsSettings /\ WorkerIffAutomatic
=============================================================================
