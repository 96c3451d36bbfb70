--------------------------- MODULE CacamAccessory ---------------------------
(***************************************************************************)
(* How the USB worker of the camera source finds a phone                   *)
(* (src/src/cacam-usb-source.cpp, open_accessory and                       *)
(* request_first_android_accessory): it opens the first Android accessory  *)
(* whose interface it can claim; when no accessory is on the bus it asks   *)
(* one phone to become one, and the phone disappears and comes back.       *)
(*                                                                         *)
(* Every libusb call may fail, as Faults says, and devices come and go     *)
(* between any two calls, until the bus has settled, if it ever does.  A   *)
(* list holds what was on the bus when it was made; a call on a device     *)
(* that has left the bus since then fails.                                 *)
(***************************************************************************)
EXTENDS Naturals, FiniteSets

CONSTANTS
  Devices,
  Webcams,      \* those with a native video interface
  Androids,     \* those that answer AOA_GET_PROTOCOL
  AdbOnly,      \* those that, as an accessory, let the host reach only adb
  Identifiers,  \* how many identification strings are sent
  Faults,       \* the calls that may fail though the device is there
  None          \* no device

ASSUME DevicesAssumption ==
  /\ Webcams \subseteq Devices /\ Androids \subseteq Devices /\ AdbOnly \subseteq Androids
  /\ None \notin Devices
ASSUME IdentifiersAssumption == Identifiers \in Nat \ {0}
ASSUME AccessoryFaultsAssumption ==
  Faults \subseteq {"list", "descriptor", "config", "open", "claim", "protocol", "ident", "start"}

VARIABLES
  bus,       \* bus[d]: "absent", "normal" or "accessory"
  gone,      \* devices that left the bus since the list in hand was made
  switching, \* phones that were told to start and have not left the bus yet
  settled,   \* no call fails any more and nothing is pulled out
  ustage,    \* the next step of the worker
  unseen,    \* the devices of the list in hand not looked at yet, with their modes
  current,   \* the device in hand
  handles,   \* the open handles
  failure,   \* first_failure of open_accessory
  sent,      \* identification strings sent to the current device
  connection \* the device whose interface is claimed

environment == <<bus, gone, switching, settled>>
vars == <<environment, ustage, unseen, current, handles, failure, sent, connection>>

Listed == [device : Devices, mode : {"normal", "accessory"}]

OnTheBus == {l \in Listed : bus[l.device] = l.mode}

\* a call on a device answers if the device is still there, and not always then
Answers(d) == d \notin gone
MayFail(call) == call \in Faults /\ ~settled
Fails(call, d) == MayFail(call) \/ ~Answers(d)

\* The definitions named Variant... are those beside them with one plausible slip;
\* no specification uses them.  They show which slip each property would catch.

Init ==
  /\ bus \in [Devices -> {"absent", "normal"}]
  /\ gone = {} /\ switching = {} /\ settled = FALSE
  /\ ustage = "head" /\ unseen = {} /\ current = None /\ handles = {}
  /\ failure = "none" /\ sent = 0 /\ connection = None

Go(from, to) == ustage = from /\ ustage' = to

Take(l) == l \in unseen /\ unseen' = unseen \ {l}

ListDevices == unseen' = OnTheBus /\ gone' = {}

-----------------------------------------------------------------------------
(* open_accessory *)

ListForOpen ==
  /\ \/ Go("head", "open") /\ ListDevices
     \/ MayFail("list") /\ Go("head", "requestList") /\ UNCHANGED <<unseen, gone>>
  /\ failure' = "none"
  /\ UNCHANGED <<bus, switching, settled, current, handles, sent, connection>>

NoteFailure(status) == failure' = IF failure = "none" THEN status ELSE failure

SkipOther(l) ==
  /\ Go("open", "open") /\ Take(l)
  /\ l.mode = "normal" \/ MayFail("descriptor")
  /\ UNCHANGED <<environment, current, handles, failure, sent, connection>>

OpenFails(l) ==
  /\ Go("open", "open") /\ Take(l) /\ l.mode = "accessory"
  /\ Fails("open", l.device)
  /\ NoteFailure("openFailed")
  /\ UNCHANGED <<environment, current, handles, sent, connection>>

Open(l) ==
  /\ Go("open", "select") /\ Take(l) /\ l.mode = "accessory"
  /\ Answers(l.device)
  /\ current' = l.device
  /\ handles' = handles \cup {l.device}
  /\ UNCHANGED <<environment, failure, sent, connection>>

\* select_accessory_endpoint claims the accessory interface
Claim ==
  /\ Go("select", "stream")
  /\ Answers(current) /\ current \notin AdbOnly
  /\ connection' = current
  /\ unseen' = {} /\ current' = None
  /\ UNCHANGED <<environment, handles, failure, sent>>

VariantKeepsHandle == UNCHANGED handles

Close == handles' = handles \ {current}

\* It finds none it can claim: the configuration cannot be read, claiming fails or
\* only the adb interface is there.
Unusable ==
  /\ Go("select", "open")
  /\ \/ Fails("config", current) /\ UNCHANGED failure
     \/ Fails("claim", current) /\ current \notin AdbOnly /\ NoteFailure("inaccessible")
     \/ current \in AdbOnly /\ NoteFailure("adbOnly")
  /\ Close
  /\ current' = None
  /\ UNCHANGED <<environment, unseen, sent, connection>>

VariantNeverRequests == FALSE

\* open_accessory found nothing that looks like an accessory
NotFound == failure = "none"

\* after sleep_retry, the loop begins again
OpenEnds ==
  /\ unseen = {}
  /\ IF NotFound THEN Go("open", "requestList") ELSE Go("open", "head")
  /\ UNCHANGED <<environment, unseen, current, handles, failure, sent, connection>>

-----------------------------------------------------------------------------
(* request_first_android_accessory *)

ListForRequest ==
  /\ \/ Go("requestList", "request") /\ ListDevices
     \/ MayFail("list") /\ Go("requestList", "head") /\ UNCHANGED <<unseen, gone>>
  /\ UNCHANGED <<bus, switching, settled, current, handles, failure, sent, connection>>

\* has_video_interface answers no when the configuration cannot be read
MayBecomeAccessory(l) ==
  /\ l.mode = "normal"
  /\ l.device \notin Webcams \/ Fails("config", l.device)

SkipDevice(l) ==
  /\ Go("request", "request") /\ Take(l)
  /\ \/ l.mode = "accessory" \/ MayFail("descriptor")
     \/ l.device \in Webcams
     \/ Fails("open", l.device)
  /\ UNCHANGED <<environment, current, handles, failure, sent, connection>>

OpenForRequest(l) ==
  /\ Go("request", "protocol") /\ Take(l)
  /\ MayBecomeAccessory(l)
  /\ Answers(l.device)
  /\ current' = l.device
  /\ handles' = handles \cup {l.device}
  /\ UNCHANGED <<environment, failure, sent, connection>>

GetProtocol ==
  /\ Go("protocol", "ident")
  /\ Answers(current) /\ current \in Androids
  /\ sent' = 0
  /\ UNCHANGED <<environment, unseen, current, handles, failure, connection>>

MoreToSend == sent < Identifiers

SendIdentifier ==
  /\ Go("ident", "ident")
  /\ MoreToSend /\ Answers(current)
  /\ sent' = sent + 1
  /\ UNCHANGED <<environment, unseen, current, handles, failure, connection>>

\* close the handle and look at the next device, or begin again after sleep_retry
GiveUpDevice(from, to) ==
  /\ Go(from, to)
  /\ Close
  /\ current' = None
  /\ sent' = 0
  /\ UNCHANGED <<failure, connection>>

NoProtocol ==
  /\ GiveUpDevice("protocol", "request")
  /\ Fails("protocol", current) \/ current \notin Androids
  /\ UNCHANGED <<environment, unseen>>

IdentifierFails ==
  /\ GiveUpDevice("ident", "request")
  /\ MoreToSend /\ Fails("ident", current)
  /\ UNCHANGED <<environment, unseen>>

VariantStartsEarly == TRUE

AllSent == sent = Identifiers

StartAccessory ==
  /\ GiveUpDevice("ident", "head")
  /\ AllSent /\ Answers(current)
  /\ switching' = switching \cup {current}
  /\ unseen' = {}
  /\ UNCHANGED <<bus, gone, settled>>

\* the transfer failed; the phone may have obeyed
StartFails ==
  /\ GiveUpDevice("ident", "request")
  /\ AllSent /\ Fails("start", current)
  /\ \/ UNCHANGED switching
     \/ Answers(current) /\ switching' = switching \cup {current}
  /\ UNCHANGED <<bus, gone, settled, unseen>>

RequestEnds ==
  /\ unseen = {}
  /\ Go("request", "head")
  /\ UNCHANGED <<environment, unseen, current, handles, failure, sent, connection>>

-----------------------------------------------------------------------------
(* After the stream, and at a stop *)

CloseConnection ==
  /\ Go("stream", "head")
  /\ handles' = handles \ {connection}
  /\ connection' = None
  /\ UNCHANGED <<environment, unseen, current, failure, sent>>

Exit ==
  /\ Go("head", "exited")
  /\ UNCHANGED <<environment, unseen, current, handles, failure, sent, connection>>

-----------------------------------------------------------------------------
(* The devices *)

Mode(d, mode) == bus' = [bus EXCEPT ![d] = mode]

Attach(d) ==
  /\ bus[d] = "absent"
  /\ Mode(d, "normal")
  /\ UNCHANGED <<gone, switching, settled, ustage, unseen, current, handles, failure, sent, connection>>

Detach(d) ==
  /\ ~settled /\ bus[d] # "absent"
  /\ Mode(d, "absent")
  /\ switching' = switching \ {d} /\ gone' = gone \cup {d}
  /\ UNCHANGED <<settled, ustage, unseen, current, handles, failure, sent, connection>>

Reenumerate(d) ==
  /\ d \in switching
  /\ switching' = switching \ {d} /\ gone' = gone \cup {d}
  /\ Mode(d, "accessory")
  /\ UNCHANGED <<settled, ustage, unseen, current, handles, failure, sent, connection>>

\* from here on the calls succeed and nothing is pulled out
Settle ==
  /\ ~settled /\ settled' = TRUE
  /\ UNCHANGED <<bus, gone, switching, ustage, unseen, current, handles, failure, sent,
                 connection>>

-----------------------------------------------------------------------------
Look(l) == SkipOther(l) \/ OpenFails(l) \/ Open(l) \/ SkipDevice(l) \/ OpenForRequest(l)

Search ==
  \/ ListForOpen \/ Claim \/ Unusable \/ OpenEnds
  \/ ListForRequest \/ GetProtocol \/ SendIdentifier \/ NoProtocol \/ IdentifierFails
  \/ StartAccessory \/ StartFails \/ RequestEnds
  \/ \E l \in unseen : Look(l)

Next ==
  \/ Search \/ CloseConnection \/ Exit \/ Settle
  \/ \E d \in Devices : Attach(d) \/ Detach(d) \/ Reenumerate(d)

Spec == Init /\ [][Next]_vars

\* The worker keeps searching and a phone that was told to start does so; a
\* stream may last, nobody needs to stop the worker and the bus need not settle.
FairSpec == Spec /\ WF_vars(Search) /\ \A d \in Devices : WF_vars(Reenumerate(d))

-----------------------------------------------------------------------------
AccessoryTypeOK ==
  /\ bus \in [Devices -> {"absent", "normal", "accessory"}]
  /\ gone \in SUBSET Devices /\ switching \in SUBSET Devices /\ settled \in BOOLEAN
  /\ ustage \in {"head", "open", "select", "requestList", "request", "protocol", "ident",
                 "stream", "exited"}
  /\ unseen \in SUBSET Listed
  /\ IF ustage \in {"select", "protocol", "ident"} THEN current \in Devices ELSE current = None
  /\ handles \in SUBSET Devices
  /\ failure \in {"none", "openFailed", "inaccessible", "adbOnly"}
  /\ sent \in 0 .. Identifiers
  /\ IF ustage = "stream" THEN connection \in Devices ELSE connection = None

\* Whatever call fails and whichever device leaves, the worker has at most the
\* handle it works with open, and none when it begins again or ends, which is
\* when libusb is closed.
HandlesAccountedFor == handles = {current, connection} \ {None}

\* No phone is told to start before all its identification strings are sent.
OnlyIdentifiedPhonesStart ==
  [][\A d \in switching' \ switching : sent = Identifiers /\ d \in Androids]_vars

\* Once the calls on the bus succeed, a phone that is plugged in is found, asked,
\* found again as an accessory and opened, whatever failed before, whatever else is
\* on the bus and even if others are plugged in; unless an accessory that shows
\* only adb is on the bus, for then open_accessory reports it again and again and
\* no phone is asked.
PhoneIsOpened ==
  \A d \in Androids \ Webcams :
    settled /\ bus[d] = "normal" ~>
      ustage \in {"stream", "exited"} \/ \E a \in AdbOnly : bus[a] = "accessory"

-----------------------------------------------------------------------------
(* The inductive invariant *)

AndroidInHand == ustage = "ident" => current \in Androids

AccessoryInvariant == AndroidInHand /\ AccessoryTypeOK /\ HandlesAccountedFor
=============================================================================
