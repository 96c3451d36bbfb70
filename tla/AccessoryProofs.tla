-------------------------- MODULE AccessoryProofs --------------------------
(***************************************************************************)
(* What the runs of CacamAccessory check for a few devices, proved for any *)
(* bus and any set of failing calls.                                       *)
(***************************************************************************)
EXTENDS CacamAccessory, TLAPS

LEMMA AccessoryTypeStep ==
  ASSUME AccessoryTypeOK, [Next]_vars
  PROVE  AccessoryTypeOK'
<1> USE DevicesAssumption, IdentifiersAssumption DEF AccessoryTypeOK, environment, Go
<1>1. CASE ListForOpen \/ ListForRequest
  <2>1. OnTheBus \in SUBSET Listed
    BY DEF OnTheBus
  <2> QED
    BY <1>1, <2>1 DEF ListForOpen, ListForRequest, ListDevices
<1>2. CASE Claim \/ Unusable \/ OpenEnds \/ CloseConnection \/ Exit \/ Settle
  BY <1>2 DEF Claim, Unusable, OpenEnds, CloseConnection, Exit, Settle, Close, NoteFailure
<1>3. CASE GetProtocol \/ SendIdentifier \/ RequestEnds
  BY <1>3 DEF GetProtocol, SendIdentifier, RequestEnds, MoreToSend
<1>4. CASE NoProtocol \/ IdentifierFails \/ StartAccessory \/ StartFails
  BY <1>4 DEF NoProtocol, IdentifierFails, StartAccessory, StartFails, GiveUpDevice, Close
<1>5. ASSUME NEW l \in unseen, Look(l) PROVE AccessoryTypeOK'
  <2>1. l.device \in Devices
    BY DEF Listed
  <2> QED
    BY <1>5, <2>1 DEF Look, SkipOther, OpenFails, Open, SkipDevice, OpenForRequest, Take, NoteFailure
<1>6. ASSUME NEW d \in Devices, Attach(d) \/ Detach(d) \/ Reenumerate(d) PROVE AccessoryTypeOK'
  BY <1>6 DEF Attach, Detach, Reenumerate, Mode
<1>7. CASE UNCHANGED vars
  BY <1>7 DEF vars
<1> HIDE DEF AccessoryTypeOK
<1> QED
  BY <1>1, <1>2, <1>3, <1>4, <1>5, <1>6, <1>7 DEF Next, Search

LEMMA HandlesStep ==
  ASSUME AccessoryTypeOK, HandlesAccountedFor, [Next]_vars
  PROVE  HandlesAccountedFor'
<1> USE DevicesAssumption DEF AccessoryTypeOK, HandlesAccountedFor, Go
<1>1. CASE ListForOpen \/ ListForRequest \/ OpenEnds \/ RequestEnds \/ Exit \/ Settle
  BY <1>1 DEF ListForOpen, ListForRequest, OpenEnds, RequestEnds, Exit, Settle
<1>2. CASE Claim \/ Unusable \/ CloseConnection
  BY <1>2 DEF Claim, Unusable, CloseConnection, Close
<1>3. CASE GetProtocol \/ SendIdentifier
  BY <1>3 DEF GetProtocol, SendIdentifier
<1>4. CASE NoProtocol \/ IdentifierFails \/ StartAccessory \/ StartFails
  BY <1>4 DEF NoProtocol, IdentifierFails, StartAccessory, StartFails, GiveUpDevice, Close
<1>5. ASSUME NEW l \in unseen, Look(l) PROVE HandlesAccountedFor'
  <2>1. l.device \in Devices
    BY DEF Listed
  <2> QED
    BY <1>5, <2>1 DEF Look, SkipOther, OpenFails, Open, SkipDevice, OpenForRequest
<1>6. ASSUME NEW d \in Devices, Attach(d) \/ Detach(d) \/ Reenumerate(d) PROVE HandlesAccountedFor'
  BY <1>6 DEF Attach, Detach, Reenumerate
<1>7. CASE UNCHANGED vars
  BY <1>7 DEF vars
<1> HIDE DEF HandlesAccountedFor
<1> QED
  BY <1>1, <1>2, <1>3, <1>4, <1>5, <1>6, <1>7 DEF Next, Search

LEMMA AndroidStep ==
  ASSUME AccessoryTypeOK, AndroidInHand, [Next]_vars
  PROVE  AndroidInHand'
<1> USE DEF AndroidInHand, Go
<1>1. CASE ListForOpen \/ ListForRequest \/ OpenEnds \/ RequestEnds \/ Exit \/ Settle
  BY <1>1 DEF ListForOpen, ListForRequest, OpenEnds, RequestEnds, Exit, Settle
<1>2. CASE Claim \/ Unusable \/ CloseConnection
  BY <1>2 DEF Claim, Unusable, CloseConnection
<1>3. CASE GetProtocol \/ SendIdentifier
  BY <1>3 DEF GetProtocol, SendIdentifier
<1>4. CASE NoProtocol \/ IdentifierFails \/ StartAccessory \/ StartFails
  BY <1>4 DEF NoProtocol, IdentifierFails, StartAccessory, StartFails, GiveUpDevice
<1>5. ASSUME NEW l \in unseen, Look(l) PROVE AndroidInHand'
  BY <1>5 DEF Look, SkipOther, OpenFails, Open, SkipDevice, OpenForRequest
<1>6. ASSUME NEW d \in Devices, Attach(d) \/ Detach(d) \/ Reenumerate(d) PROVE AndroidInHand'
  BY <1>6 DEF Attach, Detach, Reenumerate
<1>7. CASE UNCHANGED vars
  BY <1>7 DEF vars
<1> HIDE DEF AndroidInHand
<1> QED
  BY <1>1, <1>2, <1>3, <1>4, <1>5, <1>6, <1>7 DEF Next, Search

-----------------------------------------------------------------------------
LEMMA AccessoryInvariantHolds == Spec => []AccessoryInvariant
<1>1. Init => AccessoryInvariant
  <2> SUFFICES ASSUME Init PROVE AccessoryInvariant
    OBVIOUS
  <2>1. AccessoryTypeOK
    <3>1. settled \in BOOLEAN
      BY DEF Init
    <3>2. bus \in [Devices -> {"absent", "normal", "accessory"}]
      BY DEF Init
    <3>3. sent \in 0 .. Identifiers
      BY IdentifiersAssumption DEF Init
    <3> QED
      BY <3>1, <3>2, <3>3 DEF Init, AccessoryTypeOK
  <2>2. HandlesAccountedFor /\ AndroidInHand
    BY DevicesAssumption DEF Init, HandlesAccountedFor, AndroidInHand
  <2> QED
    BY <2>1, <2>2 DEF AccessoryInvariant
<1>2. AccessoryInvariant /\ [Next]_vars => AccessoryInvariant'
  BY AccessoryTypeStep, HandlesStep, AndroidStep DEF AccessoryInvariant
<1> QED
  BY <1>1, <1>2, PTL DEF Spec

\* The worker never leaks a handle, whichever calls fail and whoever is unplugged.
THEOREM NoHandleLeaks == Spec => []HandlesAccountedFor
<1>1. AccessoryInvariant => HandlesAccountedFor
  BY DEF AccessoryInvariant
<1> QED
  BY <1>1, AccessoryInvariantHolds, PTL

\* Only a phone that answered the protocol query and got every identification
\* string is told to start.
THEOREM StartIsLast == Spec => OnlyIdentifiedPhonesStart
<1>1. AccessoryInvariant /\ [Next]_vars
        => [\A d \in switching' \ switching : sent = Identifiers /\ d \in Androids]_vars
  <2> SUFFICES ASSUME AccessoryInvariant, Next, NEW d \in switching' \ switching
               PROVE  sent = Identifiers /\ d \in Androids
    OBVIOUS
  <2> USE DEF Go, environment
  <2>1. CASE StartAccessory \/ StartFails
    BY <2>1 DEF StartAccessory, StartFails, GiveUpDevice, AllSent, AccessoryInvariant, AndroidInHand
  <2>2. CASE \/ ListForOpen \/ ListForRequest \/ OpenEnds \/ RequestEnds \/ Exit \/ Settle \/ Claim
             \/ Unusable \/ CloseConnection \/ GetProtocol \/ SendIdentifier
    BY <2>2 DEF ListForOpen, ListForRequest, OpenEnds, RequestEnds, Exit, Settle, Claim, Unusable,
       CloseConnection, GetProtocol, SendIdentifier
  <2>3. CASE NoProtocol \/ IdentifierFails
    BY <2>3 DEF NoProtocol, IdentifierFails
  <2>4. ASSUME NEW l \in unseen, Look(l) PROVE FALSE
    BY <2>4 DEF Look, SkipOther, OpenFails, Open, SkipDevice, OpenForRequest
  <2>5. ASSUME NEW e \in Devices, Attach(e) \/ Detach(e) \/ Reenumerate(e) PROVE FALSE
    BY <2>5 DEF Attach, Detach, Reenumerate
  <2> QED
    BY <2>1, <2>2, <2>3, <2>4, <2>5 DEF Next, Search
<1> QED
  BY <1>1, AccessoryInvariantHolds, PTL DEF Spec, OnlyIdentifiedPhonesStart
=============================================================================
