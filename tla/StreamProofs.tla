---------------------------- MODULE StreamProofs ----------------------------
(***************************************************************************)
(* The camera stream: no byte of it is misread (CacamStream), however many *)
(* messages there are, whatever they hold and however USB cuts them; and   *)
(* the frames it carries are judged by their age and drawn (FrameAge and   *)
(* FrameOutput) right for integers of any width, any thresholds and        *)
(* streams of any length.                                                  *)
(*                                                                         *)
(* The reader is followed through the traffic, all bytes ever written: the *)
(* invariant says where in it the reader is.  A byte it takes is that of   *)
(* the message there, so it takes the word, the fields and the payload it  *)
(* should, whatever bytes of a payload look like.                          *)
(***************************************************************************)
EXTENDS CacamStream, FrameAge, SequenceTheorems, TLAPS

-----------------------------------------------------------------------------
(* Bytes. *)

\* Taking bytes from the front leaves the rest in order.
LEMMA RestOfSeq ==
  ASSUME NEW s \in Seq(Nat), NEW n \in 0 .. Len(s)
  PROVE  LET rest == SubSeq(s, n + 1, Len(s)) IN
         /\ rest \in Seq(Nat) /\ Len(rest) = Len(s) - n
         /\ \A j \in 1 .. Len(s) - n : rest[j] = s[n + j]
<1>1. \A i \in n + 1 .. Len(s) : s[i] \in Nat
  BY ElementOfSeq
<1>2. n + 1 \in Int /\ Len(s) \in Int
  BY LenProperties
<1> QED
  BY <1>1, <1>2, SubSeqProperties

LEMMA FrontOfSeq ==
  ASSUME NEW s \in Seq(Nat), NEW n \in 0 .. Len(s)
  PROVE  LET front == SubSeq(s, 1, n) IN
         /\ front \in Seq(Nat) /\ Len(front) = n
         /\ \A j \in 1 .. n : front[j] = s[j]
<1>1. \A i \in 1 .. n : s[i] \in Nat
  BY ElementOfSeq
<1>2. n \in Int
  BY LenProperties
<1> QED
  BY <1>1, <1>2, SubSeqProperties

\* Sequences that begin alike as far as the first of them goes are prefix and whole.
LEMMA PrefixBytewise ==
  ASSUME NEW S, NEW s \in Seq(S), NEW t \in Seq(S), Len(s) <= Len(t),
         \A i \in 1 .. Len(s) : s[i] = t[i]
  PROVE  IsPrefix(s, t)
<1>1. Len(s) \in Nat /\ Len(t) \in Nat
  BY LenProperties
<1>2. SubSeq(s, 1, Len(s)) = s
  BY SubSeqFull
<1>3. \A i \in 1 .. Len(s) : t[i] \in S
  BY <1>1, ElementOfSeq
<1>4. /\ SubSeq(t, 1, Len(s)) \in Seq(S) /\ Len(SubSeq(t, 1, Len(s))) = Len(s)
      /\ \A i \in 1 .. Len(s) : SubSeq(t, 1, Len(s))[i] = t[i]
  BY <1>1, <1>3, SubSeqProperties
<1>5. SubSeq(t, 1, Len(s)) = s
  BY <1>4, SeqEqual
<1> QED
  BY <1>2, <1>5 DEF IsPrefix

LEMMA ConcatBytes ==
  ASSUME NEW u \in Seq(Nat), NEW v \in Seq(Nat)
  PROVE  /\ u \o v \in Seq(Nat) /\ Len(u \o v) = Len(u) + Len(v)
         /\ Len(u) \in Nat /\ Len(v) \in Nat
         /\ \A i \in 1 .. Len(u) : (u \o v)[i] = u[i]
         /\ \A i \in 1 .. Len(v) : (u \o v)[Len(u) + i] = v[i]
<1>1. /\ u \o v \in Seq(Nat) /\ Len(u \o v) = Len(u) + Len(v)
      /\ \A i \in 1 .. Len(u) + Len(v) : (u \o v)[i] = IF i <= Len(u) THEN u[i] ELSE v[i - Len(u)]
  BY ConcatProperties
<1>2. Len(u) \in Nat /\ Len(v) \in Nat
  BY LenProperties
<1>3. ASSUME NEW i \in 1 .. Len(u) PROVE (u \o v)[i] = u[i]
  <2>1. i \in 1 .. Len(u) + Len(v) /\ i <= Len(u)
    BY <1>2
  <2> QED
    BY <1>1, <2>1, Zenon
<1>4. ASSUME NEW i \in 1 .. Len(v) PROVE (u \o v)[Len(u) + i] = v[i]
  <2>1. /\ Len(u) + i \in 1 .. Len(u) + Len(v) /\ ~(Len(u) + i <= Len(u))
        /\ Len(u) + i - Len(u) = i
    BY <1>2
  <2>2. (u \o v)[Len(u) + i] = v[Len(u) + i - Len(u)]
    BY <1>1, <1>2, <2>1
  <2> QED
    BY <2>1, <2>2, Zenon
<1> QED
  BY <1>1, <1>2, <1>3, <1>4

\* The bytes of a message: the magic word, three fields and the payload
LEMMA EncodingBytes ==
  ASSUME NEW m \in Messages
  PROVE  /\ Encode(m) \in Seq(Nat) /\ Len(Encode(m)) = 7 + Len(m.payload)
         /\ m.payload \in Seq(Nat) /\ Len(m.payload) \in Nat
         /\ \A j \in 1 .. 4 : Encode(m)[j] = Magic[j]
         /\ Encode(m)[5] = m.version /\ Encode(m)[6] = m.type /\ Encode(m)[7] = m.size
         /\ \A j \in 1 .. Len(m.payload) : Encode(m)[7 + j] = m.payload[j]
<1>1. m.version \in Nat /\ m.type \in Nat /\ m.size \in Nat /\ m.payload \in Seq(Nat)
  BY StreamMessagesAssumption
<1>2. PICK fields : fields = <<m.version, m.type, m.size>>
  OBVIOUS
<1>3. /\ fields \in Seq(Nat) /\ Len(fields) = 3
      /\ fields[1] = m.version /\ fields[2] = m.type /\ fields[3] = m.size
  BY <1>1, <1>2
<1>4. Magic \in Seq(Nat) /\ Len(Magic) = 4
  BY DEF Magic, C, A, M
<1>5. PICK head : head = Magic \o fields
  OBVIOUS
<1>6. /\ head \in Seq(Nat) /\ Len(head) = Len(Magic) + Len(fields)
      /\ \A i \in 1 .. Len(Magic) : head[i] = Magic[i]
      /\ \A i \in 1 .. Len(fields) : head[Len(Magic) + i] = fields[i]
  BY <1>3, <1>4, <1>5, ConcatBytes, Zenon
<1>7. /\ Len(head) = 7
      /\ \A i \in 1 .. 4 : head[i] = Magic[i]
      /\ head[5] = m.version /\ head[6] = m.type /\ head[7] = m.size
  <2>1. 1 \in 1 .. Len(fields) /\ 2 \in 1 .. Len(fields) /\ 3 \in 1 .. Len(fields)
    BY <1>3
  <2> QED
    BY <1>3, <1>4, <1>6, <2>1
<1>8. PICK code : code = Encode(m)
  OBVIOUS
<1>9. /\ code \in Seq(Nat) /\ Len(code) = Len(head) + Len(m.payload) /\ Len(m.payload) \in Nat
      /\ \A i \in 1 .. Len(head) : code[i] = head[i]
      /\ \A i \in 1 .. Len(m.payload) : code[Len(head) + i] = m.payload[i]
  <2>1. code = head \o m.payload
    BY <1>2, <1>5, <1>8 DEF Encode
  <2> QED
    BY <1>1, <1>6, <2>1, ConcatBytes, Zenon
<1>10. /\ Len(code) = 7 + Len(m.payload)
       /\ \A i \in 1 .. 7 : code[i] = head[i]
       /\ \A i \in 1 .. Len(m.payload) : code[7 + i] = m.payload[i]
  BY <1>7, <1>9
<1>11. /\ \A i \in 1 .. 4 : code[i] = Magic[i]
       /\ code[5] = m.version /\ code[6] = m.type /\ code[7] = m.size
  BY <1>7, <1>10
<1> QED
  BY <1>1, <1>8, <1>9, <1>10, <1>11

-----------------------------------------------------------------------------
(* What the phone writes. *)

Parcel == [type : Nat, payload : Seq(Nat)]
Place == [at : Nat, due : Nat]

\* A message is written behind all others.
LEMMA WriteBytes ==
  ASSUME StreamTypeOK, NEW m \in Messages, Write(m)
  PROVE  /\ traffic' \in Seq(Nat) /\ Len(traffic) \in Nat
         /\ Len(traffic') = Len(traffic) + Len(Encode(m))
         /\ \A i \in 1 .. Len(traffic) : traffic'[i] = traffic[i]
         /\ \A i \in 1 .. Len(Encode(m)) : traffic'[Len(traffic) + i] = Encode(m)[i]
         /\ wire' \in Seq(Nat) /\ Len(wire) \in Nat
         /\ Len(wire') = Len(wire) + Len(Encode(m))
         /\ \A i \in 1 .. Len(wire) : wire'[i] = wire[i]
         /\ \A i \in 1 .. Len(Encode(m)) : wire'[Len(wire) + i] = Encode(m)[i]
<1>1. Encode(m) \in Seq(Nat)
  BY EncodingBytes
<1>2. traffic \in Seq(Nat) /\ wire \in Seq(Nat)
  BY DEF StreamTypeOK
<1>3. traffic' = traffic \o Encode(m) /\ wire' = wire \o Encode(m)
  BY DEF Write
<1> QED
  BY <1>1, <1>2, <1>3, ConcatBytes, ZenonT(60)

LEMMA WriteHistory ==
  ASSUME StreamTypeOK, NEW m \in Messages, Write(m)
  PROVE  /\ sent' \in Seq(Messages) /\ Len(sent) \in Nat /\ Len(sent') = Len(sent) + 1
         /\ \A i \in 1 .. Len(sent) : sent'[i] = sent[i]
         /\ sent'[Len(sent) + 1] = m
         /\ due' \in Seq(Parcel) /\ Len(due) \in Nat
         /\ \A i \in 1 .. Len(due) : due'[i] = due[i]
         /\ IF WellFormed(m) THEN Len(due') = Len(due) + 1 /\ due'[Len(due) + 1] = Content(m)
                             ELSE due' = due
         /\ places' \in Seq(Place) /\ Len(places) \in Nat /\ Len(places') = Len(places) + 1
         /\ \A i \in 1 .. Len(places) : places'[i] = places[i]
         /\ places'[Len(places) + 1] = [at |-> Len(traffic'), due |-> Len(due')]
<1> USE DEF Parcel, Place
<1>1. sent \in Seq(Messages) /\ due \in Seq(Parcel) /\ places \in Seq(Place)
  BY DEF StreamTypeOK
<1>2. /\ sent' \in Seq(Messages) /\ Len(sent) \in Nat /\ Len(sent') = Len(sent) + 1
      /\ \A i \in 1 .. Len(sent) : sent'[i] = sent[i]
      /\ sent'[Len(sent) + 1] = m
  BY <1>1, AppendProperties, LenProperties DEF Write
<1>3. Content(m) \in Parcel
  BY StreamMessagesAssumption DEF Content
<1> HIDE DEF Parcel, Place
<1>4. Len(due) \in Nat
  BY <1>1, LenProperties
<1>5. /\ due' \in Seq(Parcel)
      /\ \A i \in 1 .. Len(due) : due'[i] = due[i]
      /\ IF WellFormed(m) THEN Len(due') = Len(due) + 1 /\ due'[Len(due) + 1] = Content(m)
                          ELSE due' = due
  <2>1. CASE WellFormed(m)
    <3>1. due' = Append(due, Content(m))
      BY <2>1 DEF Write
    <3> QED
      BY <1>1, <1>3, <2>1, <3>1, AppendProperties
  <2>2. CASE ~WellFormed(m)
    BY <1>1, <2>2 DEF Write
  <2> QED
    BY <2>1, <2>2
<1>6. [at |-> Len(traffic'), due |-> Len(due')] \in Place
  BY <1>5, WriteBytes, LenProperties DEF Place
<1>7. /\ places' \in Seq(Place) /\ Len(places) \in Nat /\ Len(places') = Len(places) + 1
      /\ \A i \in 1 .. Len(places) : places'[i] = places[i]
      /\ places'[Len(places) + 1] = [at |-> Len(traffic'), due |-> Len(due')]
  BY <1>1, <1>6, AppendProperties, LenProperties DEF Write
<1> QED
  BY <1>2, <1>4, <1>5, <1>7

\* Where a message sent is in the traffic
LEMMA MessageInTraffic ==
  ASSUME StreamTypeOK, TrafficIsSent, NEW k \in 1 .. Len(sent)
  PROVE  LET m == sent[k]  at == places[k].at IN
         /\ m \in Messages /\ m.payload \in Seq(Nat) /\ Len(m.payload) \in Nat
         /\ k \in 1 .. Len(places) /\ k + 1 \in 1 .. Len(places)
         /\ at \in Nat /\ places[k].due \in Nat
         /\ places[k + 1].at = at + 7 + Len(m.payload) /\ places[k + 1].at <= Len(traffic)
         /\ places[k + 1].due <= Len(due)
         /\ \A j \in 1 .. 4 : traffic[at + j] = Magic[j]
         /\ traffic[at + 5] = m.version /\ traffic[at + 6] = m.type /\ traffic[at + 7] = m.size
         /\ \A j \in 1 .. Len(m.payload) : traffic[at + 7 + j] = m.payload[j]
         /\ WellFormed(m) => /\ m.size = Len(m.payload)
                             /\ places[k + 1].due = places[k].due + 1
                             /\ due[places[k + 1].due] = Content(m)
         /\ ~WellFormed(m) => places[k + 1].due = places[k].due
<1> DEFINE m == sent[k]  at == places[k].at
<1>1. /\ k \in Nat /\ Len(sent) \in Nat /\ Len(places) = Len(sent) + 1
      /\ k \in 1 .. Len(places) /\ k + 1 \in 1 .. Len(places)
  BY LenProperties DEF StreamTypeOK, TrafficIsSent
<1>2. m \in Messages
  BY ElementOfSeq DEF StreamTypeOK
<1>3. places[k] \in Place
  BY <1>1, ElementOfSeq DEF StreamTypeOK, Place
<1>4. at \in Nat /\ places[k].due \in Nat
  BY <1>3 DEF Place
<1>5. places[k + 1].at <= Len(traffic) /\ places[k + 1].due <= Len(due)
  BY <1>1 DEF TrafficIsSent
<1>6. /\ places[k + 1].at = at + Len(Encode(m))
      /\ \A j \in 1 .. Len(Encode(m)) : traffic[at + j] = Encode(m)[j]
      /\ IF WellFormed(m) THEN /\ places[k + 1].due = places[k].due + 1
                               /\ due[places[k + 1].due] = Content(m)
                          ELSE places[k + 1].due = places[k].due
  BY DEF TrafficIsSent
<1>7. WellFormed(m) => m.size = Len(m.payload)
  BY <1>2, StreamMessagesAssumption
<1> HIDE DEF m, at
<1>8. /\ Len(Encode(m)) = 7 + Len(m.payload)
      /\ m.payload \in Seq(Nat) /\ Len(m.payload) \in Nat
      /\ \A j \in 1 .. 4 : Encode(m)[j] = Magic[j]
      /\ Encode(m)[5] = m.version /\ Encode(m)[6] = m.type /\ Encode(m)[7] = m.size
      /\ \A j \in 1 .. Len(m.payload) : Encode(m)[7 + j] = m.payload[j]
  BY <1>2, EncodingBytes
<1>9. places[k + 1].at = at + 7 + Len(m.payload)
  <2>1. places[k + 1].at = at + Len(Encode(m)) /\ Len(Encode(m)) = 7 + Len(m.payload)
    BY <1>6, <1>8, Zenon
  <2>2. PICK len \in Nat : len = Len(m.payload)
    BY <1>8
  <2>3. PICK whole : whole = Len(Encode(m))
    OBVIOUS
  <2>4. places[k + 1].at = at + whole /\ whole = 7 + len
    BY <2>1, <2>2, <2>3, Zenon
  <2>5. at + whole = at + 7 + len
    BY <1>4, <2>4
  <2> QED
    BY <2>2, <2>4, <2>5, Zenon
<1>10. /\ \A j \in 1 .. 4 : traffic[at + j] = Magic[j]
       /\ traffic[at + 5] = m.version /\ traffic[at + 6] = m.type /\ traffic[at + 7] = m.size
  <2>1. \A j \in 1 .. 7 : j \in 1 .. Len(Encode(m))
    <3>1. PICK len, whole : /\ len = Len(m.payload) /\ whole = Len(Encode(m))
                            /\ whole = 7 + len /\ len \in Nat
      BY <1>8, Zenon
    <3>2. \A j \in 1 .. 7 : j \in 1 .. whole
      BY <3>1
    <3> QED
      BY <3>1, <3>2, Zenon
  <2>2. \A j \in 1 .. 7 : traffic[at + j] = Encode(m)[j]
    BY <1>6, <2>1, Zenon
  <2> QED
    BY <1>8, <2>2
<1>11. ASSUME NEW j \in 1 .. Len(m.payload)
       PROVE  traffic[at + 7 + j] = m.payload[j]
  <2>1. 7 + j \in 1 .. Len(Encode(m)) /\ at + (7 + j) = at + 7 + j
    <3>1. PICK len, whole : /\ len = Len(m.payload) /\ whole = Len(Encode(m))
                            /\ whole = 7 + len /\ len \in Nat
      BY <1>8, Zenon
    <3>2. j \in 1 .. len
      BY <3>1, Zenon
    <3>3. 7 + j \in 1 .. whole /\ at + (7 + j) = at + 7 + j
      BY <1>4, <3>1, <3>2
    <3> QED
      BY <3>1, <3>3, Zenon
  <2>2. traffic[at + (7 + j)] = Encode(m)[7 + j]
    BY <1>6, <2>1, Zenon
  <2> QED
    BY <1>8, <2>1, <2>2
<1>12. /\ WellFormed(m) => /\ m.size = Len(m.payload)
                           /\ places[k + 1].due = places[k].due + 1
                           /\ due[places[k + 1].due] = Content(m)
       /\ ~WellFormed(m) => places[k + 1].due = places[k].due
  BY <1>6, <1>7
<1> QED
  BY <1>1, <1>2, <1>4, <1>5, <1>8, <1>9, <1>10, <1>11, <1>12 DEF m, at

\* Where a message ends.
LEMMA MessageEnds ==
  ASSUME StreamTypeOK, TrafficIsSent, NEW k \in 1 .. Len(sent)
  PROVE  \E at \in Nat, len \in Nat :
           /\ at = places[k].at /\ len = Len(sent[k].payload)
           /\ places[k + 1].at = at + 7 + len /\ at + 7 + len <= Len(traffic)
           /\ WellFormed(sent[k]) => sent[k].size = len
<1> DEFINE at == places[k].at  len == Len(sent[k].payload)
<1>1. /\ at \in Nat /\ len \in Nat
      /\ places[k + 1].at = at + 7 + len /\ places[k + 1].at <= Len(traffic)
      /\ WellFormed(sent[k]) => sent[k].size = len
  BY MessageInTraffic, Zenon
<1> HIDE DEF at, len
<1>2. at + 7 + len <= Len(traffic)
  BY <1>1, Zenon
<1> QED
  BY <1>1, <1>2, Zenon DEF at, len

LEMMA WriteTraffic ==
  ASSUME StreamTypeOK, TrafficIsSent, NEW m \in Messages, Write(m)
  PROVE  TrafficIsSent'
<1>1. Len(places') = Len(sent') + 1
  BY WriteHistory DEF TrafficIsSent
<1>2. Len(places) \in Nat \ {0} /\ Len(sent) \in Nat /\ Len(places) = Len(sent) + 1
  BY WriteHistory DEF TrafficIsSent
<1>3. places'[1] = [at |-> 0, due |-> 0]
  BY <1>2, WriteHistory DEF TrafficIsSent
<1>4. places'[Len(places')] = [at |-> Len(traffic'), due |-> Len(due')]
  BY WriteHistory
<1>5. /\ Len(traffic) \in Nat /\ Len(traffic') \in Nat /\ Len(traffic) <= Len(traffic')
      /\ Len(due) \in Nat /\ Len(due') \in Nat /\ Len(due) <= Len(due')
  <2>1. /\ Len(traffic) \in Nat /\ Len(traffic') = Len(traffic) + Len(Encode(m))
        /\ Len(Encode(m)) = 7 + Len(m.payload) /\ Len(m.payload) \in Nat
    BY WriteBytes, EncodingBytes
  <2>2. /\ Len(due) \in Nat
        /\ IF WellFormed(m) THEN Len(due') = Len(due) + 1 ELSE due' = due
    BY WriteHistory
  <2> QED
    BY <2>1, <2>2
<1>6. ASSUME NEW i \in 1 .. Len(places')
      PROVE  places'[i].at <= Len(traffic') /\ places'[i].due <= Len(due')
  <2>1. CASE i = Len(places')
    BY <1>4, <1>5, <2>1
  <2>2. CASE i # Len(places')
    <3>1. i \in 1 .. Len(places)
      BY <1>2, <2>2, WriteHistory
    <3>2. places'[i] = places[i] /\ places[i] \in Place
      BY <3>1, WriteHistory, ElementOfSeq DEF StreamTypeOK, Place
    <3>3. places[i].at <= Len(traffic) /\ places[i].due <= Len(due)
      BY <3>1 DEF TrafficIsSent
    <3> QED
      BY <1>5, <3>2, <3>3 DEF Place
  <2> QED
    BY <2>1, <2>2
<1>7. ASSUME NEW i \in 1 .. Len(sent')
      PROVE  LET w == sent'[i]  here == places'[i]  next == places'[i + 1] IN
             /\ next.at = here.at + Len(Encode(w))
             /\ \A j \in 1 .. Len(Encode(w)) : traffic'[here.at + j] = Encode(w)[j]
             /\ IF WellFormed(w) THEN next.due = here.due + 1 /\ due'[next.due] = Content(w)
                                 ELSE next.due = here.due
  <2>1. CASE i \in 1 .. Len(sent)
    <3>1. /\ sent'[i] = sent[i] /\ places'[i] = places[i] /\ places'[i + 1] = places[i + 1]
          /\ i + 1 \in 1 .. Len(places)
      BY <1>2, <2>1, WriteHistory
    <3>2. /\ sent[i] \in Messages /\ places[i] \in Place /\ places[i + 1] \in Place
      <4>1. sent \in Seq(Messages) /\ places \in Seq(Place)
        BY DEF StreamTypeOK, Place
      <4>2. i \in 1 .. Len(places)
        BY <1>2, <2>1
      <4> QED
        BY <2>1, <3>1, <4>1, <4>2, ElementOfSeq
    <3> DEFINE w == sent[i]  here == places[i]  next == places[i + 1]
    <3>3. /\ next.at = here.at + Len(Encode(w))
          /\ \A j \in 1 .. Len(Encode(w)) : traffic[here.at + j] = Encode(w)[j]
          /\ IF WellFormed(w) THEN next.due = here.due + 1 /\ due[next.due] = Content(w)
                              ELSE next.due = here.due
          /\ next.at <= Len(traffic) /\ next.due <= Len(due)
      BY <2>1, <3>1 DEF TrafficIsSent
    <3>4. here.at \in Nat /\ next.due \in Nat /\ here.due \in Nat
      BY <3>2 DEF Place
    <3>5. Len(Encode(w)) \in Nat
      BY <3>2, EncodingBytes, LenProperties
    <3> HIDE DEF w, here, next
    <3>6. ASSUME NEW j \in 1 .. Len(Encode(w))
          PROVE  traffic'[here.at + j] = Encode(w)[j]
      <4>1. here.at + j \in 1 .. Len(traffic)
        <5>1. PICK a \in Nat, whole \in Nat, end \in Nat :
                /\ a = here.at /\ whole = Len(Encode(w)) /\ end = Len(traffic) /\ next.at = a + whole
                /\ a + whole <= end
          BY <1>5, <3>3, <3>4, <3>5, Zenon
        <5>2. j \in 1 .. whole
          BY <5>1, Zenon
        <5>3. a + j \in 1 .. end
          BY <5>1, <5>2
        <5> QED
          BY <5>1, <5>3, Zenon
      <4> QED
        BY <3>3, <4>1, WriteBytes
    <3>7. WellFormed(w) => due'[next.due] = due[next.due]
      <4>1. ASSUME WellFormed(w)
            PROVE  next.due \in 1 .. Len(due)
        BY <1>5, <3>3, <3>4, <4>1
      <4> QED
        BY <4>1, WriteHistory
    <3> QED
      BY <3>1, <3>3, <3>6, <3>7 DEF w, here, next
  <2>2. CASE i = Len(sent) + 1
    <3>1. /\ sent'[i] = m /\ places'[i] = [at |-> Len(traffic), due |-> Len(due)]
          /\ places'[i + 1] = [at |-> Len(traffic'), due |-> Len(due')]
      BY <1>2, <2>2, WriteHistory DEF TrafficIsSent
    <3>2. WellFormed(m) => due'[Len(due')] = Content(m)
      BY WriteHistory
    <3>3. /\ Len(traffic') = Len(traffic) + Len(Encode(m))
          /\ \A j \in 1 .. Len(Encode(m)) : traffic'[Len(traffic) + j] = Encode(m)[j]
          /\ IF WellFormed(m) THEN Len(due') = Len(due) + 1 ELSE due' = due
      BY WriteBytes, WriteHistory
    <3> QED
      BY <3>1, <3>2, <3>3
  <2> QED
    BY <1>2, <2>1, <2>2, WriteHistory
<1> QED
  BY <1>1, <1>3, <1>4, <1>6, <1>7 DEF TrafficIsSent

-----------------------------------------------------------------------------
(* What is under way. *)

\* Bytes go from the wire to the buffer and from the buffer to the reader.
LEMMA UnderWay ==
  ASSUME StreamTypeOK
  PROVE  /\ Len(traffic) \in Nat /\ Len(buffer) \in Nat /\ Len(wire) \in Nat
         /\ Consumed \in Int /\ Len(traffic) = Consumed + Len(buffer) + Len(wire)
BY LenProperties DEF StreamTypeOK, Consumed

LEMMA WriteUnderWay ==
  ASSUME StreamTypeOK, RestIsUnderWay, NEW m \in Messages, Write(m)
  PROVE  Consumed' = Consumed /\ RestIsUnderWay'
<1>1. buffer' = buffer /\ intact' = intact
  BY DEF Write
<1>2. Len(Encode(m)) \in Nat
  BY EncodingBytes
<1>3. Consumed' = Consumed
  <2>1. /\ Len(traffic') = Len(traffic) + Len(Encode(m)) /\ Len(buffer') = Len(buffer)
        /\ Len(wire') = Len(wire) + Len(Encode(m))
    BY <1>1, WriteBytes
  <2>2. Len(traffic) \in Nat /\ Len(buffer) \in Nat /\ Len(wire) \in Nat
    BY UnderWay
  <2> QED
    BY <1>2, <2>1, <2>2 DEF Consumed
<1>4. ASSUME intact
      PROVE  /\ Consumed >= 0
             /\ \A j \in 1 .. Len(buffer) : buffer[j] = traffic'[Consumed + j]
             /\ \A j \in 1 .. Len(wire') : wire'[j] = traffic'[Consumed + Len(buffer) + j]
  <2>1. /\ Consumed >= 0
        /\ \A j \in 1 .. Len(buffer) : buffer[j] = traffic[Consumed + j]
        /\ \A j \in 1 .. Len(wire) : wire[j] = traffic[Consumed + Len(buffer) + j]
    BY <1>4 DEF RestIsUnderWay
  <2>2. ASSUME NEW j \in 1 .. Len(buffer)
        PROVE  buffer[j] = traffic'[Consumed + j]
    <3>1. Consumed + j \in 1 .. Len(traffic)
      BY <2>1, UnderWay
    <3> QED
      BY <2>1, <3>1, WriteBytes
  <2>3. ASSUME NEW j \in 1 .. Len(wire')
        PROVE  wire'[j] = traffic'[Consumed + Len(buffer) + j]
    <3>1. CASE j <= Len(wire)
      <4>1. Consumed + Len(buffer) + j \in 1 .. Len(traffic) /\ j \in 1 .. Len(wire)
        BY <2>1, <3>1, UnderWay
      <4> QED
        BY <2>1, <4>1, WriteBytes
    <3>2. CASE j > Len(wire)
      <4> DEFINE i == j - Len(wire)
      <4>1. /\ i \in 1 .. Len(Encode(m)) /\ j = Len(wire) + i
            /\ Consumed + Len(buffer) + j = Len(traffic) + i
        <5>1. Len(wire') = Len(wire) + Len(Encode(m)) /\ Len(wire) \in Nat
          BY WriteBytes
        <5>2. /\ Consumed \in Int /\ Len(buffer) \in Nat
              /\ Len(traffic) = Consumed + Len(buffer) + Len(wire)
          BY UnderWay
        <5> QED
          BY <1>2, <3>2, <5>1, <5>2
      <4> HIDE DEF i
      <4> QED
        BY <4>1, WriteBytes
    <3> QED
      BY <3>1, <3>2, UnderWay, WriteBytes
  <2> QED
    BY <2>1, <2>2, <2>3
<1> QED
  BY <1>1, <1>3, <1>4 DEF RestIsUnderWay

LEMMA FillUnderWay ==
  ASSUME StreamTypeOK, RestIsUnderWay, Fill
  PROVE  /\ Consumed' = Consumed /\ RestIsUnderWay'
         /\ buffer' \in Seq(Nat) /\ wire' \in Seq(Nat)
<1>1. PICK n \in Transfers : Keep(n) /\ wire' = SubSeq(wire, n + 1, Len(wire))
  BY DEF Fill
<1>2. /\ buffer = <<>> /\ Len(buffer) = 0 /\ traffic' = traffic /\ intact' = intact
  BY DEF Fill, history
<1>3. n \in 0 .. Len(wire) /\ wire \in Seq(Nat)
  BY UnderWay, StreamBoundsAssumption DEF Transfers, StreamTypeOK
<1>4. /\ buffer' \in Seq(Nat) /\ Len(buffer') = n
      /\ \A j \in 1 .. n : buffer'[j] = wire[j]
  BY <1>1, <1>3, FrontOfSeq DEF Keep
<1>5. /\ wire' \in Seq(Nat) /\ Len(wire') = Len(wire) - n
      /\ \A j \in 1 .. Len(wire) - n : wire'[j] = wire[n + j]
  BY <1>1, <1>3, RestOfSeq
<1>6. Consumed' = Consumed
  BY <1>2, <1>3, <1>4, <1>5, UnderWay DEF Consumed
<1>7. ASSUME intact
      PROVE  /\ Consumed >= 0
             /\ \A j \in 1 .. Len(buffer') : buffer'[j] = traffic[Consumed + j]
             /\ \A j \in 1 .. Len(wire') : wire'[j] = traffic[Consumed + Len(buffer') + j]
  <2>1. Consumed >= 0 /\ \A j \in 1 .. Len(wire) : wire[j] = traffic[Consumed + j]
    BY <1>2, <1>7, UnderWay DEF RestIsUnderWay
  <2>2. ASSUME NEW j \in 1 .. Len(wire')
        PROVE  wire'[j] = traffic[Consumed + Len(buffer') + j]
    <3>1. n + j \in 1 .. Len(wire) /\ j \in 1 .. Len(wire) - n
      BY <1>3, <1>5, UnderWay
    <3>2. Consumed + Len(buffer') + j = Consumed + (n + j)
      BY <1>3, <1>4, UnderWay
    <3> QED
      BY <1>5, <2>1, <3>1, <3>2
  <2>3. ASSUME NEW j \in 1 .. Len(buffer')
        PROVE  buffer'[j] = traffic[Consumed + j]
    <3>1. j \in 1 .. n /\ j \in 1 .. Len(wire)
      BY <1>3, <1>4, UnderWay
    <3> QED
      BY <1>4, <2>1, <3>1
  <2> QED
    BY <2>1, <2>2, <2>3
<1> QED
  BY <1>2, <1>4, <1>5, <1>6, <1>7 DEF RestIsUnderWay

\* The reader takes n bytes from its buffer.
LEMMA TakeUnderWay ==
  ASSUME StreamTypeOK, RestIsUnderWay, NEW n \in 0 .. Len(buffer),
         buffer' = SubSeq(buffer, n + 1, Len(buffer)),
         UNCHANGED <<wire, traffic, intact>>
  PROVE  Consumed' = Consumed + n /\ RestIsUnderWay' /\ buffer' \in Seq(Nat)
<1>1. buffer \in Seq(Nat)
  BY DEF StreamTypeOK
<1>2. /\ buffer' \in Seq(Nat) /\ Len(buffer') = Len(buffer) - n
      /\ \A j \in 1 .. Len(buffer) - n : buffer'[j] = buffer[n + j]
  BY <1>1, RestOfSeq
<1>3. Consumed' = Consumed + n
  <2>1. Len(buffer) \in Nat /\ Len(wire) \in Nat /\ Len(traffic) \in Nat
    BY UnderWay
  <2>2. Len(buffer') = Len(buffer) - n /\ wire' = wire /\ traffic' = traffic
    BY <1>2
  <2>3. PICK t \in Int, b \in Int, w \in Int, i \in Int :
          t = Len(traffic) /\ b = Len(buffer) /\ w = Len(wire) /\ i = n
    BY <2>1
  <2>4. Consumed' = t - (b - i) - w /\ Consumed = t - b - w
    BY <2>2, <2>3, Zenon DEF Consumed
  <2>5. t - (b - i) - w = (t - b - w) + i
    BY <2>3
  <2> QED
    BY <2>3, <2>4, <2>5, Zenon
<1>4. ASSUME intact
      PROVE  /\ Consumed' >= 0
             /\ \A j \in 1 .. Len(buffer') : buffer'[j] = traffic[Consumed' + j]
             /\ \A j \in 1 .. Len(wire) : wire[j] = traffic[Consumed' + Len(buffer') + j]
  <2>1. /\ Consumed >= 0
        /\ \A j \in 1 .. Len(buffer) : buffer[j] = traffic[Consumed + j]
        /\ \A j \in 1 .. Len(wire) : wire[j] = traffic[Consumed + Len(buffer) + j]
    BY <1>4 DEF RestIsUnderWay
  <2>2. ASSUME NEW j \in 1 .. Len(buffer')
        PROVE  buffer'[j] = traffic[Consumed' + j]
    <3>1. /\ n + j \in 1 .. Len(buffer) /\ j \in 1 .. Len(buffer) - n
          /\ Consumed' + j = Consumed + (n + j)
      BY <1>2, <1>3, UnderWay
    <3> QED
      BY <1>2, <2>1, <3>1
  <2>3. Consumed' + Len(buffer') = Consumed + Len(buffer)
    BY <1>2, <1>3, UnderWay
  <2>4. Consumed' >= 0
    BY <1>2, <1>3, <2>1, UnderWay
  <2>5. \A j \in 1 .. Len(wire) : wire[j] = traffic[Consumed' + Len(buffer') + j]
    BY <2>1, <2>3, Zenon
  <2> QED
    BY <2>2, <2>4, <2>5, Zenon
<1> QED
  BY <1>2, <1>3, <1>4 DEF RestIsUnderWay

-----------------------------------------------------------------------------
(* What read_exact copies. *)

Copied == got \o SubSeq(buffer, 1, CopySize)

\* A round copies something, and never more than is wanted.
LEMMA CopyBytes ==
  ASSUME StreamTypeOK, ReadsWithinBounds, Copy
  PROVE  /\ CopySize \in 1 .. Len(buffer)
         /\ Copied \in Seq(Nat) /\ Len(got) \in Nat /\ Len(Copied) = Len(got) + CopySize
         /\ Wanted \in Nat /\ Len(Copied) <= Wanted
         /\ \A j \in 1 .. Len(got) : Copied[j] = got[j]
         /\ \A j \in 1 .. CopySize : Copied[Len(got) + j] = buffer[j]
<1>1. buffer \in Seq(Nat) /\ got \in Seq(Nat)
  BY DEF StreamTypeOK
<1>2. Len(buffer) \in Nat \ {0} /\ Len(got) \in Nat
  <2>1. Len(buffer) \in Nat /\ Len(got) \in Nat
    BY <1>1, LenProperties
  <2>2. Len(buffer) # 0
    BY <1>1, EmptySeq DEF Copy
  <2> QED
    BY <2>1, <2>2
<1>3. Wanted \in Nat /\ Len(got) < Wanted
  <2>1. CASE rstage = "fields"
    BY <2>1 DEF ReadsWithinBounds, Wanted, HeaderRest
  <2>2. CASE rstage = "payload"
    <3>1. header \in [1 .. 3 -> Nat] /\ Len(got) < header[3]
      BY <2>2 DEF ReadsWithinBounds, Fields, HeaderRest
    <3>2. Wanted = header[3]
      BY <2>2 DEF Wanted
    <3> QED
      BY <3>1, <3>2
  <2> QED
    BY <2>1, <2>2 DEF Copy
<1>4. CopySize \in 1 .. Len(buffer) /\ Len(got) + CopySize <= Wanted
  BY <1>2, <1>3 DEF CopySize
<1>5. PICK n : n = CopySize
  OBVIOUS
<1>6. PICK front : front = SubSeq(buffer, 1, n)
  OBVIOUS
<1>7. n \in 0 .. Len(buffer)
  BY <1>2, <1>4, <1>5
<1>8. front \in Seq(Nat) /\ Len(front) = n /\ \A j \in 1 .. n : front[j] = buffer[j]
  BY <1>1, <1>6, <1>7, FrontOfSeq
<1>9. Copied = got \o front
  BY <1>5, <1>6, Zenon DEF Copied
<1>10. /\ Copied \in Seq(Nat) /\ Len(Copied) = Len(got) + Len(front)
       /\ \A j \in 1 .. Len(got) : Copied[j] = got[j]
       /\ \A j \in 1 .. Len(front) : Copied[Len(got) + j] = front[j]
  BY <1>1, <1>8, <1>9, ConcatBytes, Zenon
<1>11. Len(Copied) = Len(got) + CopySize
  BY <1>5, <1>8, <1>10, Zenon
<1>12. \A j \in 1 .. CopySize : Copied[Len(got) + j] = buffer[j]
  BY <1>5, <1>8, <1>10, Zenon
<1> QED
  BY <1>2, <1>3, <1>4, <1>10, <1>11, <1>12

\* What becomes of the bytes copied
LEMMA CopyOutcome ==
  ASSUME StreamTypeOK, ReadsWithinBounds, Copy
  PROVE  \/ Len(Copied) < Wanted /\ got' = Copied /\ UNCHANGED <<rstage, header, handled>>
         \/ Len(Copied) = 3 /\ rstage = "fields" /\ FieldsRead(Copied)
         \/ Len(Copied) = header[3] /\ rstage = "payload" /\ Handle(header[2], Copied)
<1>1. \/ Len(Copied) < Wanted /\ got' = Copied /\ UNCHANGED <<rstage, header, handled>>
      \/ Len(Copied) >= Wanted /\ rstage = "fields"  /\ FieldsRead(Copied)
      \/ Len(Copied) >= Wanted /\ rstage = "payload" /\ Handle(header[2], Copied)
  BY Zenon DEF Copy, Copied
<1>2. /\ Len(Copied) \in Nat /\ Wanted \in Nat /\ Len(Copied) <= Wanted
  BY CopyBytes, LenProperties
<1>3. Len(Copied) >= Wanted => Len(Copied) = Wanted
  BY <1>2
<1>4. /\ rstage = "fields" => Wanted = 3
      /\ rstage = "payload" => Wanted = header[3]
  BY DEF Wanted, HeaderRest
<1> QED
  BY <1>1, <1>3, <1>4, Zenon

\* The fields of a header are read in full and nothing else is.
LEMMA CopiedFields ==
  ASSUME StreamTypeOK, ReadsWithinBounds, Copy, Len(Copied) = 3
  PROVE  /\ Copied \in [1 .. 3 -> Nat]
         /\ Copied[1] \in Nat /\ Copied[2] \in Nat /\ Copied[3] \in Nat
         /\ Copied = <<Copied[1], Copied[2], Copied[3]>>
<1>1. Copied \in Seq(Nat)
  BY CopyBytes
<1>2. Copied \in [1 .. 3 -> Nat]
  BY <1>1, LenProperties
<1>3. Copied[1] \in Nat /\ Copied[2] \in Nat /\ Copied[3] \in Nat
  BY <1>2
<1> QED
  BY <1>2, <1>3

\* Bytes that are copied from a place on are those of the traffic.
LEMMA CopyContinues ==
  ASSUME StreamTypeOK, ReadsWithinBounds, RestIsUnderWay, intact, Copy,
         NEW start \in Int, Consumed = start + Len(got),
         \A j \in 1 .. Len(got) : got[j] = traffic[start + j]
  PROVE  /\ Consumed' = start + Len(Copied)
         /\ \A j \in 1 .. Len(Copied) : Copied[j] = traffic[start + j]
<1>1. /\ CopySize \in 1 .. Len(buffer) /\ Len(got) \in Nat
      /\ Len(Copied) = Len(got) + CopySize /\ Len(buffer) \in Nat
  BY CopyBytes, UnderWay
<1>2. Consumed' = Consumed + CopySize
  <2>1. CopySize \in 0 .. Len(buffer)
    BY <1>1
  <2>2. /\ buffer' = SubSeq(buffer, CopySize + 1, Len(buffer))
        /\ UNCHANGED <<wire, traffic, intact>>
    BY DEF Copy, history
  <2> QED
    BY <2>1, <2>2, TakeUnderWay
<1>3. ASSUME NEW j \in 1 .. Len(Copied)
      PROVE  Copied[j] = traffic[start + j]
  <2>1. CASE j <= Len(got)
    <3>1. j \in 1 .. Len(got)
      BY <1>1, <2>1
    <3> QED
      BY <3>1, CopyBytes
  <2>2. CASE j > Len(got)
    <3> DEFINE i == j - Len(got)
    <3>1. /\ i \in 1 .. CopySize /\ i \in 1 .. Len(buffer)
          /\ j = Len(got) + i /\ start + j = Consumed + i
      BY <1>1, <2>2
    <3> HIDE DEF i
    <3>2. Copied[Len(got) + i] = buffer[i]
      BY <3>1, CopyBytes
    <3>3. buffer[i] = traffic[Consumed + i]
      BY <3>1 DEF RestIsUnderWay
    <3> QED
      BY <3>1, <3>2, <3>3
  <2> QED
    BY <1>1, <2>1, <2>2
<1>4. Consumed' = start + Len(Copied)
  BY <1>1, <1>2
<1> QED
  BY <1>3, <1>4

-----------------------------------------------------------------------------
(* The parts of the invariant, one after another: the initial states. *)

LEMMA InitStream == StreamInit => StreamInvariant
<1> SUFFICES ASSUME StreamInit PROVE StreamInvariant
  OBVIOUS
<1>1. StreamTypeOK
  <2>1. places \in Seq([at : Nat, due : Nat])
    BY DEF StreamInit
  <2>2. Len(Magic) = 4
    BY DEF Magic
  <2>3. matched \in 0 .. Len(Magic) - 1
    BY <2>2 DEF StreamInit
  <2>4. /\ wire = <<>> /\ buffer = <<>> /\ got = <<>> /\ traffic = <<>> /\ sent = <<>>
        /\ due = <<>> /\ handled = <<>> /\ rstage = "magic"
        /\ stopRequested \in BOOLEAN /\ intact \in BOOLEAN
    BY DEF StreamInit
  <2>5. /\ wire \in Seq(Nat) /\ buffer \in Seq(Nat) /\ got \in Seq(Nat) /\ traffic \in Seq(Nat)
        /\ sent \in Seq(Messages)
    BY <2>4
  <2>6. due \in Seq(Parcel) /\ handled \in Seq(Parcel)
    BY <2>4
  <2> QED
    BY <2>1, <2>3, <2>4, <2>5, <2>6 DEF StreamTypeOK, Parcel
<1>2. ReadsWithinBounds
  BY DEF StreamInit, ReadsWithinBounds, HeaderRest
<1>3. TrafficIsSent
  BY DEF StreamInit, TrafficIsSent
<1>4. RestIsUnderWay
  BY DEF StreamInit, RestIsUnderWay, Consumed
<1>5. IsReading(1)
  BY DEF StreamInit, IsReading, Consumed
<1>6. ReaderIsAligned
  BY <1>5 DEF StreamInit, ReaderIsAligned
<1>7. HandledIsDue
  BY DEF StreamInit, HandledIsDue
<1> QED
  BY <1>1, <1>2, <1>3, <1>4, <1>6, <1>7 DEF StreamInvariant

-----------------------------------------------------------------------------
(* Types and bounds. *)

LEMMA MatchType ==
  ASSUME StreamTypeOK, ReadsWithinBounds, MatchByte
  PROVE  StreamTypeOK' /\ ReadsWithinBounds'
<1>1. buffer \in Seq(Nat) /\ buffer # <<>>
  BY DEF StreamTypeOK, MatchByte
<1>2. buffer' \in Seq(Nat)
  BY <1>1, HeadTailProperties DEF MatchByte
<1>3. UNCHANGED <<wire, got, header, handled, stopRequested, intact, sent, due, traffic, places>>
  BY DEF MatchByte, history
<1>4. Len(Magic) = 4
  BY DEF Magic
<1>5. NowMatched(Head(buffer)) \in 0 .. 4
  BY <1>4 DEF NowMatched, StreamTypeOK
<1>6. /\ rstage' \in {"magic", "fields"} /\ matched' \in 0 .. 3
      /\ rstage' = "fields" => matched' = 0
  BY <1>4, <1>5 DEF MatchByte, StreamTypeOK
<1>7. header = <<>> /\ got = <<>>
  BY DEF MatchByte, ReadsWithinBounds
<1>8. StreamTypeOK'
  BY <1>2, <1>3, <1>4, <1>6 DEF StreamTypeOK
<1>9. ReadsWithinBounds'
  <2>1. Len(got') = 0
    BY <1>3, <1>7
  <2> QED
    BY <1>3, <1>6, <1>7, <2>1 DEF ReadsWithinBounds, HeaderRest
<1> QED
  BY <1>8, <1>9

LEMMA HandledType ==
  ASSUME NEW type \in Nat, NEW payload \in Seq(Nat), Handle(type, payload),
         handled \in Seq(Parcel)
  PROVE  /\ handled' \in Seq(Parcel) /\ Len(handled) \in Nat
         /\ Len(handled') = Len(handled) + 1
         /\ \A i \in 1 .. Len(handled) : handled'[i] = handled[i]
         /\ handled'[Len(handled) + 1] = [type |-> type, payload |-> payload]
<1>1. PICK e : e = [type |-> type, payload |-> payload]
  OBVIOUS
<1>2. e \in Parcel
  BY <1>1 DEF Parcel
<1>3. handled' = Append(handled, e)
  BY <1>1 DEF Handle
<1> QED
  BY <1>1, <1>2, <1>3, AppendProperties, LenProperties

LEMMA CopyType ==
  ASSUME StreamTypeOK, ReadsWithinBounds, Copy
  PROVE  /\ handled' \in Seq(Parcel) /\ got' \in Seq(Nat)
         /\ rstage' \in {"magic", "fields", "payload"}
         /\ ReadsWithinBounds'
<1>1. matched' = 0
  BY DEF Copy, ReadsWithinBounds
<1>2. rstage \in {"fields", "payload"} /\ handled \in Seq(Parcel)
  BY DEF Copy, StreamTypeOK, Parcel
<1>3. Copied \in Seq(Nat)
  BY CopyBytes
<1>4. CASE Len(Copied) < Wanted /\ got' = Copied /\ UNCHANGED <<rstage, header, handled>>
  <2>1. ReadsWithinBounds'
    <3>1. CASE rstage = "fields"
      <4>1. Len(got') < 3
        BY <1>4, <3>1 DEF Wanted, HeaderRest
      <4> QED
        BY <1>1, <1>4, <3>1, <4>1 DEF ReadsWithinBounds, HeaderRest
    <3>2. CASE rstage = "payload"
      <4>1. Len(got') < header'[3]
        BY <1>4, <3>2 DEF Wanted
      <4> QED
        BY <1>1, <1>4, <3>2, <4>1 DEF ReadsWithinBounds
    <3> QED
      BY <1>2, <3>1, <3>2
  <2> QED
    BY <1>2, <1>3, <1>4, <2>1
<1>5. CASE Len(Copied) = 3 /\ rstage = "fields" /\ FieldsRead(Copied)
  <2>1. /\ Copied \in [1 .. 3 -> Nat] /\ Copied[2] \in Nat /\ Copied[3] \in Nat
    BY <1>5, CopiedFields
  <2>2. CASE ~Accepted(Copied) /\ NextMessage /\ UNCHANGED handled
    BY <1>1, <1>2, <2>2 DEF NextMessage, ReadsWithinBounds
  <2>3. CASE Accepted(Copied) /\ Copied[3] = 0 /\ Handle(Copied[2], <<>>)
    <3>1. handled' \in Seq(Parcel)
      BY <1>2, <2>1, <2>3, EmptySeq, HandledType
    <3> QED
      BY <1>1, <2>3, <3>1 DEF Handle, NextMessage, ReadsWithinBounds
  <2>4. CASE /\ Accepted(Copied) /\ Copied[3] > 0
             /\ rstage' = "payload" /\ got' = <<>> /\ header' = Copied
             /\ UNCHANGED handled
    <3>1. Len(got') = 0 /\ got' \in Seq(Nat)
      BY <2>4
    <3> QED
      BY <1>1, <1>2, <2>1, <2>4, <3>1 DEF ReadsWithinBounds, Accepted, Fields, HeaderRest
  <2> QED
    BY <1>5, <2>2, <2>3, <2>4 DEF FieldsRead
<1>6. CASE Len(Copied) = header[3] /\ rstage = "payload" /\ Handle(header[2], Copied)
  <2>1. header[2] \in Nat
    BY <1>6 DEF ReadsWithinBounds, Fields, HeaderRest
  <2>2. handled' \in Seq(Parcel)
    BY <1>2, <1>3, <1>6, <2>1, HandledType
  <2> QED
    BY <1>1, <1>6, <2>2 DEF Handle, NextMessage, ReadsWithinBounds
<1> QED
  BY <1>4, <1>5, <1>6, CopyOutcome

LEMMA TypeStep ==
  ASSUME StreamInvariant, [StreamNext]_streamVars
  PROVE  StreamTypeOK' /\ ReadsWithinBounds'
<1> USE DEF history, reader
<1>1. StreamTypeOK /\ ReadsWithinBounds /\ RestIsUnderWay
  BY DEF StreamInvariant
<1>2. ASSUME NEW m \in Messages, Write(m)
      PROVE  StreamTypeOK' /\ ReadsWithinBounds'
  <2>1. UNCHANGED <<buffer, reader, stopRequested, intact>>
    BY <1>2 DEF Write
  <2>2. /\ traffic' \in Seq(Nat) /\ wire' \in Seq(Nat) /\ sent' \in Seq(Messages)
        /\ due' \in Seq(Parcel) /\ places' \in Seq(Place)
    BY <1>1, <1>2, WriteBytes, WriteHistory
  <2> QED
    BY <1>1, <2>1, <2>2 DEF StreamTypeOK, ReadsWithinBounds, Parcel, Place
<1>3. CASE Stop \/ FillFails \/ StreamStopped \/ UNCHANGED streamVars
  BY <1>1, <1>3
     DEF Stop, FillFails, StreamStopped, streamVars, StreamTypeOK, ReadsWithinBounds
<1>4. CASE Fill
  <2>1. buffer' \in Seq(Nat) /\ wire' \in Seq(Nat)
    BY <1>1, <1>4, FillUnderWay
  <2> QED
    BY <1>1, <1>4, <2>1 DEF Fill, StreamTypeOK, ReadsWithinBounds
<1>5. CASE FillTimesOut
  <2>1. PICK n \in Transfers : wire' = SubSeq(wire, n + 1, Len(wire))
    BY <1>5 DEF FillTimesOut
  <2>2. n \in 0 .. Len(wire) /\ wire \in Seq(Nat)
    BY <1>1, UnderWay, StreamBoundsAssumption DEF Transfers, StreamTypeOK
  <2>3. wire' \in Seq(Nat)
    BY <2>1, <2>2, RestOfSeq
  <2> QED
    BY <1>1, <1>5, <2>3 DEF FillTimesOut, StreamTypeOK, ReadsWithinBounds
<1>6. CASE MatchByte
  BY <1>1, <1>6, MatchType
<1>7. CASE Copy
  <2>1. CopySize \in 0 .. Len(buffer)
    BY <1>1, <1>7, CopyBytes
  <2>2. /\ buffer' = SubSeq(buffer, CopySize + 1, Len(buffer))
        /\ UNCHANGED <<wire, matched, stopRequested, history, intact>>
    BY <1>7 DEF Copy
  <2>3. buffer' \in Seq(Nat)
    BY <1>1, <2>1, <2>2, TakeUnderWay
  <2> QED
    BY <1>1, <1>7, <2>2, <2>3, CopyType DEF StreamTypeOK, Parcel
<1> QED
  BY <1>2, <1>3, <1>4, <1>5, <1>6, <1>7 DEF StreamNext, Read

LEMMA TrafficStep ==
  ASSUME StreamInvariant, [StreamNext]_streamVars
  PROVE  TrafficIsSent'
<1> USE DEF history, reader
<1>1. StreamTypeOK /\ TrafficIsSent
  BY DEF StreamInvariant
<1>2. ASSUME NEW m \in Messages, Write(m)
      PROVE  TrafficIsSent'
  BY <1>1, <1>2, WriteTraffic
<1>3. CASE UNCHANGED history
  BY <1>1, <1>3 DEF TrafficIsSent
<1>4. \/ \E m \in Messages : Write(m)
      \/ UNCHANGED history
  BY DEF StreamNext, Read, Stop, Fill, FillTimesOut, FillFails, StreamStopped, MatchByte, Copy,
         streamVars
<1> QED
  BY <1>2, <1>3, <1>4

LEMMA UnderWayStep ==
  ASSUME StreamInvariant, [StreamNext]_streamVars
  PROVE  RestIsUnderWay'
<1> USE DEF history, reader
<1>1. StreamTypeOK /\ ReadsWithinBounds /\ RestIsUnderWay
  BY DEF StreamInvariant
<1>2. ASSUME NEW m \in Messages, Write(m)
      PROVE  RestIsUnderWay'
  BY <1>1, <1>2, WriteUnderWay
<1>3. CASE UNCHANGED <<wire, buffer, traffic, intact>>
  BY <1>1, <1>3 DEF RestIsUnderWay, Consumed
<1>4. CASE Fill
  BY <1>1, <1>4, FillUnderWay
<1>5. CASE FillTimesOut
  BY <1>5 DEF FillTimesOut, RestIsUnderWay
<1>6. CASE MatchByte
  <2>1. /\ buffer' = SubSeq(buffer, 1 + 1, Len(buffer))
        /\ UNCHANGED <<wire, traffic, intact>>
    BY <1>6 DEF MatchByte, Tail
  <2>2. 1 \in 0 .. Len(buffer)
    <3>1. buffer \in Seq(Nat) /\ buffer # <<>>
      BY <1>1, <1>6 DEF StreamTypeOK, MatchByte
    <3>2. Len(buffer) \in Nat /\ Len(buffer) # 0
      BY <3>1, EmptySeq, LenProperties
    <3> QED
      BY <3>2
  <2> QED
    BY <1>1, <2>1, <2>2, TakeUnderWay
<1>7. CASE Copy
  <2>1. CopySize \in 0 .. Len(buffer)
    BY <1>1, <1>7, CopyBytes
  <2>2. /\ buffer' = SubSeq(buffer, CopySize + 1, Len(buffer))
        /\ UNCHANGED <<wire, traffic, intact>>
    BY <1>7 DEF Copy
  <2> QED
    BY <1>1, <2>1, <2>2, TakeUnderWay
<1>8. \/ \E m \in Messages : Write(m)
      \/ UNCHANGED <<wire, buffer, traffic, intact>>
      \/ Fill \/ FillTimesOut \/ MatchByte \/ Copy
  BY DEF StreamNext, Read, Stop, FillFails, StreamStopped, streamVars
<1> QED
  BY <1>2, <1>3, <1>4, <1>5, <1>6, <1>7, <1>8

-----------------------------------------------------------------------------
(* The reader is where a message begins or within one. *)

LEMMA PlaceInTraffic ==
  ASSUME StreamTypeOK, TrafficIsSent, NEW k \in 1 .. Len(places)
  PROVE  /\ places[k].at \in Nat /\ places[k].due \in Nat
         /\ places[k].at <= Len(traffic) /\ places[k].due <= Len(due)
         /\ k \in Nat /\ Len(sent) \in Nat /\ Len(due) \in Nat /\ Len(places) = Len(sent) + 1
         /\ k \notin 1 .. Len(sent) => places[k].at = Len(traffic)
<1>1. places \in Seq(Place)
  BY DEF StreamTypeOK, Place
<1>2. places[k] \in Place
  BY <1>1, ElementOfSeq
<1>3. k \in Nat /\ Len(sent) \in Nat /\ Len(due) \in Nat /\ Len(places) = Len(sent) + 1
  BY LenProperties DEF StreamTypeOK, TrafficIsSent
<1>4. k \notin 1 .. Len(sent) => k = Len(places)
  BY <1>3
<1> QED
  BY <1>2, <1>3, <1>4 DEF TrafficIsSent, Place

LEMMA WriteAligned ==
  ASSUME StreamInvariant, NEW m \in Messages, Write(m), NEW k, IsReading(k)
  PROVE  k \in 1 .. Len(places') /\ IsReading(k)'
<1>1. StreamTypeOK /\ ReadsWithinBounds /\ TrafficIsSent /\ RestIsUnderWay
  BY DEF StreamInvariant
<1>2. UNCHANGED <<rstage, matched, got, header, handled>>
  BY DEF Write, reader
<1>3. Consumed' = Consumed
  BY <1>1, WriteUnderWay
<1>4. k \in 1 .. Len(places)
  BY DEF IsReading
<1>5. k \in 1 .. Len(places') /\ places'[k] = places[k]
  <2>1. /\ Len(places) \in Nat /\ Len(places') = Len(places) + 1
        /\ \A i \in 1 .. Len(places) : places'[i] = places[i]
    BY <1>1, WriteHistory
  <2> QED
    BY <1>4, <2>1
<1>6. CASE rstage = "magic" /\ Consumed - places[k].at = matched
  BY <1>2, <1>3, <1>5, <1>6 DEF IsReading
<1>7. CASE ~(rstage = "magic" /\ Consumed - places[k].at = matched)
  <2>1. k <= Len(sent)
    BY <1>7 DEF IsReading
  <2>2. /\ k \in 1 .. Len(sent) /\ k <= Len(sent') /\ k + 1 \in 1 .. Len(places)
    BY <1>1, <1>4, <2>1, WriteHistory DEF TrafficIsSent
  <2>3. sent'[k] = sent[k] /\ places'[k + 1] = places[k + 1]
    BY <1>1, <2>2, WriteHistory
  <2>4. PICK at \in Nat, len \in Nat :
          /\ at = places[k].at /\ len = Len(sent[k].payload)
          /\ at + 7 + len <= Len(traffic)
          /\ WellFormed(sent[k]) => sent[k].size = len
    BY <1>1, <2>2, MessageEnds, Zenon
  <2>5. Len(got) \in Nat /\ Len(traffic) \in Nat
    BY <1>1, LenProperties DEF StreamTypeOK
  <2>6. CASE rstage = "fields"
    <3>1. /\ Consumed - at = Len(Magic) + Len(got)
          /\ \A j \in 1 .. Len(got) : got[j] = traffic[at + Len(Magic) + j]
      BY <2>4, <2>6 DEF IsReading
    <3>2. Len(got) < 3 /\ Len(Magic) = 4
      BY <1>1, <2>6 DEF ReadsWithinBounds, HeaderRest, Magic
    <3>3. ASSUME NEW j \in 1 .. Len(got)
          PROVE  got[j] = traffic'[at + Len(Magic) + j]
      <4>1. at + 4 + j \in 1 .. Len(traffic)
        <5>1. PICK g \in Nat, t \in Nat : g = Len(got) /\ t = Len(traffic)
          BY <2>5
        <5>2. at + 7 + len <= t /\ g < 3 /\ j \in 1 .. g
          BY <2>4, <3>2, <5>1
        <5>3. at + 4 + j \in 1 .. t
          BY <5>2
        <5> QED
          BY <5>1, <5>3, Zenon
      <4>2. got[j] = traffic[at + 4 + j]
        BY <3>1, <3>2
      <4>3. traffic'[at + 4 + j] = traffic[at + 4 + j]
        BY <1>1, <4>1, WriteBytes
      <4> QED
        BY <3>2, <4>2, <4>3
    <3> QED
      BY <1>2, <1>3, <1>5, <2>2, <2>4, <2>6, <3>1, <3>3 DEF IsReading
  <2>7. CASE rstage = "payload"
    <3>1. /\ WellFormed(sent[k]) /\ header = <<sent[k].version, sent[k].type, sent[k].size>>
          /\ Consumed - at = Len(Magic) + HeaderRest + Len(got)
          /\ \A j \in 1 .. Len(got) : got[j] = traffic[at + Len(Magic) + HeaderRest + j]
      BY <2>4, <2>7 DEF IsReading
    <3>2. Len(got) < len /\ Len(Magic) = 4 /\ HeaderRest = 3
      <4>1. Len(got) < header[3]
        BY <1>1, <2>7 DEF ReadsWithinBounds
      <4> QED
        BY <2>4, <3>1, <4>1 DEF HeaderRest, Magic
    <3>3. ASSUME NEW j \in 1 .. Len(got)
          PROVE  got[j] = traffic'[at + Len(Magic) + HeaderRest + j]
      <4>1. at + 4 + 3 + j \in 1 .. Len(traffic)
        <5>1. PICK g \in Nat, t \in Nat : g = Len(got) /\ t = Len(traffic)
          BY <2>5
        <5>2. at + 7 + len <= t /\ g < len /\ j \in 1 .. g
          BY <2>4, <3>2, <5>1
        <5>3. at + 4 + 3 + j \in 1 .. t
          BY <5>2
        <5> QED
          BY <5>1, <5>3, Zenon
      <4>2. got[j] = traffic[at + 4 + 3 + j]
        BY <3>1, <3>2
      <4>3. traffic'[at + 4 + 3 + j] = traffic[at + 4 + 3 + j]
        BY <1>1, <4>1, WriteBytes
      <4> QED
        BY <3>2, <4>2, <4>3
    <3> QED
      BY <1>2, <1>3, <1>5, <2>2, <2>3, <2>4, <2>7, <3>1, <3>3 DEF IsReading
  <2>8. CASE rstage \notin {"fields", "payload"}
    BY <1>2, <1>3, <1>5, <1>7, <2>2, <2>3, <2>8 DEF IsReading
  <2> QED
    BY <2>6, <2>7, <2>8
<1> QED
  BY <1>6, <1>7

LEMMA MatchAligned ==
  ASSUME StreamInvariant, MatchByte, intact, Unambiguous(sent), NEW k, IsReading(k)
  PROVE  \E l \in 1 .. Len(places') : IsReading(l)'
<1>1. StreamTypeOK /\ ReadsWithinBounds /\ TrafficIsSent /\ RestIsUnderWay
  BY DEF StreamInvariant
<1>2. /\ UNCHANGED <<wire, got, header, handled, intact, sent, due, traffic, places>>
      /\ rstage = "magic"
  BY DEF MatchByte, history
<1>3. /\ buffer \in Seq(Nat) /\ Len(buffer) \in Nat \ {0}
      /\ buffer' = SubSeq(buffer, 1 + 1, Len(buffer))
  <2>1. buffer \in Seq(Nat) /\ buffer # <<>>
    BY <1>1 DEF StreamTypeOK, MatchByte
  <2> QED
    BY <2>1, EmptySeq, LenProperties DEF MatchByte, Tail
<1>4. Consumed' = Consumed + 1
  <2>1. 1 \in 0 .. Len(buffer)
    BY <1>3
  <2> QED
    BY <1>1, <1>2, <1>3, <2>1, TakeUnderWay
<1>5. Consumed \in Int /\ Consumed < Len(traffic) /\ Consumed + 1 <= Len(traffic)
  BY <1>1, <1>3, UnderWay
<1>6. PICK byte : byte = Head(buffer) /\ byte = traffic[Consumed + 1]
  BY <1>1, <1>3 DEF RestIsUnderWay
<1>7. Len(Magic) = 4 /\ matched \in 0 .. 3 /\ HeaderRest = 3
  BY <1>1 DEF Magic, StreamTypeOK, HeaderRest
<1>8. k \in 1 .. Len(places) /\ Len(handled) = places[k].due
  BY DEF IsReading
<1>9. PICK at \in Nat : at = places[k].at /\ at <= Len(traffic)
  BY <1>1, <1>8, PlaceInTraffic
<1>10. k \in 1 .. Len(sent)
  <2>1. CASE Consumed - at = matched
    <3>1. at # Len(traffic)
      BY <1>5, <1>7, <2>1
    <3> QED
      BY <1>1, <1>8, <1>9, <3>1, PlaceInTraffic
  <2>2. CASE Consumed - at # matched
    BY <1>1, <1>2, <1>8, <1>9, <2>2, PlaceInTraffic DEF IsReading
  <2> QED
    BY <2>1, <2>2
<1>11. PICK len \in Nat :
         /\ len = Len(sent[k].payload) /\ k + 1 \in 1 .. Len(places)
         /\ places[k + 1].at = at + 7 + len
         /\ \A j \in 1 .. 4 : traffic[at + j] = Magic[j]
         /\ \A j \in 1 .. len : traffic[at + 7 + j] = sent[k].payload[j]
         /\ ~WellFormed(sent[k]) => places[k + 1].due = places[k].due
  BY <1>1, <1>9, <1>10, MessageInTraffic
<1>12. CASE Consumed - at = matched
  <2>1. byte = Magic[matched + 1]
    <3>1. matched + 1 \in 1 .. 4 /\ Consumed + 1 = at + (matched + 1)
      BY <1>5, <1>7, <1>12
    <3> QED
      BY <1>6, <1>11, <3>1
  <2>2. NowMatched(byte) = matched + 1
    BY <2>1 DEF NowMatched
  <2>3. IF matched + 1 = 4 THEN rstage' = "fields" /\ matched' = 0
                           ELSE matched' = matched + 1 /\ rstage' = rstage
    BY <1>6, <1>7, <2>2 DEF MatchByte
  <2>4. CASE matched + 1 = 4
    <3>1. got = <<>> /\ Len(got') = 0
      BY <1>1, <1>2 DEF ReadsWithinBounds
    <3>2. Consumed' - at = Len(Magic) + Len(got')
      BY <1>4, <1>5, <1>7, <1>12, <2>4, <3>1
    <3>3. k <= Len(sent)
      BY <1>10
    <3> QED
      BY <1>2, <1>8, <1>9, <2>3, <2>4, <3>1, <3>2, <3>3 DEF IsReading
  <2>5. CASE matched + 1 # 4
    <3>1. Consumed' - at = matched'
      BY <1>4, <1>5, <1>7, <1>12, <2>3, <2>5
    <3> QED
      BY <1>2, <1>8, <1>9, <2>3, <2>5, <3>1 DEF IsReading
  <2> QED
    BY <2>4, <2>5
<1>13. CASE Consumed - at # matched
  <2>1. /\ ~WellFormed(sent[k]) /\ matched = 0
        /\ Consumed - at >= 7 /\ Consumed < at + 7 + len
    BY <1>2, <1>7, <1>9, <1>11, <1>13 DEF IsReading
  <2>2. byte # C
    <3> DEFINE j == Consumed + 1 - at - 7
    <3>1. j \in 1 .. len /\ Consumed + 1 = at + 7 + j
      BY <1>5, <2>1
    <3> HIDE DEF j
    <3>2. byte = sent[k].payload[j]
      BY <1>6, <1>11, <3>1
    <3>3. sent[k].payload \in Seq(Nat)
      BY <1>1, <1>10, MessageInTraffic
    <3>4. j \in DOMAIN sent[k].payload
      BY <1>11, <3>1, <3>3, LenProperties
    <3>5. sent[k].payload[j] \in Range(sent[k].payload)
      BY <3>4 DEF Range
    <3>6. k \in DOMAIN sent
      BY <1>1, <1>10, LenProperties DEF StreamTypeOK
    <3>7. C \notin Range(sent[k].payload)
      BY <2>1, <3>6 DEF Unambiguous
    <3> QED
      BY <3>2, <3>5, <3>7
  <2>3. NowMatched(byte) = 0
    <3>1. Magic[1] = C
      BY DEF Magic
    <3> QED
      BY <2>1, <2>2, <3>1 DEF NowMatched
  <2>4. matched' = 0 /\ rstage' = "magic"
    BY <1>2, <1>6, <1>7, <2>3 DEF MatchByte
  <2>5. CASE Consumed + 1 < at + 7 + len
    <3>1. /\ Consumed' - at >= Len(Magic) + HeaderRest /\ Consumed' < places[k + 1].at
          /\ k <= Len(sent)
      <4>1. PICK c \in Int : c = Consumed
        BY <1>5
      <4>2. c + 1 - at >= 7 /\ c + 1 < at + 7 + len
        BY <2>1, <2>5, <4>1
      <4>3. Consumed' = c + 1 /\ Len(Magic) + HeaderRest = 7
        BY <1>4, <1>7, <4>1
      <4>4. Consumed' - at >= Len(Magic) + HeaderRest
        BY <4>2, <4>3
      <4>5. Consumed' < places[k + 1].at
        BY <1>11, <4>2, <4>3
      <4> QED
        BY <1>10, <4>4, <4>5
    <3> QED
      BY <1>2, <1>8, <1>9, <2>1, <2>4, <3>1 DEF IsReading
  <2>6. CASE Consumed + 1 >= at + 7 + len
    <3>1. Consumed' - places[k + 1].at = matched'
      <4>1. PICK c \in Int : c = Consumed
        BY <1>5
      <4>2. c + 1 - (at + 7 + len) = 0
        BY <2>1, <2>6, <4>1
      <4>3. Consumed' = c + 1 /\ places[k + 1].at = at + 7 + len
        BY <1>4, <1>11, <4>1
      <4> QED
        BY <2>4, <4>2, <4>3
    <3>2. Len(handled) = places[k + 1].due
      BY <1>8, <1>11, <2>1
    <3> QED
      BY <1>2, <1>11, <2>4, <3>1, <3>2 DEF IsReading
  <2> QED
    BY <1>5, <2>5, <2>6
<1> QED
  BY <1>12, <1>13

\* The next message that is due is handed on.
HandsOnNext ==
  /\ Len(handled') = Len(handled) + 1 /\ Len(handled) + 1 <= Len(due)
  /\ \A i \in 1 .. Len(handled) : handled'[i] = handled[i]
  /\ handled'[Len(handled) + 1] = due[Len(handled) + 1]

LEMMA HandsOn ==
  ASSUME StreamTypeOK, TrafficIsSent, NEW k \in 1 .. Len(sent),
         WellFormed(sent[k]), Len(handled) = places[k].due,
         Handle(sent[k].type, sent[k].payload)
  PROVE  HandsOnNext /\ Len(handled') = places[k + 1].due
<1>1. /\ sent[k] \in Messages /\ sent[k].payload \in Seq(Nat)
      /\ places[k + 1].due = places[k].due + 1 /\ places[k + 1].due <= Len(due)
      /\ due[places[k + 1].due] = Content(sent[k])
  BY MessageInTraffic
<1>2. sent[k].type \in Nat
  BY <1>1, StreamMessagesAssumption
<1>3. handled \in Seq(Parcel)
  BY DEF StreamTypeOK, Parcel
<1>4. /\ Len(handled') = Len(handled) + 1
      /\ \A i \in 1 .. Len(handled) : handled'[i] = handled[i]
      /\ handled'[Len(handled) + 1] = [type |-> sent[k].type, payload |-> sent[k].payload]
  BY <1>1, <1>2, <1>3, HandledType
<1>5. Content(sent[k]) = [type |-> sent[k].type, payload |-> sent[k].payload]
  BY DEF Content
<1> QED
  BY <1>1, <1>4, <1>5 DEF HandsOnNext

\* The fields of a header are those of the message that is read.
LEMMA FieldsAligned ==
  ASSUME StreamInvariant, Copy, intact, NEW k, IsReading(k),
         rstage = "fields", Len(Copied) = 3, FieldsRead(Copied)
  PROVE  /\ \E l \in 1 .. Len(places') : IsReading(l)'
         /\ UNCHANGED handled \/ HandsOnNext
<1>1. StreamTypeOK /\ ReadsWithinBounds /\ TrafficIsSent /\ RestIsUnderWay
  BY DEF StreamInvariant
<1>2. /\ UNCHANGED <<wire, intact, sent, due, traffic, places>> /\ matched' = 0
  BY <1>1 DEF Copy, history, ReadsWithinBounds
<1>3. Len(Magic) = 4 /\ HeaderRest = 3
  BY DEF Magic, HeaderRest
<1>4. k \in 1 .. Len(places) /\ Len(handled) = places[k].due /\ k <= Len(sent)
  BY DEF IsReading
<1>5. k \in 1 .. Len(sent)
  BY <1>1, <1>4, PlaceInTraffic
<1>6. PICK at \in Nat, len \in Nat :
        /\ at = places[k].at /\ len = Len(sent[k].payload)
        /\ k + 1 \in 1 .. Len(places) /\ places[k + 1].at = at + 7 + len
        /\ sent[k].payload \in Seq(Nat)
        /\ traffic[at + 5] = sent[k].version /\ traffic[at + 6] = sent[k].type
        /\ traffic[at + 7] = sent[k].size
        /\ WellFormed(sent[k]) => sent[k].size = len
        /\ ~WellFormed(sent[k]) => places[k + 1].due = places[k].due
  BY <1>1, <1>5, MessageInTraffic
<1>7. Len(got) \in Nat /\ Consumed \in Int
  BY <1>1, CopyBytes, UnderWay
<1>8. Consumed' = at + 7 /\ \A j \in 1 .. 3 : Copied[j] = traffic[at + 4 + j]
  <2>1. /\ Consumed - at = 4 + Len(got)
        /\ \A j \in 1 .. Len(got) : got[j] = traffic[at + 4 + j]
    BY <1>3, <1>6 DEF IsReading
  <2>2. PICK start \in Int : start = at + 4
    OBVIOUS
  <2>3. Consumed = start + Len(got)
    BY <1>7, <2>1, <2>2
  <2>4. \A j \in 1 .. Len(got) : got[j] = traffic[start + j]
    BY <2>1, <2>2
  <2>5. /\ Consumed' = start + 3 /\ \A j \in 1 .. 3 : Copied[j] = traffic[start + j]
    BY <1>1, <2>3, <2>4, CopyContinues
  <2> QED
    BY <2>2, <2>5
<1>9. Copied[1] = sent[k].version /\ Copied[2] = sent[k].type /\ Copied[3] = sent[k].size
  <2>1. /\ Copied[1] = traffic[at + 4 + 1] /\ Copied[2] = traffic[at + 4 + 2]
        /\ Copied[3] = traffic[at + 4 + 3]
    BY <1>8
  <2>2. at + 4 + 1 = at + 5 /\ at + 4 + 2 = at + 6 /\ at + 4 + 3 = at + 7
    OBVIOUS
  <2> QED
    BY <1>6, <2>1, <2>2, Zenon
<1>10. Accepted(Copied) <=> WellFormed(sent[k])
  BY <1>9 DEF Accepted, WellFormed
<1>11. Copied = <<sent[k].version, sent[k].type, sent[k].size>>
  <2>1. Copied = <<Copied[1], Copied[2], Copied[3]>>
    BY <1>1, CopiedFields
  <2> QED
    BY <1>9, <2>1, Zenon
<1>12. ASSUME len = 0, rstage' = "magic", Len(handled') = places[k + 1].due
       PROVE  IsReading(k + 1)'
  <2>1. Consumed' - places[k + 1].at = matched'
    BY <1>2, <1>6, <1>8, <1>12
  <2> QED
    BY <1>2, <1>6, <1>12, <2>1 DEF IsReading
<1>13. CASE ~Accepted(Copied) /\ NextMessage /\ UNCHANGED handled
  <2>1. rstage' = "magic" /\ Len(handled') = places[k + 1].due
    BY <1>4, <1>6, <1>10, <1>13 DEF NextMessage
  <2>2. CASE len = 0
    BY <1>2, <1>6, <1>12, <1>13, <2>1, <2>2
  <2>3. CASE len # 0
    <3>1. Consumed' - at >= Len(Magic) + HeaderRest /\ Consumed' < places[k + 1].at
      <4>1. at + 7 - at >= 7 /\ at + 7 < at + 7 + len
        BY <2>3
      <4>2. Len(Magic) + HeaderRest = 7
        BY <1>3
      <4>3. Consumed' - at >= Len(Magic) + HeaderRest
        BY <1>8, <4>1, <4>2
      <4>4. Consumed' < places[k + 1].at
        BY <1>6, <1>8, <4>1
      <4> QED
        BY <4>3, <4>4
    <3>2. IsReading(k)'
      BY <1>2, <1>4, <1>6, <1>10, <1>13, <2>1, <3>1 DEF IsReading
    <3> QED
      BY <1>2, <1>4, <1>13, <3>2
  <2> QED
    BY <2>2, <2>3
<1>14. CASE Accepted(Copied) /\ Copied[3] = 0 /\ Handle(Copied[2], <<>>)
  <2>1. WellFormed(sent[k]) /\ len = 0
    BY <1>6, <1>9, <1>10, <1>14
  <2>2. sent[k].payload = <<>>
    BY <1>6, <2>1, EmptySeq
  <2>3. Handle(sent[k].type, sent[k].payload)
    BY <1>9, <1>14, <2>2
  <2>4. HandsOnNext /\ Len(handled') = places[k + 1].due
    BY <1>1, <1>4, <1>5, <2>1, <2>3, HandsOn
  <2>5. rstage' = "magic"
    BY <1>14 DEF Handle, NextMessage
  <2>6. IsReading(k + 1)'
    BY <1>12, <2>1, <2>4, <2>5
  <2> QED
    BY <1>2, <1>6, <2>4, <2>6
<1>15. CASE /\ Accepted(Copied) /\ Copied[3] > 0
            /\ rstage' = "payload" /\ got' = <<>> /\ header' = Copied
            /\ UNCHANGED handled
  <2>1. Len(got') = 0
    BY <1>15
  <2>2. Consumed' - at = Len(Magic) + HeaderRest + Len(got')
    BY <1>3, <1>8, <2>1
  <2>3. IsReading(k)'
    BY <1>2, <1>4, <1>6, <1>10, <1>11, <1>15, <2>1, <2>2 DEF IsReading
  <2> QED
    BY <1>2, <1>4, <1>15, <2>3
<1> QED
  BY <1>13, <1>14, <1>15 DEF FieldsRead

\* So is the payload.
LEMMA PayloadAligned ==
  ASSUME StreamInvariant, Copy, intact, NEW k, IsReading(k),
         rstage = "payload", Len(Copied) = header[3], Handle(header[2], Copied)
  PROVE  HandsOnNext /\ \E l \in 1 .. Len(places') : IsReading(l)'
<1>1. StreamTypeOK /\ ReadsWithinBounds /\ TrafficIsSent /\ RestIsUnderWay
  BY DEF StreamInvariant
<1>2. /\ UNCHANGED <<wire, intact, sent, due, traffic, places>> /\ matched' = 0
      /\ rstage' = "magic"
  BY <1>1 DEF Copy, history, ReadsWithinBounds, Handle, NextMessage
<1>3. Len(Magic) = 4 /\ HeaderRest = 3
  BY DEF Magic, HeaderRest
<1>4. /\ k \in 1 .. Len(places) /\ Len(handled) = places[k].due /\ k <= Len(sent)
      /\ WellFormed(sent[k]) /\ header = <<sent[k].version, sent[k].type, sent[k].size>>
  BY DEF IsReading
<1>5. k \in 1 .. Len(sent)
  BY <1>1, <1>4, PlaceInTraffic
<1>6. PICK at \in Nat, len \in Nat :
        /\ at = places[k].at /\ len = Len(sent[k].payload)
        /\ k + 1 \in 1 .. Len(places) /\ places[k + 1].at = at + 7 + len
        /\ sent[k].payload \in Seq(Nat)
        /\ \A j \in 1 .. len : traffic[at + 7 + j] = sent[k].payload[j]
        /\ sent[k].size = len
  BY <1>1, <1>4, <1>5, MessageInTraffic, ZenonT(60)
<1>7. Len(got) \in Nat /\ Consumed \in Int /\ Copied \in Seq(Nat)
  BY <1>1, CopyBytes, UnderWay
<1>8. Len(Copied) = len
  BY <1>4, <1>6
<1>9. Consumed' = at + 7 + len /\ \A j \in 1 .. len : Copied[j] = traffic[at + 7 + j]
  <2>1. /\ Consumed - at = 7 + Len(got)
        /\ \A j \in 1 .. Len(got) : got[j] = traffic[at + 4 + 3 + j]
    BY <1>3, <1>6 DEF IsReading
  <2>2. PICK start \in Int : start = at + 7
    OBVIOUS
  <2>3. Consumed = start + Len(got)
    BY <1>7, <2>1, <2>2
  <2>4. \A j \in 1 .. Len(got) : got[j] = traffic[start + j]
    BY <2>1, <2>2
  <2>5. /\ Consumed' = start + Len(Copied)
        /\ \A j \in 1 .. Len(Copied) : Copied[j] = traffic[start + j]
    BY <1>1, <2>3, <2>4, CopyContinues
  <2> QED
    BY <1>8, <2>2, <2>5
<1>10. Copied = sent[k].payload
  <2>1. PICK payload \in Seq(Nat) : payload = sent[k].payload
    BY <1>6
  <2>2. PICK copied \in Seq(Nat) : copied = Copied
    BY <1>7
  <2>3. Len(copied) = len /\ Len(payload) = len
    BY <1>6, <1>8, <2>1, <2>2
  <2>4. \A j \in 1 .. len : copied[j] = payload[j]
    BY <1>6, <1>9, <2>1, <2>2
  <2>5. copied = payload
    BY <2>3, <2>4, SeqEqual
  <2> QED
    BY <2>1, <2>2, <2>5
<1>11. Handle(sent[k].type, sent[k].payload)
  BY <1>4, <1>10
<1>12. HandsOnNext /\ Len(handled') = places[k + 1].due
  BY <1>1, <1>4, <1>5, <1>11, HandsOn
<1>13. Consumed' - places[k + 1].at = matched'
  BY <1>2, <1>6, <1>9
<1>14. IsReading(k + 1)'
  BY <1>2, <1>6, <1>12, <1>13 DEF IsReading
<1> QED
  BY <1>2, <1>6, <1>12, <1>14

LEMMA CopyAligned ==
  ASSUME StreamInvariant, Copy, intact, NEW k, IsReading(k)
  PROVE  /\ \E l \in 1 .. Len(places') : IsReading(l)'
         /\ UNCHANGED handled \/ HandsOnNext
<1>1. StreamTypeOK /\ ReadsWithinBounds /\ TrafficIsSent /\ RestIsUnderWay
  BY DEF StreamInvariant
<1>2. CASE Len(Copied) < Wanted /\ got' = Copied /\ UNCHANGED <<rstage, header, handled>>
  <2>1. UNCHANGED <<matched, sent, traffic, places>> /\ rstage \in {"fields", "payload"}
    BY DEF Copy, history
  <2>2. k \in 1 .. Len(places) /\ Len(handled) = places[k].due /\ k <= Len(sent)
    BY <2>1 DEF IsReading
  <2>3. PICK at \in Nat : at = places[k].at
    BY <1>1, <2>2, PlaceInTraffic
  <2>4. Len(Magic) = 4 /\ HeaderRest = 3
    BY DEF Magic, HeaderRest
  <2>5. PICK start \in Int :
          /\ start = IF rstage = "fields" THEN at + Len(Magic) ELSE at + Len(Magic) + HeaderRest
          /\ Consumed - start = Len(got)
          /\ \A j \in 1 .. Len(got) : got[j] = traffic[start + j]
    <3>1. CASE rstage = "fields"
      <4>1. /\ Consumed - at = 4 + Len(got)
            /\ \A j \in 1 .. Len(got) : got[j] = traffic[at + 4 + j]
        BY <2>3, <2>4, <3>1 DEF IsReading
      <4>2. Consumed - (at + 4) = Len(got)
        <5>1. PICK c \in Int, g \in Nat : c = Consumed /\ g = Len(got) /\ c - at = 4 + g
          BY <1>1, <4>1, CopyBytes, UnderWay, Zenon
        <5>2. c - (at + 4) = g
          BY <5>1
        <5> QED
          BY <5>1, <5>2, Zenon
      <4> QED
        BY <2>4, <3>1, <4>1, <4>2
    <3>2. CASE rstage = "payload"
      <4>1. /\ Consumed - at = 7 + Len(got)
            /\ \A j \in 1 .. Len(got) : got[j] = traffic[at + 4 + 3 + j]
        BY <2>3, <2>4, <3>2 DEF IsReading
      <4>2. Consumed - (at + 7) = Len(got)
        <5>1. PICK c \in Int, g \in Nat : c = Consumed /\ g = Len(got) /\ c - at = 7 + g
          BY <1>1, <4>1, CopyBytes, UnderWay, Zenon
        <5>2. c - (at + 7) = g
          BY <5>1
        <5> QED
          BY <5>1, <5>2, Zenon
      <4> QED
        BY <2>4, <3>2, <4>1, <4>2
    <3> QED
      BY <2>1, <3>1, <3>2
  <2>6. Consumed = start + Len(got)
    <3>1. PICK c \in Int, g \in Nat : c = Consumed /\ g = Len(got)
      BY <1>1, CopyBytes, UnderWay
    <3>2. c - start = g
      BY <2>5, <3>1
    <3>3. c = start + g
      BY <3>2
    <3> QED
      BY <3>1, <3>3, Zenon
  <2>7. /\ Consumed' = start + Len(Copied)
        /\ \A j \in 1 .. Len(Copied) : Copied[j] = traffic[start + j]
    BY <1>1, <2>5, <2>6, CopyContinues
  <2>8. Len(Copied) \in Nat
    BY <1>1, CopyBytes, LenProperties
  <2>9. CASE rstage = "fields"
    <3>1. start = at + 4
      BY <2>4, <2>5, <2>9
    <3>2. Consumed' - at = 4 + Len(Copied)
      BY <2>7, <2>8, <3>1
    <3>3. IsReading(k)'
      BY <1>2, <2>1, <2>2, <2>3, <2>4, <2>7, <2>9, <3>1, <3>2 DEF IsReading
    <3> QED
      BY <1>2, <2>1, <2>2, <3>3
  <2>10. CASE rstage = "payload"
    <3>1. start = at + 4 + 3
      BY <2>4, <2>5, <2>10
    <3>2. Consumed' - at = 4 + 3 + Len(Copied)
      BY <2>7, <2>8, <3>1
    <3>3. WellFormed(sent[k]) /\ header = <<sent[k].version, sent[k].type, sent[k].size>>
      BY <2>10 DEF IsReading
    <3>4. IsReading(k)'
      BY <1>2, <2>1, <2>2, <2>3, <2>4, <2>7, <2>10, <3>1, <3>2, <3>3 DEF IsReading
    <3> QED
      BY <1>2, <2>1, <2>2, <3>4
  <2> QED
    BY <2>1, <2>9, <2>10
<1>3. CASE Len(Copied) = 3 /\ rstage = "fields" /\ FieldsRead(Copied)
  BY <1>3, FieldsAligned
<1>4. CASE Len(Copied) = header[3] /\ rstage = "payload" /\ Handle(header[2], Copied)
  BY <1>4, PayloadAligned
<1> QED
  BY <1>1, <1>2, <1>3, <1>4, CopyOutcome

-----------------------------------------------------------------------------
(* The invariant of the stream. *)

\* What was lost or ambiguous stays so.
LEMMA ReliableBefore ==
  ASSUME StreamInvariant, [StreamNext]_streamVars, Reliable'
  PROVE  Reliable
<1> USE DEF history, reader
<1>1. ASSUME NEW m \in Messages, Write(m)
      PROVE  Reliable
  <2>1. StreamTypeOK
    BY DEF StreamInvariant
  <2>2. /\ Len(sent) \in Nat /\ Len(sent') = Len(sent) + 1
        /\ \A i \in 1 .. Len(sent) : sent'[i] = sent[i]
    BY <1>1, <2>1, WriteHistory
  <2>3. DOMAIN sent = 1 .. Len(sent) /\ DOMAIN sent' = 1 .. Len(sent')
    BY <1>1, <2>1, WriteHistory, LenProperties DEF StreamTypeOK
  <2>4. ASSUME NEW i \in DOMAIN sent
        PROVE  WellFormed(sent[i]) \/ C \notin Range(sent[i].payload)
    <3>1. i \in DOMAIN sent' /\ sent'[i] = sent[i]
      BY <2>2, <2>3
    <3>2. WellFormed(sent'[i]) \/ C \notin Range(sent'[i].payload)
      BY <3>1, Zenon DEF Reliable, Unambiguous, WellFormed, Range
    <3> QED
      BY <3>1, <3>2
  <2>5. intact
    BY <1>1 DEF Write, Reliable
  <2> QED
    BY <2>4, <2>5 DEF Reliable, Unambiguous
<1>2. CASE FillTimesOut
  BY <1>2 DEF FillTimesOut, Reliable
<1>3. CASE UNCHANGED <<intact, sent>>
  BY <1>3 DEF Reliable
<1>4. \/ \E m \in Messages : Write(m)
      \/ FillTimesOut \/ UNCHANGED <<intact, sent>>
  BY DEF StreamNext, Read, Stop, Fill, FillFails, StreamStopped, MatchByte, Copy, streamVars
<1> QED
  BY <1>1, <1>2, <1>3, <1>4

LEMMA AlignedStep ==
  ASSUME StreamInvariant, [StreamNext]_streamVars
  PROVE  ReaderIsAligned'
<1> USE DEF history, reader
<1> SUFFICES ASSUME Reliable', rstage' # "ended"
             PROVE  \E l \in 1 .. Len(places') : IsReading(l)'
  BY Zenon DEF ReaderIsAligned
<1>1. StreamTypeOK /\ RestIsUnderWay
  BY DEF StreamInvariant
<1>2. Reliable
  BY ReliableBefore
<1>3. rstage # "ended"
  BY DEF StreamNext, Read, Write, Stop, Fill, FillTimesOut, FillFails, StreamStopped, MatchByte,
         Copy, Reading, streamVars
<1>4. PICK k \in 1 .. Len(places) : IsReading(k)
  BY <1>2, <1>3 DEF StreamInvariant, ReaderIsAligned
<1>5. ASSUME NEW m \in Messages, Write(m)
      PROVE  \E l \in 1 .. Len(places') : IsReading(l)'
  BY <1>4, <1>5, WriteAligned
<1>6. CASE UNCHANGED <<reader, history>> /\ Consumed' = Consumed
  <2>1. IsReading(k)'
    BY <1>4, <1>6 DEF IsReading
  <2> QED
    BY <1>4, <1>6, <2>1
<1>7. CASE Stop \/ UNCHANGED streamVars
  BY <1>6, <1>7 DEF Stop, streamVars, Consumed
<1>8. CASE Fill
  <2>1. Consumed' = Consumed
    BY <1>1, <1>8, FillUnderWay
  <2> QED
    BY <1>6, <1>8, <2>1 DEF Fill
<1>9. CASE FillTimesOut
  BY <1>9 DEF FillTimesOut, Reliable
<1>10. CASE FillFails \/ StreamStopped
  BY <1>10 DEF FillFails, StreamStopped
<1>11. CASE MatchByte
  BY <1>2, <1>4, <1>11, MatchAligned DEF Reliable
<1>12. CASE Copy
  BY <1>2, <1>4, <1>12, CopyAligned DEF Reliable
<1> QED
  BY <1>5, <1>7, <1>8, <1>9, <1>10, <1>11, <1>12 DEF StreamNext, Read

\* Only a copy hands a message on.
LEMMA HandledStep ==
  ASSUME StreamInvariant, [StreamNext]_streamVars
  PROVE  HandledIsDue'
<1> USE DEF history, reader
<1> SUFFICES ASSUME Reliable'
             PROVE  /\ Len(handled') <= Len(due')
                    /\ \A i \in 1 .. Len(handled') : handled'[i] = due'[i]
  BY Zenon DEF HandledIsDue
<1>1. StreamTypeOK
  BY DEF StreamInvariant
<1>2. Reliable
  BY ReliableBefore
<1>3. /\ Len(handled) <= Len(due) /\ \A i \in 1 .. Len(handled) : handled[i] = due[i]
      /\ Len(handled) \in Nat /\ Len(due) \in Nat
  BY <1>1, <1>2, LenProperties DEF StreamInvariant, HandledIsDue, StreamTypeOK
<1>4. ASSUME NEW m \in Messages, Write(m)
      PROVE  /\ Len(handled') <= Len(due')
             /\ \A i \in 1 .. Len(handled') : handled'[i] = due'[i]
  <2>1. handled' = handled
    BY <1>4 DEF Write
  <2>2. /\ \A i \in 1 .. Len(due) : due'[i] = due[i]
        /\ Len(due') = Len(due) + 1 \/ due' = due
    BY <1>1, <1>4, WriteHistory
  <2> QED
    BY <1>3, <2>1, <2>2
<1>5. CASE UNCHANGED <<handled, due>>
  BY <1>3, <1>5
<1>6. CASE Copy
  <2>1. PICK k \in 1 .. Len(places) : IsReading(k)
    BY <1>2, <1>6 DEF StreamInvariant, ReaderIsAligned, Copy
  <2>2. UNCHANGED handled \/ HandsOnNext
    BY <1>2, <1>6, <2>1, CopyAligned DEF Reliable
  <2>3. due' = due
    BY <1>6 DEF Copy
  <2> QED
    BY <1>3, <2>2, <2>3 DEF HandsOnNext
<1>7. \/ \E m \in Messages : Write(m)
      \/ UNCHANGED <<handled, due>> \/ Copy
  BY DEF StreamNext, Read, Stop, Fill, FillTimesOut, FillFails, StreamStopped, MatchByte, streamVars
<1> QED
  BY <1>4, <1>5, <1>6, <1>7

\* The stream keeps its invariant: what is in the buffer and on the wire is the rest
\* of the traffic, and the reader is where a message begins or as far within one as
\* it has read, however the transfers are cut and whatever the payloads hold.
THEOREM StreamInvariantHolds == StreamSpec => []StreamInvariant
<1>1. StreamInvariant /\ [StreamNext]_streamVars => StreamInvariant'
  <2> SUFFICES ASSUME StreamInvariant, [StreamNext]_streamVars
               PROVE  StreamInvariant'
    OBVIOUS
  <2>1. StreamTypeOK' /\ ReadsWithinBounds' /\ TrafficIsSent'
    BY TypeStep, TrafficStep
  <2>2. RestIsUnderWay' /\ ReaderIsAligned' /\ HandledIsDue'
    BY UnderWayStep, AlignedStep, HandledStep
  <2> QED
    BY <2>1, <2>2, Zenon DEF StreamInvariant
<1> QED
  BY <1>1, InitStream, PTL DEF StreamSpec

\* With nothing under way the reader waits for a message and has handed on all.
LEMMA NothingUnderWay ==
  ASSUME StreamInvariant, Reliable, wire = <<>>, buffer = <<>>, rstage # "ended"
  PROVE  Len(handled) = Len(due) /\ rstage = "magic" /\ matched = 0
<1>1. StreamTypeOK /\ ReadsWithinBounds /\ TrafficIsSent
  BY DEF StreamInvariant
<1>2. PICK k \in 1 .. Len(places) : IsReading(k)
  BY DEF StreamInvariant, ReaderIsAligned
<1>3. PICK at \in Nat, t \in Nat : at = places[k].at /\ t = Len(traffic)
  BY <1>1, PlaceInTraffic, UnderWay
<1>4. Consumed = t
  <2>1. Len(wire) = 0 /\ Len(buffer) = 0
    OBVIOUS
  <2> QED
    BY <1>3, <2>1 DEF Consumed
<1>5. PICK g \in Nat : g = Len(got)
  BY <1>1, LenProperties DEF StreamTypeOK
<1>6. Len(Magic) = 4 /\ HeaderRest = 3 /\ matched \in 0 .. 3
  BY <1>1 DEF Magic, HeaderRest, StreamTypeOK
<1>7. k \notin 1 .. Len(sent)
  <2> SUFFICES ASSUME k \in 1 .. Len(sent) PROVE FALSE
    OBVIOUS
  <2>1. PICK len \in Nat : /\ len = Len(sent[k].payload) /\ places[k + 1].at = at + 7 + len
                           /\ at + 7 + len <= t
                           /\ WellFormed(sent[k]) => sent[k].size = len
    BY <1>1, <1>3, MessageEnds, Zenon
  <2>2. at + 7 + len <= t
    BY <2>1
  <2>3. CASE rstage = "magic" /\ Consumed - at = matched
    <3>1. t - at \in 0 .. 3
      BY <1>3, <1>4, <1>6, <2>3
    <3> QED
      BY <2>2, <3>1
  <2>4. CASE rstage = "fields"
    <3>1. t - at = 4 + g
      BY <1>2, <1>3, <1>4, <1>5, <1>6, <2>4 DEF IsReading
    <3>2. g < 3
      BY <1>1, <1>5, <2>4 DEF ReadsWithinBounds, HeaderRest
    <3> QED
      BY <2>2, <3>1, <3>2
  <2>5. CASE rstage = "payload"
    <3>1. t - at = 4 + 3 + g
      BY <1>2, <1>3, <1>4, <1>5, <1>6, <2>5 DEF IsReading
    <3>2. /\ header = <<sent[k].version, sent[k].type, sent[k].size>>
          /\ WellFormed(sent[k])
      BY <1>2, <2>5 DEF IsReading
    <3>3. g < len
      <4>1. g < header[3]
        BY <1>1, <1>5, <2>5 DEF ReadsWithinBounds
      <4> QED
        BY <2>1, <3>2, <4>1
    <3> QED
      BY <2>2, <3>1, <3>3
  <2>6. CASE rstage = "magic" /\ Consumed < places[k + 1].at
    <3>1. t < at + 7 + len
      BY <1>4, <2>1, <2>6
    <3> QED
      BY <2>2, <3>1
  <2>7. \/ rstage = "magic" /\ Consumed - at = matched
        \/ rstage = "fields"
        \/ rstage = "payload"
        \/ rstage = "magic" /\ Consumed < places[k + 1].at
    BY <1>2, <1>3, Zenon DEF IsReading
  <2> QED
    BY <2>3, <2>4, <2>5, <2>6, <2>7, Zenon
<1>8. places[k].at = Len(traffic) /\ k = Len(places)
  BY <1>1, <1>7, PlaceInTraffic
<1>9. rstage = "magic" /\ Consumed - at = matched
  BY <1>1, <1>2, <1>3, <1>7, PlaceInTraffic DEF IsReading
<1>10. matched = 0
  BY <1>3, <1>4, <1>8, <1>9
<1>11. Len(handled) = Len(due)
  BY <1>1, <1>2, <1>8 DEF IsReading, TrafficIsSent
<1> QED
  BY <1>9, <1>10, <1>11

\* However a stream's transfers are cut, the well-formed messages are handed on
\* unchanged and in order, and with nothing under way none is missing; whatever is
\* taken for a header after a loss, no payload larger than MAX_PAYLOAD_SIZE is read.
THEOREM NoMessageLost == StreamSpec => []NothingLost
<1>1. StreamInvariant => NothingLost
  <2> SUFFICES ASSUME StreamInvariant PROVE NothingLost
    OBVIOUS
  <2>1. StreamTypeOK /\ ReadsWithinBounds /\ HandledIsDue
    BY DEF StreamInvariant
  <2>2. handled \in Seq(Parcel) /\ due \in Seq(Parcel)
    BY <2>1 DEF StreamTypeOK, Parcel
  <2>3. Reliable => IsPrefix(handled, due)
    <3> SUFFICES ASSUME Reliable PROVE IsPrefix(handled, due)
      OBVIOUS
    <3>1. Len(handled) <= Len(due) /\ \A i \in 1 .. Len(handled) : handled[i] = due[i]
      BY <2>1 DEF HandledIsDue
    <3> QED
      BY <2>2, <3>1, PrefixBytewise
  <2>4. ASSUME Reliable, wire = <<>>, buffer = <<>>, rstage # "ended"
        PROVE  handled = due /\ rstage = "magic" /\ matched = 0
    <3>1. Len(handled) = Len(due) /\ rstage = "magic" /\ matched = 0
      BY <2>4, NothingUnderWay
    <3>2. \A i \in 1 .. Len(handled) : handled[i] = due[i]
      BY <2>1, <2>4 DEF HandledIsDue
    <3>3. handled = due
      BY <2>2, <3>1, <3>2, SeqEqual
    <3> QED
      BY <3>1, <3>3
  <2>5. rstage = "payload" => Len(got) < header[3] /\ header[3] <= MaxPayload
    BY <2>1 DEF ReadsWithinBounds
  <2> QED
    BY <2>3, <2>4, <2>5, Zenon DEF NothingLost
<1> QED
  BY <1>1, StreamInvariantHolds, PTL

-----------------------------------------------------------------------------
(* The stream implements the channel. *)

ChannelStep == Reliable' => Channel!Next

LEMMA HandOnStep ==
  ASSUME StreamInvariant, Copy, Reliable
  PROVE  Channel!HandOn \/ UNCHANGED <<due, handled, rstage = "ended">>
<1>1. StreamTypeOK /\ ReadsWithinBounds
  BY DEF StreamInvariant
<1>2. /\ due' = due /\ rstage # "ended" /\ rstage' # "ended"
  BY <1>1, CopyType DEF Copy, history
<1>3. UNCHANGED (rstage = "ended")
  BY <1>2, Zenon
<1>4. PICK k \in 1 .. Len(places) : IsReading(k)
  BY <1>2 DEF StreamInvariant, ReaderIsAligned
<1>5. UNCHANGED handled \/ HandsOnNext
  BY <1>4, CopyAligned DEF Reliable
<1>6. ASSUME HandsOnNext
      PROVE  Channel!HandOn
  <2>1. handled \in Seq(Parcel) /\ handled' \in Seq(Parcel) /\ due \in Seq(Parcel)
    BY <1>1, CopyType DEF StreamTypeOK, Parcel
  <2>2. Len(handled) \in Nat /\ Len(due) \in Nat
    BY <2>1, LenProperties
  <2>3. Len(handled) + 1 \in 1 .. Len(due) /\ Len(handled) < Len(due)
    BY <1>6, <2>2 DEF HandsOnNext
  <2>4. PICK e \in Parcel : e = due[Len(handled) + 1]
    BY <2>1, <2>3, ElementOfSeq
  <2>5. PICK longer : longer = Append(handled, e)
    OBVIOUS
  <2>6. /\ longer \in Seq(Parcel) /\ Len(longer) = Len(handled) + 1
        /\ \A i \in 1 .. Len(handled) : longer[i] = handled[i]
        /\ longer[Len(handled) + 1] = e
    BY <2>1, <2>5, AppendProperties
  <2>7. \A i \in 1 .. Len(longer) : longer[i] = handled'[i]
    BY <1>6, <2>2, <2>4, <2>6 DEF HandsOnNext
  <2>8. Len(handled') = Len(longer)
    BY <1>6, <2>6 DEF HandsOnNext
  <2>9. handled' = longer
    BY <2>1, <2>6, <2>7, <2>8, SeqEqual
  <2> QED
    BY <1>2, <2>3, <2>4, <2>5, <2>9 DEF Channel!HandOn
<1> QED
  BY <1>2, <1>3, <1>5, <1>6

LEMMA ChannelStepTaken ==
  ASSUME StreamInvariant, [StreamNext]_streamVars
  PROVE  [ChannelStep]_<<due, handled, rstage = "ended">>
<1> USE DEF history, reader
<1> SUFFICES ASSUME Reliable'
             PROVE  Channel!Next \/ UNCHANGED <<due, handled, rstage = "ended">>
  BY Zenon DEF ChannelStep
<1>1. ASSUME NEW m \in Messages, Write(m)
      PROVE  Channel!Next \/ UNCHANGED <<due, handled, rstage = "ended">>
  <2>1. UNCHANGED <<handled, rstage>>
    BY <1>1 DEF Write
  <2>2. CASE ~WellFormed(m)
    BY <1>1, <2>1, <2>2 DEF Write
  <2>3. CASE WellFormed(m)
    <3>1. due' = Append(due, Content(m))
      BY <1>1, <2>3 DEF Write
    <3>2. Content(m) \in {Content(n) : n \in {l \in Messages : WellFormed(l)}}
      BY <2>3
    <3>3. Channel!Write
      BY <2>1, <3>1, <3>2 DEF Channel!Write
    <3> QED
      BY <3>3 DEF Channel!Next
  <2> QED
    BY <2>2, <2>3
<1>2. CASE Stop \/ Fill \/ FillTimesOut \/ UNCHANGED streamVars
  BY <1>2 DEF Stop, Fill, FillTimesOut, streamVars
<1>3. CASE MatchByte
  <2>1. UNCHANGED <<due, handled>> /\ rstage # "ended" /\ rstage' # "ended"
    BY <1>3 DEF MatchByte
  <2>2. UNCHANGED (rstage = "ended")
    BY <2>1, Zenon
  <2> QED
    BY <2>1, <2>2
<1>4. CASE FillFails \/ StreamStopped
  <2>1. UNCHANGED <<due, handled>> /\ rstage # "ended" /\ rstage' = "ended"
    BY <1>4 DEF FillFails, StreamStopped, Reading
  <2>2. Channel!Close
    BY <2>1 DEF Channel!Close
  <2> QED
    BY <2>2 DEF Channel!Next
<1>5. CASE Copy
  BY <1>5, ReliableBefore, HandOnStep DEF Channel!Next
<1> QED
  BY <1>1, <1>2, <1>3, <1>4, <1>5 DEF StreamNext, Read

\* As long as no byte is lost and no payload is ambiguous, the stream is a channel
\* that hands on the messages written, each once and in order, until it is closed.
THEOREM StreamIsChannel == StreamSpec => ImplementsChannel
<1>1. StreamInit => Channel!Init
  BY DEF StreamInit, Channel!Init
<1>2. StreamInvariant /\ [StreamNext]_streamVars
        => [ChannelStep]_<<due, handled, rstage = "ended">>
  BY ChannelStepTaken
<1>3. StreamSpec => Channel!Init /\ [][ChannelStep]_<<due, handled, rstage = "ended">>
  BY <1>1, <1>2, StreamInvariantHolds, PTL DEF StreamSpec
<1> QED
  BY <1>3 DEF ImplementsChannel, ChannelStep

-----------------------------------------------------------------------------
(* The age of a frame and its picture. *)

\* The helper computes the difference, cut off at 0 and MaxInt: its detour over
\* unsigned integers never wraps around.
LEMMA SaturatedDifferenceCorrect ==
  ASSUME NEW upper \in Int64, NEW lower \in Int64
  PROVE  /\ SaturatedDifference(upper, lower) \in 0 .. MaxInt
         /\ upper <= lower => SaturatedDifference(upper, lower) = 0
         /\ upper > lower /\ upper - lower <= MaxInt
              => SaturatedDifference(upper, lower) = upper - lower
         /\ upper > lower /\ upper - lower > MaxInt
              => SaturatedDifference(upper, lower) = MaxInt
<1>1. Magnitude(lower) = -lower
  BY FrameAgeAssumption DEF Magnitude, Int64
<1>2. lower < 0 /\ upper >= 0 => Wrapped(Magnitude(lower) + upper) = upper - lower
  BY <1>1, FrameAgeAssumption DEF Wrapped, Int64, UInt64
<1> QED
  BY <1>2, FrameAgeAssumption DEF SaturatedDifference, Int64

LEMMA SaturatedSumCorrect ==
  ASSUME NEW left \in 0 .. MaxInt, NEW right \in 0 .. MaxInt
  PROVE  SaturatedSum(left, right) = IF left + right <= MaxInt THEN left + right ELSE MaxInt
BY FrameAgeAssumption DEF SaturatedSum

\* A new baseline is at most MaxStep above the old one and never above the offset.
LEMMA NewMinimumBounds ==
  ASSUME minimum \in Int64, NEW o \in Int64
  PROVE  /\ NewMinimum(o) \in Int64
         /\ NewMinimum(o) <= o
         /\ minimum = MaxInt \/ o < minimum => NewMinimum(o) = o
         /\ minimum # MaxInt /\ minimum <= o =>
              /\ minimum <= NewMinimum(o)
              /\ NewMinimum(o) = o \/ NewMinimum(o) = minimum + MaxStep
              /\ o <= minimum + MaxStep => NewMinimum(o) = o
              /\ NewMinimum(o) <= minimum + MaxStep
<1>1. CASE minimum = MaxInt \/ o < minimum
  BY <1>1, FrameAgeAssumption DEF NewMinimum, Int64
<1>2. CASE minimum # MaxInt /\ minimum <= o
  <2> DEFINE d == SaturatedDifference(o, minimum)
  <2>1. d \in 0 .. MaxInt
    BY SaturatedDifferenceCorrect
  <2>2. o = minimum => d = 0
    BY SaturatedDifferenceCorrect DEF Int64
  <2>3. o > minimum /\ o - minimum <= MaxInt => d = o - minimum
    BY SaturatedDifferenceCorrect
  <2>4. o > minimum /\ o - minimum > MaxInt => d = MaxInt
    BY SaturatedDifferenceCorrect
  <2>5. NewMinimum(o) = minimum + Lesser(d, MaxStep)
    BY <1>2 DEF NewMinimum, Int64
  <2> HIDE DEF d
  <2>6. Lesser(d, MaxStep) \in 0 .. MaxStep /\ Lesser(d, MaxStep) <= o - minimum
    BY <1>2, <2>1, <2>2, <2>3, <2>4, FrameAgeAssumption DEF Lesser, Int64
  <2>7. \/ Lesser(d, MaxStep) = o - minimum
        \/ Lesser(d, MaxStep) = MaxStep /\ MaxStep < o - minimum
    BY <1>2, <2>1, <2>2, <2>3, <2>4, FrameAgeAssumption DEF Lesser, Int64
  <2> QED
    BY <1>2, <2>5, <2>6, <2>7, FrameAgeAssumption DEF Int64
<1> QED
  BY <1>1, <1>2, FrameAgeAssumption DEF Int64

\* The age is compared as if it were computed without saturating.
LEMMA AgeBounds ==
  ASSUME minimum \in Int64, NEW o \in Int64, NEW q \in 0 .. MaxInt
  PROVE  Age(o, q) > MaxAge <=> q + (o - NewMinimum(o)) > MaxAge
<1> DEFINE m == NewMinimum(o)
           d == SaturatedDifference(o, m)
<1>1. m \in Int64 /\ m <= o
  BY NewMinimumBounds
<1>2. /\ d \in 0 .. MaxInt
      /\ \/ d = o - m
         \/ d = MaxInt /\ o - m > MaxInt
  <2>1. d \in 0 .. MaxInt
    BY <1>1, SaturatedDifferenceCorrect
  <2>2. o <= m => d = 0
    BY <1>1, SaturatedDifferenceCorrect
  <2>3. o > m /\ o - m <= MaxInt => d = o - m
    BY <1>1, SaturatedDifferenceCorrect
  <2>4. o > m /\ o - m > MaxInt => d = MaxInt
    BY <1>1, SaturatedDifferenceCorrect
  <2> HIDE DEF d, m
  <2> QED
    BY <1>1, <2>1, <2>2, <2>3, <2>4, FrameAgeAssumption DEF Int64
<1>3. SaturatedSum(q, d) = IF q + d <= MaxInt THEN q + d ELSE MaxInt
  BY <1>2, SaturatedSumCorrect
<1>4. Age(o, q) = SaturatedSum(q, d)
  BY DEF Age
<1> HIDE DEF d, m
<1>5. SaturatedSum(q, d) > MaxAge <=> q + (o - m) > MaxAge
  BY <1>1, <1>2, <1>3, FrameAgeAssumption DEF Int64
<1> QED
  BY <1>4, <1>5 DEF m

LEMMA DifferenceInRange ==
  ASSUME NEW a \in 0 .. MaxInt, NEW b \in 0 .. MaxInt
  PROVE  a - b \in Int64
BY FrameAgeAssumption DEF Int64

\* The part of BaselineTracksOffset that an earlier offset hands on.
LEMMA LesserBounds ==
  ASSUME NEW a \in Int, NEW b \in Int, NEW c \in Nat, b <= a + c
  PROVE  Lesser(a, b) <= b /\ b <= Lesser(a, b) + c
BY DEF Lesser

-----------------------------------------------------------------------------
\* What a valid frame establishes, whatever its times.
LEMMA ValidPreserves ==
  ASSUME FrameAgeInvariant, now' \in UInt64,
         NEW timestamp \in UInt64, NEW captured \in UInt64, Valid(timestamp, captured)
  PROVE  FrameAgeInvariant'
<1> USE FrameAgeAssumption DEF FrameAgeInvariant
<1>0. MaxInt \in Nat /\ MaxStep \in Nat
  OBVIOUS
<1>1. offset' \in Int64 /\ queue' \in 0 .. MaxInt
  <2>1. offset' = now' - timestamp /\ timestamp <= MaxInt /\ now' <= MaxInt
    BY DEF Valid
  <2>2. queue' = SenderQueue(timestamp, captured)
    BY DEF Valid
  <2>3. SenderQueue(timestamp, captured) \in 0 .. MaxInt
    BY DEF SenderQueue, UInt64
  <2>4. now' \in 0 .. MaxInt /\ timestamp \in 0 .. MaxInt
    BY <2>1 DEF UInt64
  <2>5. now' - timestamp \in Int64
    BY <2>4, DifferenceInRange
  <2> QED
    BY <2>1, <2>2, <2>3, <2>5
<1>2. minimum \in Int64 /\ least \in Int64 /\ offset \in Int64 /\ frames \in Nat /\ credit \in Nat
  BY DEF FrameAgeTypeOK
<1>3. minimum' = NewMinimum(offset') /\ frames' = frames + 1 /\ least' = Lesser(least, offset')
  BY DEF Valid
<1>4. /\ minimum' \in Int64 /\ minimum' <= offset'
      /\ minimum = MaxInt \/ offset' < minimum => minimum' = offset'
      /\ minimum # MaxInt /\ minimum <= offset' =>
           /\ minimum <= minimum'
           /\ minimum' = offset' \/ minimum' = minimum + MaxStep
           /\ offset' <= minimum + MaxStep => minimum' = offset'
           /\ minimum' <= minimum + MaxStep
  BY <1>1, <1>2, <1>3, NewMinimumBounds
<1>5. FrameAgeTypeOK'
  BY <1>1, <1>2, <1>4 DEF FrameAgeTypeOK, Valid, Lesser
<1>6. Unset'
  BY <1>2, <1>3 DEF Unset
<1>7. BaselineTracksOffset'
  <2> DEFINE crept == MaxStep * (frames - 1)
  <2>1. frames > 0 => crept \in Nat
    BY <1>2
  <2>2. MaxStep * (frames' - 1) = MaxStep * frames /\ MaxStep * frames \in Nat
    BY <1>2, <1>3
  <2>3. MaxStep * frames = crept + MaxStep
    BY <1>2
  <2>4. CASE frames = 0
    <3>1. minimum' = offset' /\ least' = offset'
      BY <2>4, <1>1, <1>3, <1>4 DEF Unset, Lesser, Int64
    <3>2. MaxStep * (frames' - 1) = 0
      BY <2>4, <1>3
    <3> QED
      BY <3>1, <3>2, <1>1 DEF BaselineTracksOffset, Int64
  <2>5. CASE frames > 0
    <3>1. least <= minimum /\ minimum <= least + crept
      BY <2>5 DEF BaselineTracksOffset
    <3>4. crept \in Nat
      BY <2>1, <2>5
    <3> HIDE DEF crept
    <3>2. CASE minimum = MaxInt \/ offset' < minimum
      <4>1. minimum' = offset' /\ offset' <= minimum
        BY <3>2, <1>1, <1>2, <1>4 DEF Int64
      <4>2. least' <= minimum' /\ minimum' <= least' + (crept + MaxStep)
        <5>1. offset' \in Int /\ least \in Int /\ crept + MaxStep \in Nat
          BY <1>0, <1>1, <1>2, <3>4 DEF Int64
        <5>2. offset' <= least + (crept + MaxStep)
          BY <1>0, <1>1, <1>2, <3>1, <3>4, <4>1 DEF Int64
        <5> QED
          BY <1>3, <4>1, <5>1, <5>2, LesserBounds
      <4> QED
        BY <4>2, <2>2, <2>3, <1>4 DEF BaselineTracksOffset
    <3>3. CASE minimum # MaxInt /\ minimum <= offset'
      <4>1. least' = least
        BY <3>1, <3>3, <1>1, <1>2, <1>3 DEF Lesser, Int64
      <4>2. least' <= minimum' /\ minimum' <= least' + (crept + MaxStep)
        BY <4>1, <3>1, <3>3, <3>4, <1>1, <1>2, <1>4 DEF Int64
      <4> QED
        BY <4>2, <2>2, <2>3, <1>4 DEF BaselineTracksOffset
    <3> QED
      BY <3>2, <3>3, <1>1, <1>2 DEF Int64
  <2> QED
    BY <2>4, <2>5, <1>2
<1>8. BaselineCatchesUp'
  <2> SUFFICES ASSUME minimum' # offset'
               PROVE  minimum' >= least' + credit'
    BY DEF BaselineCatchesUp
  <2>1. minimum # MaxInt /\ minimum < offset' /\ minimum' = minimum + MaxStep
    BY <1>1, <1>2, <1>4 DEF Int64
  <2>2. frames > 0 /\ least <= minimum
    BY <2>1, <1>2 DEF Unset, BaselineTracksOffset
  <2>3. least' = least
    BY <2>1, <2>2, <1>1, <1>2, <1>3 DEF Lesser, Int64
  <2>4. CASE offset' = offset
    <3>1. credit' = credit + MaxStep
      BY <2>2, <2>4 DEF Valid
    <3>2. minimum >= least + credit
      BY <2>1, <2>2, <2>4, <1>1, <1>2 DEF BaselineCatchesUp, Int64
    <3> QED
      BY <3>1, <3>2, <2>1, <2>3, <1>2 DEF Int64
  <2>5. CASE offset' # offset
    <3>1. credit' = 0
      BY <2>5 DEF Valid
    <3> QED
      BY <3>1, <2>1, <2>2, <2>3, <1>2 DEF Int64
  <2> QED
    BY <2>4, <2>5
<1>9. SteadyBaseline'
  <2> SUFFICES ASSUME steady', frames > 0
               PROVE  minimum' = offset'
    <3>1. frames = 0 => minimum' = offset'
      BY <1>4 DEF Unset
    <3> QED
      BY <3>1, <1>2 DEF SteadyBaseline
  <2>1. steady /\ offset' <= offset + MaxStep
    BY DEF Valid
  <2>2. minimum = offset
    BY <2>1 DEF SteadyBaseline
  <2> QED
    BY <2>1, <2>2, <1>1, <1>2, <1>4 DEF Int64
<1>10. VerdictIsAge'
  <2>1. Age(offset', queue') > MaxAge <=> queue' + (offset' - minimum') > MaxAge
    BY <1>1, <1>2, <1>3, AgeBounds
  <2>2. verdict' = IF Age(offset', queue') > MaxAge THEN "dropped" ELSE "shown"
    BY DEF Valid
  <2> QED
    BY <2>1, <2>2, <1>1, <1>2, <1>3, <1>4 DEF VerdictIsAge, Int64
<1> QED
  BY <1>5, <1>6, <1>7, <1>8, <1>9, <1>10

\* The invariant holds in every state, for integers of any width.
THEOREM FrameAgeInvariantHolds == Spec => []FrameAgeInvariant
<1>1. Init => FrameAgeInvariant
  BY FrameAgeAssumption
  DEF Init, FrameAgeInvariant, FrameAgeTypeOK, Unset, BaselineTracksOffset, BaselineCatchesUp,
      SteadyBaseline, VerdictIsAge, Int64, UInt64
<1>2. FrameAgeInvariant /\ [Next]_vars => FrameAgeInvariant'
  <2> SUFFICES ASSUME FrameAgeInvariant, [Next]_vars
               PROVE  FrameAgeInvariant'
    OBVIOUS
  <2>1. CASE UNCHANGED vars
    BY <2>1 DEF FrameAgeInvariant, FrameAgeTypeOK, Unset, BaselineTracksOffset,
                BaselineCatchesUp, SteadyBaseline, VerdictIsAge, vars
  <2>2. CASE Receive
    <3> PICK timestamp \in UInt64, captured \in UInt64 :
               Invalid(timestamp) \/ Valid(timestamp, captured)
      BY <2>2 DEF Receive
    <3>1. now' \in UInt64
      BY <2>2 DEF Receive
    <3>2. CASE Invalid(timestamp)
      BY <3>1, <3>2 DEF Invalid, FrameAgeInvariant, FrameAgeTypeOK, Unset, BaselineTracksOffset,
                        BaselineCatchesUp, SteadyBaseline, VerdictIsAge
    <3>3. CASE Valid(timestamp, captured)
      BY <3>1, <3>3, ValidPreserves
    <3> QED
      BY <3>2, <3>3
  <2> QED
    BY <2>1, <2>2 DEF Next
<1> QED
  BY <1>1, <1>2, PTL DEF Spec

\* The baseline follows the offset within its step and never overflows.
THEOREM BaselineFollows == Spec => []BaselineTracksOffset
<1>1. FrameAgeInvariant => BaselineTracksOffset
  BY DEF FrameAgeInvariant
<1> QED
  BY <1>1, FrameAgeInvariantHolds, PTL

\* Only late frames are dropped, and a jump of the clocks is made up for.
THEOREM PunctualFramesAreShown == Spec => []PunctualFramesShown
<1>1. FrameAgeInvariant => PunctualFramesShown
  <2> SUFFICES ASSUME FrameAgeInvariant, verdict = "dropped", ~(queue > MaxAge)
               PROVE  queue + (offset - least) - credit > MaxAge
    BY DEF PunctualFramesShown
  <2>1. frames > 0 /\ queue + (offset - minimum) > MaxAge
    BY DEF FrameAgeInvariant, VerdictIsAge
  <2>2. minimum >= least + credit
    BY <2>1, FrameAgeAssumption
    DEF FrameAgeInvariant, BaselineCatchesUp, FrameAgeTypeOK, Int64
  <2> QED
    BY <2>1, <2>2, FrameAgeAssumption DEF FrameAgeInvariant, FrameAgeTypeOK, Int64
<1> QED
  BY <1>1, FrameAgeInvariantHolds, PTL

\* A frame that is shown is no staler than the threshold and the creep allow.
THEOREM StaleFramesAreDropped == Spec => []StaleFramesDropped
<1>1. FrameAgeInvariant => StaleFramesDropped
  <2> SUFFICES ASSUME FrameAgeInvariant, verdict = "shown"
               PROVE  queue + (offset - least) <= MaxAge + MaxStep * (frames - 1)
    BY DEF StaleFramesDropped
  <2> DEFINE crept == MaxStep * (frames - 1)
  <2>1. frames > 0 /\ queue + (offset - minimum) <= MaxAge
    BY DEF FrameAgeInvariant, VerdictIsAge
  <2>2. crept \in Nat /\ minimum <= least + crept
    BY <2>1, FrameAgeAssumption DEF FrameAgeInvariant, BaselineTracksOffset, FrameAgeTypeOK
  <2> HIDE DEF crept
  <2>3. queue + (offset - least) <= MaxAge + crept
    BY <2>1, <2>2, FrameAgeAssumption DEF FrameAgeInvariant, FrameAgeTypeOK, Int64
  <2> QED
    BY <2>3 DEF crept
<1> QED
  BY <1>1, FrameAgeInvariantHolds, PTL

\* Both together: the verdict on a frame is fair.
THEOREM VerdictsAreFair == Spec => []VerdictIsFair
<1>1. PunctualFramesShown /\ StaleFramesDropped => VerdictIsFair
  BY DEF VerdictIsFair
<1> QED
  BY <1>1, PunctualFramesAreShown, StaleFramesAreDropped, PTL

\* While the clocks drift by at most MaxStep a frame, drift never drops a frame.
THEOREM DriftIsCompensated == Spec => []DriftIsNotDelay
<1>1. FrameAgeInvariant => DriftIsNotDelay
  BY FrameAgeAssumption
  DEF FrameAgeInvariant, DriftIsNotDelay, SteadyBaseline, VerdictIsAge, FrameAgeTypeOK, Int64
<1> QED
  BY <1>1, FrameAgeInvariantHolds, PTL

-----------------------------------------------------------------------------
(* What is cut out of a picture, for all sizes of pictures and canvases. *)

\* What integer division means, whatever the divisor.
LEMMA Quotient ==
  ASSUME NEW P \in Nat, NEW d \in Nat \ {0}
  PROVE  /\ P \div d \in Nat /\ (P \div d) * d <= P /\ P < (P \div d + 1) * d
         /\ P % d = 0 => (P \div d) * d = P
  BY Z3

\* Multiplication keeps an order.
LEMMA Product ==
  ASSUME NEW a \in Int, NEW b \in Int, NEW c \in Nat, a <= b
  PROVE  a * c <= b * c /\ a * c \in Int /\ b * c \in Int
  BY Z3

\* a length that is cut out of a longer one
LEMMA LengthBounds ==
  ASSUME NEW P \in Nat, NEW d \in Nat \ {0}, NEW full \in Nat \ {0}, P < full * d,
         NEW l \in Lengths(P, d)
  PROVE  /\ l \in Nat /\ 1 <= l /\ l <= full
         /\ l = 1 \/ l * d <= P
         /\ P <= (l + 1) * d
<1> DEFINE q == P \div d
<1>1. q \in Nat /\ q * d <= P /\ P < (q + 1) * d /\ (P % d = 0 => q * d = P)
  BY Quotient
<1>2. l = Greater(q, 1) \/ (P % d = 0 /\ l = Greater(q - 1, 1))
  BY DEF Lengths
<1> HIDE DEF q
<1>3. q < full
  <2>1. CASE full <= q
    <3>1. full * d <= q * d
      BY <1>1, <2>1, Product, SMT
    <3>2. full * d \in Int /\ q * d \in Int
      BY <1>1, SMT
    <3> QED
      BY <1>1, <3>1, <3>2, SMT
  <2> QED
    BY <1>1, <2>1, SMT
<1>4. CASE l = Greater(q, 1)
  <2>1. CASE q = 0
    <3>1. l = 1
      BY <1>4, <2>1, SMT DEF Greater
    <3>2. (q + 1) * d = d /\ (l + 1) * d = 2 * d
      BY <2>1, <3>1, SMT
    <3> QED
      BY <1>1, <1>3, <3>1, <3>2, SMT
  <2>2. CASE q # 0
    <3>1. l = q
      BY <1>1, <1>4, <2>2, SMT DEF Greater
    <3>2. (q + 1) * d \in Int
      BY <1>1, SMT
    <3> QED
      BY <1>1, <1>3, <2>2, <3>1, <3>2, SMT
  <2> QED
    BY <2>1, <2>2
<1>5. CASE P % d = 0 /\ l = Greater(q - 1, 1)
  <2>1. q * d = P
    BY <1>1, <1>5
  <2>2. CASE q >= 2
    <3>1. l = q - 1
      BY <1>1, <1>5, <2>2, SMT DEF Greater
    <3>2. (l + 1) * d = P
      BY <1>1, <2>1, <3>1, SMT
    <3>3. l * d <= q * d
      BY <1>1, <3>1, Product, SMT
    <3> QED
      BY <1>1, <1>3, <2>1, <2>2, <3>1, <3>2, <3>3, SMT
  <2>3. CASE q < 2
    <3>1. l = 1
      BY <1>1, <1>5, <2>3, SMT DEF Greater
    <3>2. q * d <= 2 * d /\ (l + 1) * d = 2 * d
      BY <1>1, <2>3, <3>1, Product, SMT
    <3> QED
      BY <1>1, <1>3, <2>1, <3>1, <3>2, SMT
  <2> QED
    BY <1>1, <2>2, <2>3
<1> QED
  BY <1>2, <1>4, <1>5

\* The middle of a length, and what is cut off on its two sides.
LEMMA Middle ==
  ASSUME NEW full \in Nat \ {0}, NEW l \in Nat, 1 <= l, l <= full
  PROVE  /\ Greater((full - l) \div 2, 0) \in Nat
         /\ Greater((full - l) \div 2, 0) + l <= full
         /\ full - l - 2 * Greater((full - l) \div 2, 0) \in {0, 1}
         /\ Lesser(l, full - Greater((full - l) \div 2, 0)) = l
         /\ Lesser(full, full - 0) = full
  BY SMT DEF Greater, Lesser

\* Whatever is cut out of a picture fits the picture and the canvas.
LEMMA PictureFits ==
  ASSUME NEW picture \in Picture, NEW canvas \in Canvas, NEW crop \in Crops(picture, canvas)
  PROVE  LiesInside(crop, picture) /\ IsCentred(crop, picture) /\ HasShape(crop, canvas)
<1> DEFINE c == picture.cols
           r == picture.rows
           w == canvas.width
           h == canvas.height
<1>1. c \in Nat \ {0} /\ r \in Nat \ {0} /\ w \in Nat \ {0} /\ h \in Nat \ {0}
  BY SideAssumption, SMT DEF Picture, Canvas
<1> HIDE DEF c, r, w, h
<1>2. r * w \in Nat /\ c * h \in Nat
  BY <1>1, SMT
<1>3. r * w <= (r + 1) * w /\ c * h <= (c + 1) * h
  BY <1>1, SMT
<1>4. (r + 1) * w \in Nat /\ (c + 1) * h \in Nat
  BY <1>1, SMT
<1>5. CASE c * h > r * w
  <2>1. Wider(picture, canvas)
    BY <1>5 DEF Wider, c, r, w, h
  <2>2. PICK l \in Lengths(r * w, h) :
          crop = Crop(picture, Greater((c - l) \div 2, 0), 0, l, r)
    BY <2>1, Zenon DEF Crops, c, r, w, h
  <2>3. l \in Nat /\ 1 <= l /\ l <= c /\ (l = 1 \/ l * h <= r * w) /\ r * w <= (l + 1) * h
    BY <1>1, <1>2, <1>5, LengthBounds, SMT
  <2> DEFINE x == Greater((c - l) \div 2, 0)
  <2>4. x \in Nat /\ x + l <= c /\ c - l - 2 * x \in {0, 1} /\ Lesser(l, c - x) = l
    BY <1>1, <2>3, Middle
  <2>5. Lesser(r, r - 0) = r
    BY <1>1, SMT DEF Lesser
  <2>6. crop.x = x /\ crop.y = 0 /\ crop.width = l /\ crop.height = r
    BY <2>2, <2>4, <2>5 DEF Crop, c, r
  <2> HIDE DEF x
  <2>7. LiesInside(crop, picture)
    BY <1>1, <2>3, <2>4, <2>6, SMT DEF LiesInside, c, r
  <2>8. IsCentred(crop, picture)
    <3>1. r - r - 2 * 0 \in {0, 1}
      BY <1>1, SMT
    <3> QED
      BY <2>4, <2>6, <3>1, Zenon DEF IsCentred, c, r
  <2>9. HasShape(crop, canvas)
    <3>1. l = 1 \/ l * h <= (r + 1) * w
      <4>1. l * h \in Nat
        BY <1>1, <2>3, SMT
      <4> QED
        BY <1>2, <1>3, <1>4, <2>3, <4>1, SMT
    <3> QED
      BY <2>3, <2>6, <3>1, Zenon DEF HasShape, w, h
  <2> QED
    BY <2>7, <2>8, <2>9
<1>6. CASE c * h < r * w
  <2>1. ~Wider(picture, canvas) /\ Narrower(picture, canvas)
    <3>1. ~(c * h > r * w)
      BY <1>2, <1>6, SMT
    <3> QED
      BY <1>6, <3>1, Zenon DEF Wider, Narrower, c, r, w, h
  <2>2. PICK l \in Lengths(c * h, w) :
          crop = Crop(picture, 0, Greater((r - l) \div 2, 0), c, l)
    BY <2>1, Zenon DEF Crops, c, r, w, h
  <2>3. l \in Nat /\ 1 <= l /\ l <= r /\ (l = 1 \/ l * w <= c * h) /\ c * h <= (l + 1) * w
    BY <1>1, <1>2, <1>6, LengthBounds, SMT
  <2> DEFINE y == Greater((r - l) \div 2, 0)
  <2>4. y \in Nat /\ y + l <= r /\ r - l - 2 * y \in {0, 1} /\ Lesser(l, r - y) = l
    BY <1>1, <2>3, Middle
  <2>5. Lesser(c, c - 0) = c
    BY <1>1, SMT DEF Lesser
  <2>6. crop.x = 0 /\ crop.y = y /\ crop.width = c /\ crop.height = l
    BY <2>2, <2>4, <2>5 DEF Crop, c, r
  <2> HIDE DEF y
  <2>7. LiesInside(crop, picture)
    BY <1>1, <2>3, <2>4, <2>6, SMT DEF LiesInside, c, r
  <2>8. IsCentred(crop, picture)
    <3>1. c - c - 2 * 0 \in {0, 1}
      BY <1>1, SMT
    <3> QED
      BY <2>4, <2>6, <3>1, Zenon DEF IsCentred, c, r
  <2>9. HasShape(crop, canvas)
    <3>1. l = 1 \/ l * w <= (c + 1) * h
      <4>1. l * w \in Nat
        BY <1>1, <2>3, SMT
      <4> QED
        BY <1>2, <1>3, <1>4, <2>3, <4>1, SMT
    <3> QED
      BY <2>3, <2>6, <3>1, Zenon DEF HasShape, w, h
  <2> QED
    BY <2>7, <2>8, <2>9
<1>7. CASE c * h = r * w
  <2>1. ~Wider(picture, canvas) /\ ~Narrower(picture, canvas)
    <3>1. ~(c * h > r * w) /\ ~(c * h < r * w)
      BY <1>2, <1>7, SMT
    <3> QED
      BY <3>1, Zenon DEF Wider, Narrower, c, r, w, h
  <2>2. crop = Crop(picture, 0, 0, c, r)
    BY <2>1, Zenon DEF Crops, c, r
  <2>3. Lesser(c, c - 0) = c /\ Lesser(r, r - 0) = r
    BY <1>1, SMT DEF Lesser
  <2>4. crop.x = 0 /\ crop.y = 0 /\ crop.width = c /\ crop.height = r
    BY <2>2, <2>3 DEF Crop, c, r
  <2>5. LiesInside(crop, picture)
    BY <1>1, <2>4, SMT DEF LiesInside, c, r
  <2>6. IsCentred(crop, picture)
    <3>1. c - c - 2 * 0 \in {0, 1} /\ r - r - 2 * 0 \in {0, 1}
      BY <1>1, SMT
    <3> QED
      BY <2>4, <3>1, Zenon DEF IsCentred, c, r
  <2>7. HasShape(crop, canvas)
    BY <1>3, <1>7, <2>4 DEF HasShape, w, h
  <2> QED
    BY <2>5, <2>6, <2>7
<1> QED
  BY <1>2, <1>5, <1>6, <1>7, SMT

\* A message that is accepted holds the bytes that are read, and no others.
LEMMA MessageIsWhole ==
  ASSUME NEW width \in Nat, NEW height \in Nat, NEW size \in Nat, AcceptsNV21(width, height, size)
  PROVE  MetadataSize + BytesRead(width, height) = size
<1> DEFINE k == height \div 2
<1>1. height = 2 * k /\ k \in Nat
  BY SMT DEF AcceptsNV21
<1>2. size = MetadataSize + ExpectedSize(width, height)
  BY SideAssumption, SMT DEF AcceptsNV21, ExpectedSize
<1> HIDE DEF k
<1>3. (width * k) \in Nat
  BY <1>1, SMT
<1>4. width * height * 3 = 2 * (3 * (width * k))
  BY <1>1, SMT
<1>5. ExpectedSize(width, height) = 3 * (width * k)
  BY <1>3, <1>4, SMT DEF ExpectedSize
<1>6. BytesRead(width, height) = 3 * (width * k)
  <2>1. height + height \div 2 = 3 * k
    BY <1>1, SMT
  <2>2. (3 * k) * width = 3 * (width * k)
    BY <1>1, SMT
  <2> QED
    BY <2>1, <2>2 DEF BytesRead
<1> QED
  BY <1>2, <1>5, <1>6

\* A frame that is shown fills the canvas from a part of itself, without distortion.
THEOREM PicturesAlwaysFillCanvas == Spec => []PicturesFillCanvas
<1>1. EveryPictureFits
  BY PictureFits DEF EveryPictureFits
<1>2. EveryMessageIsWhole
  <2> SUFFICES ASSUME NEW width \in 0 .. MaxFrameSide + 1, NEW height \in 0 .. MaxFrameSide + 1,
                      NEW size \in 0 .. MetadataSize + ExpectedSize(width, height) + 1,
                      AcceptsNV21(width, height, size)
               PROVE  MetadataSize + BytesRead(width, height) = size
    BY DEF EveryMessageIsWhole
  <2>1. width \in Nat /\ height \in Nat
    BY SideAssumption, SMT
  <2>2. size \in Nat
    BY SMT
  <2> QED
    BY <2>1, <2>2, MessageIsWhole
<1>3. PicturesFillCanvas
  BY <1>1, <1>2 DEF PicturesFillCanvas
<1> QED
  BY <1>3, PTL
=============================================================================
