---------------------------- MODULE CacamStream ----------------------------
(***************************************************************************)
(* The reading of a camera stream (src/src/cacam-usb-source.cpp: read_     *)
(* stream, read_header and BulkReader).  The phone writes messages, a      *)
(* header and a payload each, and USB moves their bytes in transfers cut   *)
(* anywhere.  The reader hunts for the magic word, reads the rest of the   *)
(* header, then the payload, and goes on with the next message.            *)
(*                                                                         *)
(* After the magic word a header has one byte here for each field that     *)
(* matters: version, type and payload size.  What becomes of a frame's     *)
(* times is the subject of FrameAge.                                       *)
(***************************************************************************)
EXTENDS Naturals, Sequences, SequencesExt

CONSTANTS
  Messages,     \* what the phone may write
  MaxMessages,  \* bound on the messages of a stream
  MaxPayload,   \* MAX_PAYLOAD_SIZE
  MaxTransfer,  \* BULK_READ_BUFFER_SIZE
  PartialTimeouts \* may a transfer that times out have moved bytes?

C == 67
A == 65
M == 77
Magic == <<C, C, A, M>>

Version    == 1  \* CACAM_PROTOCOL_VERSION
HeaderRest == 3  \* the bytes of a header after the magic word

\* A message has its header's fields and its payload; the size field of a message
\* that is not valid need not be that of its payload.
WellFormed(m) == m.version = Version /\ m.size <= MaxPayload

Content(m) == [type |-> m.type, payload |-> m.payload]

Encode(m) == Magic \o <<m.version, m.type, m.size>> \o m.payload

ASSUME StreamMessagesAssumption ==
  \A m \in Messages :
    /\ m.version \in Nat /\ m.type \in Nat /\ m.size \in Nat /\ m.payload \in Seq(Nat)
    /\ WellFormed(m) => m.size = Len(m.payload)
ASSUME StreamBoundsAssumption ==
  MaxMessages \in Nat /\ MaxPayload \in Nat /\ MaxPayload < A /\ MaxTransfer \in Nat \ {0}

VARIABLES
  wire,      \* bytes written by the phone and not yet transferred
  buffer,    \* BulkReader's buffer from buffer_offset on
  rstage,    \* what is being read: "magic", "fields", "payload"; or "ended"
  matched,   \* how much of the magic word has been found
  got,       \* what read_exact has copied so far
  header,    \* the fields of the message whose payload is read
  stopRequested,
  handled, intact,   \* history: the messages read in full; whether every byte written
                     \* was read or is still to be
  sent, due,         \* history: the messages written; what the well-formed ones hold
  traffic, places    \* history: all bytes written; where in them each message begins
                     \* (and the next will) and how many messages are due before it

reader     == <<rstage, matched, got, header, handled>>
history    == <<sent, due, traffic, places>>
streamVars == <<wire, buffer, reader, stopRequested, history, intact>>

\* The definitions named Variant... are those beside them with one plausible slip;
\* no specification uses them.  They show which slip each property would catch.

StreamInit ==
  /\ wire = <<>> /\ buffer = <<>>
  /\ rstage = "magic" /\ matched = 0 /\ got = <<>> /\ header = <<>>
  /\ stopRequested = FALSE
  /\ handled = <<>> /\ intact = TRUE
  /\ sent = <<>> /\ due = <<>>
  /\ traffic = <<>> /\ places = <<[at |-> 0, due |-> 0]>>

-----------------------------------------------------------------------------
(* The phone and the USB transfers *)

Write(m) ==
  /\ Len(sent) < MaxMessages
  /\ wire' = wire \o Encode(m)
  /\ sent' = Append(sent, m)
  /\ due' = IF WellFormed(m) THEN Append(due, Content(m)) ELSE due
  /\ traffic' = traffic \o Encode(m)
  /\ places' = Append(places, [at |-> Len(traffic'), due |-> Len(due')])
  /\ UNCHANGED <<buffer, reader, stopRequested, intact>>

Stop ==
  /\ ~stopRequested /\ stopRequested' = TRUE
  /\ UNCHANGED <<wire, buffer, reader, history, intact>>

Reading == rstage # "ended" /\ ~stopRequested

Transfers == {n \in 1 .. MaxTransfer : n <= Len(wire)}

VariantKeepsTooLittle(n) == buffer' = SubSeq(wire, 1, n - 1)

\* buffer.assign
Keep(n) == buffer' = SubSeq(wire, 1, n)

\* fill(): the buffer is empty and read_exact wants more
Fill ==
  /\ Reading /\ buffer = <<>>
  /\ \E n \in Transfers :
       /\ Keep(n)
       /\ wire' = SubSeq(wire, n + 1, Len(wire))
  /\ UNCHANGED <<reader, stopRequested, history, intact>>

\* A transfer that times out may have moved bytes, but fill() returns before it
\* looks at how many.
FillTimesOut ==
  /\ PartialTimeouts
  /\ Reading /\ buffer = <<>>
  /\ \E n \in Transfers : wire' = SubSeq(wire, n + 1, Len(wire))
  /\ intact' = FALSE
  /\ UNCHANGED <<buffer, reader, stopRequested, history>>

\* the phone is gone
FillFails ==
  /\ Reading /\ buffer = <<>>
  /\ rstage' = "ended"
  /\ UNCHANGED <<wire, buffer, matched, got, header, handled, stopRequested, history, intact>>

VariantIgnoresStop == FALSE

SeesStop == stopRequested

StreamStopped ==
  /\ rstage # "ended" /\ SeesStop
  /\ rstage' = "ended"
  /\ UNCHANGED <<wire, buffer, matched, got, header, handled, stopRequested, history, intact>>

-----------------------------------------------------------------------------
(* read_header: the magic word, byte by byte *)

NowMatched(byte) ==
  CASE byte = Magic[matched + 1] -> matched + 1
    [] byte # Magic[matched + 1] /\ byte = Magic[1] -> 1
    [] OTHER -> 0

MatchByte ==
  /\ Reading /\ rstage = "magic" /\ buffer # <<>>
  /\ buffer' = Tail(buffer)
  /\ LET now == NowMatched(Head(buffer)) IN
       IF now = Len(Magic)
       THEN rstage' = "fields" /\ matched' = 0
       ELSE matched' = now /\ UNCHANGED rstage
  /\ UNCHANGED <<wire, got, header, handled, stopRequested, history, intact>>

-----------------------------------------------------------------------------
(* read_exact, and what read_stream does with what was read *)

\* begin to read the next message
NextMessage == rstage' = "magic" /\ got' = <<>> /\ header' = <<>>

Handle(type, payload) ==
  /\ handled' = Append(handled, [type |-> type, payload |-> payload])
  /\ NextMessage

VariantAnyVersion(fields) == fields[3] <= MaxPayload

Accepted(fields) == fields[1] = Version /\ fields[3] <= MaxPayload

FieldsRead(fields) ==
  \/ ~Accepted(fields) /\ NextMessage /\ UNCHANGED handled
  \/ Accepted(fields) /\ fields[3] = 0 /\ Handle(fields[2], <<>>)
  \/ /\ Accepted(fields) /\ fields[3] > 0
     /\ rstage' = "payload" /\ got' = <<>> /\ header' = fields
     /\ UNCHANGED handled

\* the size of the read_exact under way
Wanted == IF rstage = "fields" THEN HeaderRest ELSE header[3]

VariantWholeBuffer == Len(buffer)

\* one round copies what there is, but no more than is wanted
CopySize ==
  LET missing == Wanted - Len(got) IN IF Len(buffer) < missing THEN Len(buffer) ELSE missing

Copy ==
  /\ Reading /\ rstage \in {"fields", "payload"} /\ buffer # <<>>
  /\ buffer' = SubSeq(buffer, CopySize + 1, Len(buffer))
  /\ LET copied == got \o SubSeq(buffer, 1, CopySize) IN
       \/ Len(copied) < Wanted /\ got' = copied /\ UNCHANGED <<rstage, header, handled>>
       \/ Len(copied) >= Wanted /\ rstage = "fields"  /\ FieldsRead(copied)
       \/ Len(copied) >= Wanted /\ rstage = "payload" /\ Handle(header[2], copied)
  /\ UNCHANGED <<wire, matched, stopRequested, history, intact>>

-----------------------------------------------------------------------------
Read == MatchByte \/ Copy \/ StreamStopped

StreamNext ==
  \/ \E m \in Messages : Write(m)
  \/ Stop \/ Fill \/ FillTimesOut \/ FillFails \/ Read

StreamSpec == StreamInit /\ [][StreamNext]_streamVars

\* The worker reads on, and what the phone wrote is transferred in the end; the
\* phone need not write, nobody need stop the stream and no call need fail.
FairStreamSpec == StreamSpec /\ WF_streamVars(Read) /\ WF_streamVars(Fill)

-----------------------------------------------------------------------------
(* What the stream promises. *)

\* The payload of a message that is not valid is hunted for the magic word, so it
\* must not hold the word's first byte.
Unambiguous(messages) ==
  \A i \in DOMAIN messages : WellFormed(messages[i]) \/ C \notin Range(messages[i].payload)

Reliable == intact /\ Unambiguous(sent)

\* "USB transfer boundaries have no message semantics ... Receivers therefore parse
\* the stream by byte count" (CACAM-USB-PROTOCOL.md:28-31): however the bytes are
\* cut, and though payloads hold magic words, the valid messages are handed on
\* unchanged and in order, those that are not valid are skipped, and when nothing is
\* under way none is missing.  Whatever bytes are taken for a header after a loss,
\* no payload larger than MaxPayload is allocated.
NothingLost ==
  /\ Reliable =>
       /\ IsPrefix(handled, due)
       /\ wire = <<>> /\ buffer = <<>> /\ rstage # "ended" =>
            handled = due /\ rstage = "magic" /\ matched = 0
  /\ rstage = "payload" => Len(got) < header[3] /\ header[3] <= MaxPayload

\* A valid message is handed on unless the stream ends, however it is cut.
ValidIsHandled ==
  \A n \in 1 .. MaxMessages :
    Len(due) = n ~> ~Reliable \/ Len(handled) >= n \/ rstage = "ended"

\* A stop ends the stream, wherever the reader is: the thread can be joined.
StopEndsStream == stopRequested ~> rstage = "ended"

\* The stream implements the channel, as long as it is Reliable.
Channel == INSTANCE MessageChannel WITH
  Contents <- {Content(m) : m \in {n \in Messages : WellFormed(n)}},
  written <- due, handedOn <- handled, open <- rstage # "ended"

ImplementsChannel == Channel!Init /\ [][Reliable' => Channel!Next]_<<due, handled, rstage = "ended">>

-----------------------------------------------------------------------------
(* The inductive invariant *)

Fields == [1 .. HeaderRest -> Nat]

StreamTypeOK ==
  /\ wire \in Seq(Nat) /\ buffer \in Seq(Nat) /\ got \in Seq(Nat) /\ traffic \in Seq(Nat)
  /\ rstage \in {"magic", "fields", "payload", "ended"}
  /\ matched \in 0 .. Len(Magic) - 1
  /\ sent \in Seq(Messages)
  /\ due \in Seq([type : Nat, payload : Seq(Nat)])
  /\ handled \in Seq([type : Nat, payload : Seq(Nat)])
  /\ places \in Seq([at : Nat, due : Nat])
  /\ stopRequested \in BOOLEAN /\ intact \in BOOLEAN

\* How far the reader may be in what it reads: whatever it takes for a header, it
\* wants some bytes of the rest of it, or no more than MaxPayload.
ReadsWithinBounds ==
  /\ rstage \in {"magic", "fields"} => header = <<>>
  /\ rstage = "magic" => got = <<>>
  /\ rstage = "fields" => Len(got) < HeaderRest
  /\ rstage \in {"fields", "payload"} => matched = 0
  /\ rstage = "payload" =>
       header \in Fields /\ Len(got) < header[3] /\ header[3] <= MaxPayload

\* The traffic is the messages sent, one after another.
TrafficIsSent ==
  /\ Len(places) = Len(sent) + 1
  /\ places[1] = [at |-> 0, due |-> 0]
  /\ places[Len(places)] = [at |-> Len(traffic), due |-> Len(due)]
  /\ \A i \in 1 .. Len(places) : places[i].at <= Len(traffic) /\ places[i].due <= Len(due)
  /\ \A i \in 1 .. Len(sent) :
       LET m == sent[i]  here == places[i]  next == places[i + 1] IN
       /\ next.at = here.at + Len(Encode(m))
       /\ \A j \in 1 .. Len(Encode(m)) : traffic[here.at + j] = Encode(m)[j]
       /\ IF WellFormed(m) THEN next.due = here.due + 1 /\ due[next.due] = Content(m)
                           ELSE next.due = here.due

\* how many bytes the reader has taken from its buffer
Consumed == Len(traffic) - Len(buffer) - Len(wire)

\* Without a loss, buffer and wire are the end of the traffic.
RestIsUnderWay ==
  intact =>
    /\ Consumed >= 0
    /\ \A j \in 1 .. Len(buffer) : buffer[j] = traffic[Consumed + j]
    /\ \A j \in 1 .. Len(wire) : wire[j] = traffic[Consumed + Len(buffer) + j]

\* The reader has handled what was due before message k and is reading it, or
\* passes over the payload of a message that is not well-formed.
IsReading(k) ==
  LET into == Consumed - places[k].at IN
  /\ k \in 1 .. Len(places) /\ Len(handled) = places[k].due
  /\ \/ rstage = "magic" /\ into = matched
     \/ /\ k <= Len(sent)
        /\ \/ /\ rstage = "fields" /\ into = Len(Magic) + Len(got)
              /\ \A j \in 1 .. Len(got) : got[j] = traffic[places[k].at + Len(Magic) + j]
           \/ /\ rstage = "payload" /\ WellFormed(sent[k])
              /\ header = <<sent[k].version, sent[k].type, sent[k].size>>
              /\ into = Len(Magic) + HeaderRest + Len(got)
              /\ \A j \in 1 .. Len(got) :
                   got[j] = traffic[places[k].at + Len(Magic) + HeaderRest + j]
           \/ /\ rstage = "magic" /\ ~WellFormed(sent[k]) /\ matched = 0
              /\ into >= Len(Magic) + HeaderRest /\ Consumed < places[k + 1].at

ReaderIsAligned == Reliable /\ rstage # "ended" => \E k \in 1 .. Len(places) : IsReading(k)

HandledIsDue ==
  Reliable => /\ Len(handled) <= Len(due)
              /\ \A i \in 1 .. Len(handled) : handled[i] = due[i]

StreamInvariant ==
  /\ StreamTypeOK /\ ReadsWithinBounds /\ TrafficIsSent
  /\ RestIsUnderWay /\ ReaderIsAligned /\ HandledIsDue
=============================================================================
