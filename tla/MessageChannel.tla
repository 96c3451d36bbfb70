--------------------------- MODULE MessageChannel ---------------------------
(***************************************************************************)
(* What the camera stream promises its two ends: a channel that hands on   *)
(* the messages written, each once and in order, until it is closed.       *)
(* Nothing is said of bytes, transfers or messages that are not valid.     *)
(***************************************************************************)
EXTENDS Naturals, Sequences

CONSTANT Contents  \* what a valid message may hold

VARIABLES written, handedOn, open

channelVars == <<written, handedOn, open>>

Init == written = <<>> /\ handedOn = <<>> /\ open = TRUE

Write ==
  /\ \E c \in Contents : written' = Append(written, c)
  /\ UNCHANGED <<handedOn, open>>

HandOn ==
  /\ open /\ Len(handedOn) < Len(written)
  /\ handedOn' = Append(handedOn, written[Len(handedOn) + 1])
  /\ UNCHANGED <<written, open>>

Close == open /\ open' = FALSE /\ UNCHANGED <<written, handedOn>>

Next == Write \/ HandOn \/ Close

Spec == Init /\ [][Next]_channelVars
=============================================================================
