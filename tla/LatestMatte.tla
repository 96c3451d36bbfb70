----------------------------- MODULE LatestMatte -----------------------------
(***************************************************************************)
(* What the inference pipeline promises, without threads or locks: frames  *)
(* are offered, the newest waits, one is in hand, and a matte shown in an  *)
(* epoch is that of the latest frame finished in the same epoch.  A new    *)
(* epoch disowns everything that came before it at one stroke.             *)
(***************************************************************************)
EXTENDS Naturals

VARIABLES
  epoch,     \* the generation of the settings in force
  offered,   \* how many frames have been offered
  waiting,   \* the frame that waits, 0 for none: a newer one replaces it
  inHand,    \* the frame being worked on, 0 for none
  shown      \* the frame whose matte is shown, 0 for none

vars == <<epoch, offered, waiting, inHand, shown>>

Init ==
  /\ epoch = 1
  /\ offered = 0
  /\ waiting = 0
  /\ inHand = 0
  /\ shown = 0

Offer ==
  /\ offered' = offered + 1
  /\ waiting' = offered + 1
  /\ UNCHANGED <<epoch, inHand, shown>>

Take ==
  /\ waiting # 0
  /\ inHand = 0
  /\ inHand' = waiting
  /\ waiting' = 0
  /\ UNCHANGED <<epoch, offered, shown>>

Show ==
  /\ inHand > shown
  /\ shown' = inHand
  /\ inHand' = 0
  /\ UNCHANGED <<epoch, offered, waiting>>

\* a frame may be skipped, fail or be refused
Abandon ==
  /\ inHand' = 0
  /\ UNCHANGED <<epoch, offered, waiting, shown>>

NewEpoch ==
  /\ epoch' = epoch + 1
  /\ waiting' = 0
  /\ inHand' = 0
  /\ shown' = 0
  /\ UNCHANGED offered

\* what a late release takes away although it belongs to the new epoch
Withdraw ==
  /\ waiting' \in {0, waiting}
  /\ shown' \in {0, shown}
  /\ UNCHANGED <<epoch, offered, inHand>>

Next == Offer \/ Take \/ Show \/ Abandon \/ NewEpoch \/ Withdraw

Spec == Init /\ [][Next]_vars
=============================================================================
