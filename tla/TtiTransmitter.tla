--------------------------- MODULE TtiTransmitter ---------------------------
(***************************************************************************)
(* What the physical layer promises its environment, without threads: it   *)
(* takes the TTIs one after the other and transmits, Delay TTIs later on   *)
(* the air interface's clock, one subframe for each of them in the same    *)
(* order, never having more than Capacity TTIs in hand, and leaves none    *)
(* untransmitted.                                                          *)
(***************************************************************************)
EXTENDS Integers

CONSTANTS TtiMod, Delay, Capacity

VARIABLES
  taken,   \* the last TTI taken in
  sent     \* transmit TTI of the last subframe handed to the radio

vars == <<taken, sent>>

\* TTIs taken in and not yet transmitted.
Backlog == (taken + Delay + TtiMod - sent) % TtiMod

Init == taken = TtiMod - (Delay + 1) /\ sent = TtiMod - 1

Take ==
  /\ Backlog < Capacity
  /\ taken' = (taken + 1) % TtiMod
  /\ UNCHANGED sent

Send ==
  /\ Backlog > 0
  /\ sent' = (sent + 1) % TtiMod
  /\ UNCHANGED taken

Next == Take \/ Send

Spec == Init /\ [][Next]_vars

Fairness == WF_vars(Send)
=============================================================================
