----------------------------- MODULE UiSelection -----------------------------
(***************************************************************************)
(* What main() relies on when it calls userinterface(): the entry to boot  *)
(* is one that a client has offered, or the default entry while the        *)
(* timeout is enabled; a decision is final until the boot has failed; a    *)
(* timeout that was disabled is never enabled again.  Pipes, processes,    *)
(* signals and their timing are left out.                                  *)
(***************************************************************************)
EXTENDS Integers

CONSTANTS N, Timeout, HasDefault

Clients == 1..N
Default == 0

VARIABLES
  offers,   \* clients that handed over a complete entry and ended with success
  enabled,  \* may the timeout select the default entry?
  outcome,  \* "none", "ok" or "error"
  choice    \* the client whose entry is booted, or Default

vars == <<offers, enabled, outcome, choice>>

Init ==
  /\ offers = {} /\ enabled = Timeout
  /\ outcome = "none" /\ choice = Default

Offer(c) ==
  /\ offers' = offers \cup {c}
  /\ UNCHANGED <<enabled, outcome, choice>>

DisableTimeout ==
  /\ outcome = "none"
  /\ enabled' = FALSE
  /\ UNCHANGED <<offers, outcome, choice>>

TakeOffer(c) ==
  /\ outcome = "none" /\ c \in offers
  /\ outcome' = "ok" /\ choice' = c
  /\ UNCHANGED <<offers, enabled>>

TakeDefault ==
  /\ outcome = "none" /\ enabled /\ HasDefault
  /\ outcome' = "ok" /\ choice' = Default
  /\ UNCHANGED <<offers, enabled>>

GiveUp ==
  /\ outcome = "none"
  /\ outcome' = "error"
  /\ UNCHANGED <<offers, enabled, choice>>

\* The boot failed and main() asks the clients again.
AskAgain ==
  /\ outcome = "ok"
  /\ offers' = {} /\ outcome' = "none" /\ choice' = Default
  /\ UNCHANGED enabled

Next ==
  \/ \E c \in Clients : Offer(c) \/ TakeOffer(c)
  \/ DisableTimeout \/ TakeDefault \/ GiveUp \/ AskAgain

Spec == Init /\ [][Next]_vars
=============================================================================
