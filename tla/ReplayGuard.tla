----------------------------- MODULE ReplayGuard -----------------------------
(***************************************************************************)
(* What audio/crypto.go promises its caller: of the packets sealed at one  *)
(* end, each is opened at the other at most once, in any order, and the    *)
(* counter uiGood counts them.  Nothing is promised to be opened.          *)
(***************************************************************************)
EXTENDS Naturals

VARIABLES
  sent,       \* packets sealed
  delivered,  \* packets opened and handed to the caller
  good        \* how many were handed to the caller

Init == sent = {} /\ delivered = {} /\ good = 0

Seal == \E p \in sent' \ sent :
  sent' = sent \cup {p} /\ UNCHANGED <<delivered, good>>

Open == \E p \in sent \ delivered :
  /\ delivered' = delivered \cup {p} /\ good' = good + 1
  /\ UNCHANGED sent

Spec == Init /\ [][Seal \/ Open]_<<sent, delivered, good>>
=============================================================================
