-------------------------------- MODULE Mailbox --------------------------------
(***************************************************************************)
(* What sdk/stream/sender.go and reconnect.go promise of the frames handed *)
(* to the transport, which are numbered in the order they were made.  The  *)
(* newest is sent at once, or else kept behind those that are kept         *)
(* already; what is kept is sent from the front, and not while a new frame *)
(* waits, or forgotten.  Nothing is sent twice, because what is sent is no *)
(* longer there; and of the frames kept, only the oldest makes room.       *)
(***************************************************************************)
EXTENDS Naturals, Sequences

VARIABLES
  made,    \* how many frames were made
  newest,  \* "due" until the newest of them has been sent or kept
  kept,    \* those that wait for the connection to work again
  sent     \* those that went out

Init == made = 0 /\ newest = "settled" /\ kept = <<>> /\ sent = <<>>

Make ==
  /\ newest = "settled" /\ newest' = "due" /\ made' = made + 1
  /\ UNCHANGED <<kept, sent>>

Send ==
  /\ newest = "due" /\ newest' = "settled" /\ sent' = Append(sent, made)
  /\ UNCHANGED <<made, kept>>

Keep ==
  /\ newest = "due" /\ newest' = "settled"
  /\ \/ kept' = Append(kept, made)
     \/ kept # <<>> /\ kept' = Append(Tail(kept), made)
  /\ UNCHANGED <<made, sent>>

SendKept ==
  /\ newest = "settled" /\ kept # <<>>
  /\ sent' = Append(sent, Head(kept)) /\ kept' = Tail(kept)
  /\ UNCHANGED <<made, newest>>

Forget == kept' = <<>> /\ UNCHANGED <<made, newest, sent>>

Next == Make \/ Send \/ Keep \/ SendKept \/ Forget

Spec == Init /\ [][Next]_<<made, newest, kept, sent>>
================================================================================
