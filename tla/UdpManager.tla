------------------------------ MODULE UdpManager ------------------------------
(***************************************************************************)
(* audio/udp.go: the socket for voice datagrams, the goroutine that reads  *)
(* it, and the calls that hold the manager's mutex for as long as they     *)
(* wait: Close for that goroutine, SendPing for an answer.  Sending holds  *)
(* it for a moment.                                                        *)
(*                                                                         *)
(* The deadlines of reading are set by the loop (100 ms) and by SendPing   *)
(* (5 s) on the same socket and each may end the other's read: a read may  *)
(* time out whenever it has found nothing.  The network is external.       *)
(***************************************************************************)
EXTENDS Naturals, Sequences

CONSTANTS
  NoKeys,      \* no crypto state
  MaxInbox     \* bound: datagrams received and not yet read

ASSUME UdpConstants == MaxInbox \in Nat \ {0}

VARIABLES
  mu,       \* u.mu: "free", or held by "ping" or "close"
  stopCh,   \* u.stopCh is closed
  sock,     \* u.conn: "nil", "open" or "closed"
  udpKeys,  \* u.crypto
  loop,     \* where the goroutine of ReceiveLoop is
  inbox,    \* datagrams received and not yet read
  crashed   \* a goroutine panicked and the program ended

udpVars == <<mu, stopCh, sock, udpKeys, loop, inbox, crashed>>

UdpInit ==
  /\ mu = "free" /\ stopCh = FALSE /\ sock = "nil" /\ udpKeys = NoKeys
  /\ loop = "off" /\ inbox = <<>> /\ crashed = FALSE

\* Connect, SetCrypto and ReceiveLoop, as SetupUDP calls them.
ReceiveLoop(keys) ==
  /\ sock' = "open" /\ udpKeys' = keys
  /\ loop' = IF keys = NoKeys THEN "off" ELSE "select"
  /\ UNCHANGED <<mu, stopCh, inbox, crashed>>

\* A datagram: the key and the server's nonce it was sealed with, and whether
\* it is voice or an answer to a ping.
Datagram(key, nonce, kind) == [key |-> key, nonce |-> nonce, kind |-> kind]

Opens(d) == udpKeys # NoKeys /\ udpKeys.key = d.key /\ udpKeys.serverNonce = d.nonce

Arrive(d) ==
  /\ sock = "open" /\ Len(inbox) < MaxInbox
  /\ inbox' = Append(inbox, d)
  /\ UNCHANGED <<mu, stopCh, sock, udpKeys, loop, crashed>>

-----------------------------------------------------------------------------
(* The goroutine of ReceiveLoop.                                            *)

loopUnchanged == UNCHANGED <<mu, stopCh, sock, udpKeys, crashed>>

\* A bug: the loop does not look at stopCh.
LoopSelectBlind ==
  /\ loop = "select" /\ loop' = "read"
  /\ UNCHANGED inbox /\ loopUnchanged

LoopSelect ==
  /\ loop = "select"
  /\ loop' = IF stopCh THEN "done" ELSE "read"
  /\ UNCHANGED inbox /\ loopUnchanged

\* Voice that the keys open is decoded for the callback, unless decoding
\* fails or there is no decoder; a frame whose size goes beyond the end of the
\* datagram is a slice out of range; anything else is skipped.
LoopRead ==
  /\ loop = "read" /\ inbox # <<>>
  /\ inbox' = Tail(inbox)
  /\ \/ loop' = "select" /\ UNCHANGED crashed
     \/ /\ Opens(Head(inbox)) /\ Head(inbox).kind = "voice"
        /\ \/ loop' = "callback" /\ UNCHANGED crashed
           \/ crashed' = TRUE /\ UNCHANGED loop
  /\ UNCHANGED <<mu, stopCh, sock, udpKeys>>

LoopTimeout ==
  /\ loop = "read" /\ loop' = "select"
  /\ UNCHANGED inbox /\ loopUnchanged

\* Any other error ends the goroutine.
LoopFails ==
  /\ loop = "read" /\ loop' = "done"
  /\ UNCHANGED inbox /\ loopUnchanged

\* The callback returns, or it sends: SendVoicePacket needs the mutex.
LoopCallback ==
  /\ loop = "callback" /\ loop' \in {"select", "sending"}
  /\ UNCHANGED inbox /\ loopUnchanged

LoopSends ==
  /\ loop = "sending" /\ mu = "free" /\ loop' = "select"
  /\ UNCHANGED inbox /\ loopUnchanged

LoopNext ==
  LoopSelect \/ LoopRead \/ LoopTimeout \/ LoopFails \/ LoopCallback \/ LoopSends

-----------------------------------------------------------------------------
(* The calls.                                                               *)

\* Whether SendVoicePacket gets as far as the network, which may refuse.
CanSend == sock = "open" /\ udpKeys # NoKeys

\* SendPing.  Without a crypto state it is a nil pointer that is used.
PingStart ==
  /\ mu = "free" /\ sock = "open"
  /\ IF udpKeys = NoKeys THEN crashed' = TRUE /\ UNCHANGED mu
                         ELSE mu' = "ping" /\ UNCHANGED crashed
  /\ UNCHANGED <<stopCh, sock, udpKeys, loop, inbox>>

\* It takes whatever comes next for the answer, voice too, and returns.
PingRead ==
  /\ mu = "ping" /\ inbox # <<>>
  /\ inbox' = Tail(inbox) /\ mu' = "free"
  /\ UNCHANGED <<stopCh, sock, udpKeys, loop, crashed>>

PingTimeout ==
  /\ mu = "ping" /\ mu' = "free"
  /\ UNCHANGED <<stopCh, sock, udpKeys, loop, inbox, crashed>>

\* Close: a channel that is closed cannot be closed again.
CloseCall ==
  /\ mu = "free"
  /\ IF stopCh THEN crashed' = TRUE /\ UNCHANGED <<mu, stopCh>>
               ELSE mu' = "close" /\ stopCh' = TRUE /\ UNCHANGED crashed
  /\ UNCHANGED <<sock, udpKeys, loop, inbox>>

\* A bug: Close does not wait for the loop.
CloseReturnHasty ==
  /\ mu = "close" /\ mu' = "free"
  /\ sock' = IF sock = "open" THEN "closed" ELSE sock
  /\ UNCHANGED <<stopCh, udpKeys, loop, inbox, crashed>>

CloseReturn ==
  /\ mu = "close" /\ loop \in {"off", "done"}
  /\ mu' = "free"
  /\ sock' = IF sock = "open" THEN "closed" ELSE sock
  /\ UNCHANGED <<stopCh, udpKeys, loop, inbox, crashed>>

UdpNext ==
  LoopNext \/ PingStart \/ PingRead \/ PingTimeout \/ CloseCall \/ CloseReturn
=============================================================================
