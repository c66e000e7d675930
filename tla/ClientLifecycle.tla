--------------------------- MODULE ClientLifecycle ---------------------------
(***************************************************************************)
(* The goroutines of client.Client and how they start and stop: Connect,   *)
(* messageLoop, pingLoop, and any number of goroutines calling Close.      *)
(* What the frames say is in ClientSession; here a frame is a frame.       *)
(*                                                                         *)
(* ReadFrame has no deadline, so a read that finds nothing blocks until a  *)
(* frame comes, the peer goes away, or this side closes the connection.    *)
(* WriteFrame has none either: a write is a step of its own, and as long   *)
(* as the peer does not read what was sent before, it may not be taken.    *)
(* The peer and the network are external.                                  *)
(***************************************************************************)
EXTENDS Naturals, Sequences, FiniteSets

CONSTANTS
  Closers,    \* goroutines that call Close
  MaxFrames   \* bound: frames received and not yet read

ASSUME LifecycleConstants == MaxFrames \in Nat \ {0}

VARIABLES
  connect,    \* where Connect is
  conn,       \* c.conn: "nil", or a connection that is "open" or "closed" here
  peer,       \* the other end: "up"; "gone", reads fail; "reset", writes too
  inbox,      \* frames received and not yet read
  closeCh,    \* c.closeCh is closed
  cancelled,  \* the context given to Connect is done
  wg,         \* c.wg's counter
  ml, pl,     \* where messageLoop and pingLoop are
  closer,     \* where each caller of Close is
  told,       \* the OnConnect and OnDisconnect calls made, in order
  orderly     \* no Close so far while Connect was under way, nor in a callback

network == <<peer, inbox>>
vars == <<connect, conn, peer, inbox, closeCh, cancelled, wg, ml, pl, closer, told,
          orderly>>

Init ==
  /\ connect = "idle" /\ conn = "nil"
  /\ peer = "up" /\ inbox = 0
  /\ closeCh = FALSE /\ cancelled = FALSE
  /\ wg = 0 /\ ml = "off" /\ pl = "off"
  /\ closer = [c \in Closers |-> "idle"]
  /\ told = <<>> /\ orderly = TRUE

-----------------------------------------------------------------------------
(* The connection.                                                          *)

Stopping == closeCh \/ cancelled

\* ReadFrame returns a frame.  A reset may also discard what was received.
FrameArrives == conn = "open" /\ inbox > 0 /\ inbox' = inbox - 1 /\ UNCHANGED peer

\* ReadFrame returns an error.
ReadFails == /\ conn = "closed" \/ (peer # "up" /\ inbox = 0) \/ peer = "reset"
             /\ UNCHANGED network

\* WriteFrame returns.  The first write to a peer that is gone is accepted by
\* the kernel and provokes the reset.
WriteSucceeds ==
  /\ conn = "open" /\ peer # "reset"
  /\ peer' = IF peer = "gone" THEN "reset" ELSE peer
  /\ UNCHANGED inbox

WriteFails == (conn = "closed" \/ peer = "reset") /\ UNCHANGED network

PeerSends ==
  /\ conn = "open" /\ peer = "up" /\ inbox < MaxFrames
  /\ inbox' = inbox + 1
  /\ UNCHANGED <<connect, conn, peer, closeCh, cancelled, wg, ml, pl, closer, told, orderly>>

PeerGoes ==
  /\ conn = "open" /\ peer = "up"
  /\ peer' = "gone"
  /\ UNCHANGED <<connect, conn, inbox, closeCh, cancelled, wg, ml, pl, closer, told, orderly>>

-----------------------------------------------------------------------------
(* Connect.                                                                 *)

runtimeUnchanged == UNCHANGED <<closeCh, cancelled, wg, ml, pl, closer>>

Call ==
  /\ connect = "idle" /\ connect' = "dialing"
  /\ UNCHANGED <<conn, network, told, orderly>> /\ runtimeUnchanged

Dial ==
  /\ connect = "dialing"
  /\ \/ connect' = "failed" /\ UNCHANGED conn
     \/ connect' = "greeting" /\ conn' = "open"
  /\ UNCHANGED <<network, told, orderly>> /\ runtimeUnchanged

\* The handshake gives up: Connect closes the connection and leaves c.conn.
GiveUp == connect' = "failed" /\ conn' = "closed"

\* Version and Authenticate go out; the first write may reset the connection
\* under the second.
Greet ==
  /\ connect = "greeting"
  /\ \/ WriteSucceeds /\ connect' = "handshake" /\ UNCHANGED conn
     \/ WriteSucceeds /\ peer' = "reset" /\ GiveUp
     \/ WriteFails /\ GiveUp
  /\ UNCHANGED <<told, orderly>> /\ runtimeUnchanged

\* One turn of the handshake loop up to ReadFrame; only here is the context
\* looked at.
HandshakeTurn ==
  /\ connect = "handshake"
  /\ IF cancelled THEN GiveUp ELSE connect' = "reading" /\ UNCHANGED conn
  /\ UNCHANGED <<network, told, orderly>> /\ runtimeUnchanged

\* The frame is ServerSync, Reject, one to answer (Ping, CryptSetup) or
\* another.
HandshakeRead ==
  /\ connect = "reading"
  /\ \/ /\ FrameArrives
        /\ \/ connect' \in {"handshake", "replying", "setup"} /\ UNCHANGED conn
           \/ GiveUp
     \/ ReadFails /\ GiveUp
  /\ UNCHANGED <<told, orderly>> /\ runtimeUnchanged

\* The outcome of the answer is ignored.
HandshakeReply ==
  /\ connect = "replying" /\ connect' = "handshake"
  /\ WriteSucceeds \/ WriteFails
  /\ UNCHANGED <<conn, told, orderly>> /\ runtimeUnchanged

\* The audio transport is set up and OnConnect called.  A callback that
\* closes finds no loop to wait for.
Announce ==
  /\ connect = "setup" /\ connect' = "starting"
  /\ told' = Append(told, "connect")
  /\ \/ UNCHANGED <<conn, closeCh, orderly>>
     \/ conn' = "closed" /\ closeCh' = TRUE /\ orderly' = FALSE
  /\ UNCHANGED <<network, cancelled, wg, ml, pl, closer>>

\* A bug: wg counts one of the two loops.
StartAddsOne ==
  /\ connect = "starting" /\ connect' = "connected"
  /\ wg' = wg + 1 /\ ml' = "select" /\ pl' = "select"
  /\ UNCHANGED <<conn, network, closeCh, cancelled, closer, told, orderly>>

\* clientRuntime.start.
Start ==
  /\ connect = "starting" /\ connect' = "connected"
  /\ wg' = wg + 2 /\ ml' = "select" /\ pl' = "select"
  /\ UNCHANGED <<conn, network, closeCh, cancelled, closer, told, orderly>>

Cancel ==
  /\ connect # "idle" /\ ~cancelled /\ cancelled' = TRUE
  /\ UNCHANGED <<connect, conn, network, closeCh, wg, ml, pl, closer, told, orderly>>

-----------------------------------------------------------------------------
(* messageLoop.                                                             *)

mlUnchanged == UNCHANGED <<connect, cancelled, pl, closer>>

\* A bug: the top of the loop does not look at the channels.
LoopSelectBlind ==
  /\ ml = "select" /\ ml' = "read"
  /\ UNCHANGED <<conn, network, closeCh, wg, told, orderly>> /\ mlUnchanged

LoopSelect ==
  /\ ml = "select"
  /\ ml' = IF Stopping THEN "leaving" ELSE "read"
  /\ UNCHANGED <<conn, network, closeCh, wg, told, orderly>> /\ mlUnchanged

\* A bug: a read error is reported at once, and by the deferred call again.
LoopReadTells ==
  /\ ml = "read"
  /\ \/ FrameArrives /\ ml' = "handle" /\ UNCHANGED told
     \/ ReadFails /\ ml' = "leaving" /\ told' = Append(told, "disconnect")
  /\ UNCHANGED <<conn, closeCh, wg, orderly>> /\ mlUnchanged

LoopRead ==
  /\ ml = "read"
  /\ \/ FrameArrives /\ ml' = "handle"
     \/ ReadFails /\ ml' = "leaving"
  /\ UNCHANGED <<conn, closeCh, wg, told, orderly>> /\ mlUnchanged

\* handleMessage.  A callback it makes may call Close, which waits for wg to
\* be 0; as wg counts the very goroutine that waits, there is no step out of
\* "handleClose", nor out of "leaveClose" below.
LoopHandle ==
  /\ ml = "handle"
  /\ \/ ml' \in {"select", "answer"} /\ UNCHANGED <<closeCh, orderly>>
     \/ ml' = "handleClose" /\ closeCh' = TRUE /\ orderly' = FALSE
  /\ UNCHANGED <<conn, network, wg, told>> /\ mlUnchanged

\* The outcome of an answer is ignored.
LoopAnswer ==
  /\ ml = "answer" /\ ml' = "select"
  /\ WriteSucceeds \/ WriteFails
  /\ UNCHANGED <<conn, closeCh, wg, told, orderly>> /\ mlUnchanged

\* A bug: no deferred emitDisconnect.
LoopLeaveSilent ==
  /\ ml = "leaving" /\ ml' = "finish"
  /\ UNCHANGED <<conn, network, closeCh, wg, told, orderly>> /\ mlUnchanged

\* The deferred emitDisconnect, which runs before the deferred wg.Done.
LoopLeave ==
  /\ ml = "leaving"
  /\ told' = Append(told, "disconnect")
  /\ \/ ml' = "finish" /\ UNCHANGED <<closeCh, orderly>>
     \/ ml' = "leaveClose" /\ closeCh' = TRUE /\ orderly' = FALSE
  /\ UNCHANGED <<conn, network, wg>> /\ mlUnchanged

LoopFinish ==
  /\ ml = "finish" /\ ml' = "done"
  /\ wg' = wg - 1
  /\ UNCHANGED <<conn, network, closeCh, told, orderly>> /\ mlUnchanged

-----------------------------------------------------------------------------
(* pingLoop.                                                                *)

\* When a tick and a stop are both ready, select takes either.
PingTick ==
  /\ pl = "select" /\ pl' = "ping"
  /\ UNCHANGED <<connect, conn, network, closeCh, cancelled, wg, ml, closer, told, orderly>>

\* A bug: a failed ping is ignored, as a failed pong is.
PingWriteStubborn ==
  /\ pl = "ping" /\ pl' = "select"
  /\ WriteSucceeds \/ WriteFails
  /\ UNCHANGED <<connect, conn, closeCh, cancelled, wg, ml, closer, told, orderly>>

PingWrite ==
  /\ pl = "ping"
  /\ \/ WriteSucceeds /\ pl' = "select" /\ UNCHANGED wg
     \/ WriteFails /\ pl' = "done" /\ wg' = wg - 1
  /\ UNCHANGED <<connect, conn, closeCh, cancelled, ml, closer, told, orderly>>

PingStop ==
  /\ pl = "select" /\ Stopping
  /\ pl' = "done" /\ wg' = wg - 1
  /\ UNCHANGED <<connect, conn, network, closeCh, cancelled, ml, closer, told, orderly>>

-----------------------------------------------------------------------------
(* Close, from goroutines that are not callbacks.                           *)

CloseCall(c) ==
  /\ closer[c] = "idle" /\ connect # "idle"
  /\ closer' = [closer EXCEPT ![c] = "waiting"]
  /\ closeCh' = TRUE
  /\ orderly' = (orderly /\ connect \in {"connected", "failed"})
  /\ UNCHANGED <<connect, conn, network, cancelled, wg, ml, pl, told>>

\* A bug: Close does not wait for the loops.
CloseReturnHasty(c) ==
  /\ closer[c] = "waiting"
  /\ closer' = [closer EXCEPT ![c] = "done"]
  /\ conn' = IF conn = "nil" THEN "nil" ELSE "closed"
  /\ UNCHANGED <<connect, network, closeCh, cancelled, wg, ml, pl, told, orderly>>

\* wg.Wait returns, the connection is closed, Close returns.
CloseReturn(c) ==
  /\ closer[c] = "waiting" /\ wg = 0
  /\ closer' = [closer EXCEPT ![c] = "done"]
  /\ conn' = IF conn = "nil" THEN "nil" ELSE "closed"
  /\ UNCHANGED <<connect, network, closeCh, cancelled, wg, ml, pl, told, orderly>>

-----------------------------------------------------------------------------

ConnectNext == Call \/ Dial \/ Greet \/ HandshakeTurn \/ HandshakeRead
               \/ HandshakeReply
               \/ Announce \/ Start
LoopTurn == LoopSelect \/ LoopRead \/ LoopHandle \/ LoopLeave \/ LoopFinish
LoopNext == LoopTurn \/ LoopAnswer
PingNext == PingTick \/ PingWrite \/ PingStop

Next ==
  \/ ConnectNext \/ Cancel \/ LoopNext \/ PingNext
  \/ \E c \in Closers : CloseCall(c) \/ CloseReturn(c)
  \/ PeerSends \/ PeerGoes

\* A goroutine that can run does; a tick comes again and again; a select
\* with a stop ready does not lose to ticks for ever.  Writes may block.
Fairness ==
  /\ WF_vars(Dial \/ HandshakeTurn \/ HandshakeRead \/ Announce \/ Start)
  /\ WF_vars(LoopTurn) /\ WF_vars(PingTick) /\ SF_vars(PingStop)
  /\ \A c \in Closers : WF_vars(CloseReturn(c))

Spec == Init /\ [][Next]_vars /\ Fairness

\* The same with a peer that reads until it goes: a write returns.
ReadingSpec ==
  Spec /\ WF_vars(Greet \/ HandshakeReply) /\ WF_vars(LoopAnswer) /\ WF_vars(PingWrite)

\* With one that keeps sending too, as a server does that has users talking.
TalkingSpec == ReadingSpec /\ WF_vars(PeerSends)

-----------------------------------------------------------------------------
(* Properties.                                                              *)

MlAlive == ml \notin {"off", "done"}
PlAlive == pl \notin {"off", "done"}
Returned == {c \in Closers : closer[c] = "done"}

\* The type invariant.
TypeOK ==
  /\ connect \in {"idle", "dialing", "greeting", "handshake", "reading", "replying",
                  "setup", "starting", "connected", "failed"}
  /\ conn \in {"nil", "open", "closed"}
  /\ peer \in {"up", "gone", "reset"} /\ inbox \in 0..MaxFrames
  /\ closeCh \in BOOLEAN /\ cancelled \in BOOLEAN
  /\ wg \in 0..2
  /\ ml \in {"off", "select", "read", "handle", "answer", "handleClose", "leaving",
             "leaveClose", "finish", "done"}
  /\ pl \in {"off", "select", "ping", "done"}
  /\ closer \in [Closers -> {"idle", "waiting", "done"}]
  /\ orderly \in BOOLEAN
  /\ told \in Seq({"connect", "disconnect"})

\* wg counts the loops that run, on every path out of them: otherwise Close
\* would return under a running loop, or never.
WgCountsLoops == wg = (IF MlAlive THEN 1 ELSE 0) + (IF PlAlive THEN 1 ELSE 0)

\* Used properly - no Close before Connect has returned and none in a callback -
\* the connection is not closed under a loop that uses it: whoever calls
\* Close, and however many do, the loops are gone first.
NoUseAfterClose == orderly /\ conn = "closed" => ~MlAlive /\ ~PlAlive

\* The application hears OnConnect before OnDisconnect, and each once at most,
\* also when Close is called at the wrong time.
ToldInOrder == told \in {<<>>, <<"connect">>, <<"connect", "disconnect">>}

\* When any Close of a connected client, used properly, returns, OnDisconnect
\* has been called.
CloseTold ==
  orderly /\ Returned # {} /\ connect = "connected"
    => told = <<"connect", "disconnect">>

\* After any Close has returned, in proper use, the application hears nothing
\* more.
CloseIsFinal == [][orderly /\ Returned # {} => UNCHANGED told]_vars

\* A connection that is lost is reported, whatever the loops were doing, and
\* leaves no goroutine behind: pingLoop too ends, although messageLoop tells
\* it nothing, as its own writes fail in the end.  In a run of TalkingSpec,
\* where a write returns.
LossEndsAll ==
  connect = "connected" /\ peer # "up"
    ~> ~orderly \/ (told = <<"connect", "disconnect">> /\ ~MlAlive /\ ~PlAlive)

\* "Close cleanly shuts down the client connection" (client/client.go:107): it
\* returns.  In a run of TalkingSpec: provided the server keeps sending and
\* reading, or the connection breaks.  Of ReadingSpec it need not.
CloseReturns ==
  \A c \in Closers : closer[c] = "waiting" ~> closer[c] = "done" \/ ~orderly
=============================================================================
