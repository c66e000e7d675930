------------------------ MODULE ClientLifecycle_proofs ------------------------
(***************************************************************************)
(* Theorems about starting and stopping, for any number of goroutines that *)
(* call Close, at any time.                                                *)
(***************************************************************************)
EXTENDS ClientLifecycle, SequenceTheorems, TLAPS

\* The loops run from the end of Connect on, and not before.
PhaseInv ==
  /\ connect # "connected" => ml = "off" /\ pl = "off"
  /\ connect = "connected" => ml # "off" /\ pl # "off"

\* What has been told, as a function of where Connect and messageLoop are.
ToldInv ==
  told = IF connect \notin {"starting", "connected"} THEN <<>>
         ELSE IF ml \in {"leaveClose", "finish", "done"}
              THEN <<"connect", "disconnect">> ELSE <<"connect">>

\* Used properly - no Close before Connect returns and none in a callback -
\* the connection is closed by a failed Connect, or after both loops ended.
ClosedInv ==
  orderly =>
    /\ \A c \in Closers : closer[c] # "idle" => connect \in {"connected", "failed"}
    /\ conn = "closed" =>
         connect = "failed" \/ (connect = "connected" /\ ~MlAlive /\ ~PlAlive)
    /\ \A c \in Closers : closer[c] = "done" /\ connect = "connected"
         => ~MlAlive /\ ~PlAlive

LifecycleInv == TypeOK /\ WgCountsLoops /\ PhaseInv /\ ToldInv /\ ClosedInv

\* A second element appended to a sequence of one.
LEMMA AppendToOne ==
  ASSUME NEW S, NEW a \in S, NEW b \in S
  PROVE  Append(<<a>>, b) = <<a, b>>
<1> DEFINE s == Append(<<a>>, b)
           t == <<a, b>>
<1>1. <<a>> \in Seq(S) /\ t \in Seq(S)
  OBVIOUS
<1>2. Len(<<a>>) = 1 /\ Len(t) = 2
  OBVIOUS
<1>3. \A i \in 1..2 : s[i] = t[i]
  BY <1>1, <1>2, AppendProperties
<1>4. s \in Seq(S) /\ Len(s) = 2
  BY <1>1, <1>2, AppendProperties
<1> HIDE DEF s, t
<1>5. s = t
  BY <1>1, <1>2, <1>3, <1>4, SeqEqual
<1>6. QED
  BY <1>5 DEF s, t

\* The histories that occur, as sequences.
LEMMA Histories ==
  /\ <<>> \in Seq({"connect", "disconnect"})
  /\ <<"connect">> \in Seq({"connect", "disconnect"})
  /\ <<"connect", "disconnect">> \in Seq({"connect", "disconnect"})
  /\ Append(<<>>, "connect") = <<"connect">>
  /\ Append(<<"connect">>, "disconnect") = <<"connect", "disconnect">>
<1>1. <<>> \in Seq({"connect", "disconnect"})
  OBVIOUS
<1>2. Append(<<>>, "connect") = <<"connect">>
  OBVIOUS
<1>3. <<"connect">> \in Seq({"connect", "disconnect"})
  OBVIOUS
<1>4. Append(<<"connect">>, "disconnect") = <<"connect", "disconnect">>
  <2> DEFINE S == {"connect", "disconnect"}
  <2>1. "connect" \in S /\ "disconnect" \in S
    OBVIOUS
  <2> HIDE DEF S
  <2>2. QED
    BY <2>1, AppendToOne, Zenon
<1>5. <<"connect", "disconnect">> \in Seq({"connect", "disconnect"})
  OBVIOUS
<1>6. QED
  BY <1>1, <1>2, <1>3, <1>4, <1>5

LEMMA LifecycleInit == Init => LifecycleInv
<1> SUFFICES ASSUME Init
             PROVE  LifecycleInv
  OBVIOUS
<1>1. told \in Seq({"connect", "disconnect"}) /\ inbox \in 0..MaxFrames
  BY LifecycleConstants, Histories DEF Init
<1>2. closer \in [Closers -> {"idle", "waiting", "done"}] /\ wg \in 0..2
  BY DEF Init
<1>3. TypeOK
  BY <1>1, <1>2, Zenon DEF Init, TypeOK
<1>4. WgCountsLoops /\ PhaseInv /\ ToldInv /\ ClosedInv
  BY DEF Init, WgCountsLoops, PhaseInv, ToldInv, ClosedInv, MlAlive, PlAlive
<1>5. QED
  BY <1>3, <1>4 DEF LifecycleInv

\* Connect up to the point where it starts the loops.
LEMMA ConnectStep == LifecycleInv /\ ConnectNext => LifecycleInv'
<1> SUFFICES ASSUME LifecycleInv, ConnectNext
             PROVE  LifecycleInv'
  OBVIOUS
<1> USE LifecycleConstants
    DEF LifecycleInv, TypeOK, WgCountsLoops, PhaseInv, ToldInv, ClosedInv,
        MlAlive, PlAlive, network, runtimeUnchanged
<1>1. CASE Call
  BY <1>1 DEF Call
<1>2. CASE Dial
  BY <1>2 DEF Dial
<1>3. CASE Greet
  BY <1>3 DEF Greet, WriteSucceeds, WriteFails, GiveUp
<1>4. CASE HandshakeTurn
  BY <1>4 DEF HandshakeTurn, GiveUp
<1>5. CASE HandshakeRead
  BY <1>5 DEF HandshakeRead, FrameArrives, ReadFails, GiveUp
<1>6. CASE HandshakeReply
  BY <1>6 DEF HandshakeReply, WriteSucceeds, WriteFails
<1>7. CASE Announce
  <2>1. told' = <<"connect">>
    BY <1>7, Histories DEF Announce
  <2>2. TypeOK'
    BY <1>7, <2>1, Histories DEF Announce
  <2>3. ToldInv' /\ PhaseInv' /\ WgCountsLoops' /\ ClosedInv'
    BY <1>7, <2>1 DEF Announce
  <2>4. QED
    BY <2>2, <2>3
<1>8. CASE Start
  BY <1>8 DEF Start
<1>9. QED
  BY <1>1, <1>2, <1>3, <1>4, <1>5, <1>6, <1>7, <1>8 DEF ConnectNext

LEMMA LoopStep == LifecycleInv /\ (LoopNext \/ PingNext) => LifecycleInv'
<1> SUFFICES ASSUME LifecycleInv, LoopNext \/ PingNext
             PROVE  LifecycleInv'
  OBVIOUS
<1> USE LifecycleConstants
    DEF LifecycleInv, TypeOK, WgCountsLoops, PhaseInv, ToldInv, ClosedInv,
        MlAlive, PlAlive, network, mlUnchanged
<1>1. CASE LoopSelect
  BY <1>1 DEF LoopSelect
<1>2. CASE LoopRead
  BY <1>2 DEF LoopRead, FrameArrives, ReadFails
<1>3. CASE LoopHandle
  <2>1. ml = "handle" /\ UNCHANGED <<connect, conn, peer, inbox, cancelled, wg, pl, closer, told>>
    BY <1>3 DEF LoopHandle
  <2>2. /\ ml' \in {"select", "answer", "handleClose"} /\ closeCh' \in BOOLEAN
        /\ orderly' \in BOOLEAN /\ (orderly' => orderly)
    <3>1. closeCh \in BOOLEAN /\ orderly \in BOOLEAN
      OBVIOUS
    <3>2. CASE ml' \in {"select", "answer"} /\ UNCHANGED <<closeCh, orderly>>
      BY <3>1, <3>2
    <3>3. CASE ml' = "handleClose" /\ closeCh' = TRUE /\ orderly' = FALSE
      BY <3>3
    <3>4. QED
      BY <1>3, <3>2, <3>3 DEF LoopHandle
  <2>3. TypeOK'
    BY <2>1, <2>2
  <2>4. ToldInv' /\ PhaseInv' /\ WgCountsLoops'
    BY <2>1, <2>2
  <2>5. ClosedInv'
    BY <2>1, <2>2
  <2>6. QED
    BY <2>3, <2>4, <2>5
<1>4. CASE LoopAnswer
  BY <1>4 DEF LoopAnswer, WriteSucceeds, WriteFails
<1>5. CASE LoopLeave
  <2>1. connect = "connected" /\ told = <<"connect">>
    BY <1>5 DEF LoopLeave
  <2>2. told' = <<"connect", "disconnect">>
    BY <1>5, <2>1, Histories DEF LoopLeave
  <2>3. TypeOK'
    BY <1>5, <2>2, Histories DEF LoopLeave
  <2>4. ToldInv' /\ PhaseInv' /\ WgCountsLoops' /\ ClosedInv'
    BY <1>5, <2>1, <2>2 DEF LoopLeave
  <2>5. QED
    BY <2>3, <2>4
<1>6. CASE LoopFinish
  BY <1>6 DEF LoopFinish
<1>7. CASE PingTick
  BY <1>7 DEF PingTick
<1>8. CASE PingWrite
  BY <1>8 DEF PingWrite, WriteSucceeds, WriteFails
<1>9. CASE PingStop
  BY <1>9 DEF PingStop
<1>10. QED
  BY <1>1, <1>2, <1>3, <1>4, <1>5, <1>6, <1>7, <1>8, <1>9 DEF LoopNext, LoopTurn, PingNext

LEMMA CloseStep ==
  LifecycleInv /\ (\E c \in Closers : CloseCall(c) \/ CloseReturn(c))
    => LifecycleInv'
<1> SUFFICES ASSUME LifecycleInv, NEW c \in Closers,
                    CloseCall(c) \/ CloseReturn(c)
             PROVE  LifecycleInv'
  OBVIOUS
<1> USE LifecycleConstants
    DEF LifecycleInv, TypeOK, WgCountsLoops, PhaseInv, ToldInv, ClosedInv,
        MlAlive, PlAlive, network
<1>1. CASE CloseCall(c)
  <2>1. /\ UNCHANGED <<connect, conn, peer, inbox, cancelled, wg, ml, pl, told>>
        /\ closer' = [closer EXCEPT ![c] = "waiting"] /\ closeCh' \in BOOLEAN
        /\ orderly' \in BOOLEAN
        /\ orderly' => orderly /\ connect \in {"connected", "failed"}
    BY <1>1 DEF CloseCall
  <2>2. TypeOK'
    BY <2>1
  <2>3. ToldInv' /\ PhaseInv' /\ WgCountsLoops'
    BY <2>1
  <2>4. ClosedInv'
    BY <2>1
  <2>5. QED
    BY <2>2, <2>3, <2>4
<1>2. CASE CloseReturn(c)
  BY <1>2 DEF CloseReturn
<1>3. QED
  BY <1>1, <1>2

LEMMA LifecycleInductive == LifecycleInv /\ [Next]_vars => LifecycleInv'
<1> SUFFICES ASSUME LifecycleInv, Cancel \/ PeerSends \/ PeerGoes \/ UNCHANGED vars
             PROVE  LifecycleInv'
  BY ConnectStep, LoopStep, CloseStep DEF Next
<1> USE DEF LifecycleInv, network, vars, Cancel, PeerSends, PeerGoes
<1>1. TypeOK'
  <2>1. inbox' \in 0..MaxFrames /\ told' = told /\ closer' = closer /\ wg' = wg
    BY LifecycleConstants DEF TypeOK
  <2>2. QED
    BY <2>1 DEF TypeOK
<1>2. WgCountsLoops' /\ PhaseInv' /\ ToldInv' /\ ClosedInv'
  BY DEF WgCountsLoops, PhaseInv, ToldInv, ClosedInv, MlAlive, PlAlive
<1>3. QED
  BY <1>1, <1>2

\* What the goroutines' places say of each other, in every interleaving.
THEOREM LifecycleInvariant == Spec => []LifecycleInv
  BY LifecycleInit, LifecycleInductive, PTL DEF Spec

\* wg counts exactly the running loops in every interleaving of Connect, the
\* loops, callbacks and any callers of Close, early ones included: wg.Wait
\* neither returns under a running loop that was started before it nor waits
\* for one that has ended.
THEOREM LoopsCounted == Spec => []WgCountsLoops
<1>1. LifecycleInv => WgCountsLoops
  BY DEF LifecycleInv
<1>2. QED
  BY <1>1, LifecycleInvariant, PTL

\* OnConnect comes first and OnDisconnect follows once at most.
THEOREM ToldOnceInOrder == Spec => []ToldInOrder
<1>1. LifecycleInv => ToldInOrder
  BY DEF LifecycleInv, ToldInv, ToldInOrder
<1>2. QED
  BY <1>1, LifecycleInvariant, PTL

\* When Close is called after Connect has returned and not from a callback,
\* the connection is never closed under a loop that may use it.
THEOREM ClosedAfterLoops ==
  Spec => []NoUseAfterClose
<1>1. LifecycleInv => NoUseAfterClose
  BY DEF LifecycleInv, ClosedInv, PhaseInv, NoUseAfterClose, MlAlive, PlAlive
<1>2. QED
  BY <1>1, LifecycleInvariant, PTL

\* And any Close that returns leaves an application that has been told.
THEOREM CloseTellsFirst ==
  Spec => []CloseTold
<1>1. LifecycleInv => CloseTold
  BY DEF LifecycleInv, ClosedInv, PhaseInv, ToldInv, CloseTold, Returned, MlAlive,
         PlAlive
<1>2. QED
  BY <1>1, LifecycleInvariant, PTL

\* After any Close has returned, no callback reports a connection: none of the
\* steps that tell is left, whoever closed and in whatever order.
THEOREM CloseHushes == Spec => CloseIsFinal
<1>1. LifecycleInv /\ [Next]_vars => [orderly /\ Returned # {} => UNCHANGED told]_vars
  <2> SUFFICES ASSUME LifecycleInv, Next, orderly, NEW c \in Closers, closer[c] = "done"
               PROVE  told' = told
    BY DEF vars, Returned
  <2>1. connect \in {"connected", "failed"} /\ ml \notin {"leaving"}
    BY DEF LifecycleInv, ClosedInv, PhaseInv, MlAlive
  <2>2. ~Announce /\ ~LoopLeave
    BY <2>1 DEF Announce, LoopLeave
  <2>3. QED
    BY <2>1, <2>2 DEF Next, ConnectNext, LoopNext, PingNext, Call, Dial, Greet, HandshakeTurn,
       HandshakeRead, HandshakeReply, Start, Cancel, LoopTurn, LoopSelect, LoopRead,
       LoopHandle, LoopAnswer, LoopFinish, PingTick, PingWrite, PingStop,
       CloseCall, CloseReturn, PeerSends, PeerGoes
<1>2. QED
  BY <1>1, LifecycleInvariant, PTL DEF Spec, CloseIsFinal
=============================================================================
