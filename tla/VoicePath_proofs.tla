--------------------------- MODULE VoicePath_proofs ---------------------------
(***************************************************************************)
(* Theorems about a client's voice, for any callers, gaps and bounds.      *)
(* Three invariants that do not depend on each other: one for the loop and *)
(* Close, one for the keys, one for the frames.                            *)
(***************************************************************************)
EXTENDS VoicePath, SequenceTheorems, TLAPS

\* Speaking leaves the manager and the keys alone, keys the manager but for
\* Setup.
LEMMA SpeakKeeps == SpeakNext => UNCHANGED <<udpVars, keyVars>>
<1> SUFFICES ASSUME SpeakNext PROVE UNCHANGED <<udpVars, keyVars>>
  OBVIOUS
<1>1. ASSUME NEW c, NEW n, NEW at, Speak(c, n, at) PROVE UNCHANGED <<udpVars, keyVars>>
  BY <1>1 DEF Speak
<1>2. ASSUME NEW c, NEW ok, Encode(c, ok) PROVE UNCHANGED <<udpVars, keyVars>>
  BY <1>2 DEF Encode
<1>3. ASSUME NEW c, NEW ok, NEW d, SendTunnel(c, ok, d) PROVE UNCHANGED <<udpVars, keyVars>>
  BY <1>3 DEF SendTunnel
<1>4. ASSUME NEW c, NEW d, AdvanceSequence(c, d) PROVE UNCHANGED <<udpVars, keyVars>>
  BY <1>4 DEF AdvanceSequence
<1>5. ASSUME NEW c, SendNothing(c) \/ SendFrame(c) PROVE UNCHANGED <<udpVars, keyVars>>
  BY <1>5 DEF SendNothing, SendFrame
<1>6. QED
  BY <1>1, <1>2, <1>3, <1>4, <1>5, Zenon DEF SpeakNext

LEMMA KeysKeep == KeysNext /\ ~Setup => UNCHANGED udpVars
<1> SUFFICES ASSUME KeysNext, ~Setup PROVE UNCHANGED udpVars
  OBVIOUS
<1>1. ASSUME NEW size, SrvCryptSetup(size) PROVE UNCHANGED udpVars
  BY <1>1 DEF SrvCryptSetup
<1>2. SrvSync \/ HsServerSync => UNCHANGED udpVars
  BY DEF SrvSync, HsServerSync
<1>3. HsCryptSetup \/ RtCryptSetup => UNCHANGED udpVars
  BY DEF HsCryptSetup, RtCryptSetup
<1>4. QED
  BY <1>1, <1>2, <1>3, Zenon DEF KeysNext

\* The session, once begun, goes on.
LEMMA PhaseStays == KeysNext /\ phase = "session" => phase' = phase
<1> SUFFICES ASSUME KeysNext, phase = "session" PROVE phase' = phase
  OBVIOUS
<1>1. ASSUME NEW size, SrvCryptSetup(size) PROVE phase' = phase
  BY <1>1 DEF SrvCryptSetup
<1>2. SrvSync \/ RtCryptSetup => phase' = phase
  BY DEF SrvSync, RtCryptSetup
<1>3. ~HsServerSync /\ ~HsCryptSetup /\ ~Setup
  BY DEF HsServerSync, HsCryptSetup, Setup
<1>4. QED
  BY <1>1, <1>2, <1>3, Zenon DEF KeysNext

-----------------------------------------------------------------------------
(* The UDP manager.                                                         *)

\* Close holds the mutex from the moment it closes stopCh until the loop is
\* gone, and is called on a manager that has been set up.
QuietInv ==
  /\ loop \in {"off", "select", "read", "callback", "sending", "done"}
  /\ stopCh \in BOOLEAN
  /\ mu = "close" => stopCh
  /\ stopCh => phase = "session"
  /\ QuietAfterClose

LEMMA QuietLoop ==
  ASSUME QuietInv, LoopNext, UNCHANGED phase
  PROVE  QuietInv'
<1> USE DEF QuietInv, QuietAfterClose, loopUnchanged
<1>1. CASE LoopSelect
  BY <1>1 DEF LoopSelect
<1>2. CASE LoopRead
  BY <1>2 DEF LoopRead
<1>3. CASE LoopTimeout \/ LoopFails
  BY <1>3 DEF LoopTimeout, LoopFails
<1>4. CASE LoopCallback \/ LoopSends
  BY <1>4 DEF LoopCallback, LoopSends
<1>5. QED
  BY <1>1, <1>2, <1>3, <1>4 DEF LoopNext

LEMMA QuietCalls ==
  ASSUME QuietInv, phase = "session", UNCHANGED phase,
         PingStart \/ PingRead \/ PingTimeout \/ CloseCall \/ CloseReturn
  PROVE  QuietInv'
<1> USE DEF QuietInv, QuietAfterClose
<1>1. CASE PingStart
  BY <1>1 DEF PingStart
<1>2. CASE PingRead \/ PingTimeout
  BY <1>2 DEF PingRead, PingTimeout
<1>3. CASE CloseCall
  BY <1>3 DEF CloseCall
<1>4. CASE CloseReturn
  BY <1>4 DEF CloseReturn
<1>5. QED
  BY <1>1, <1>2, <1>3, <1>4

\* Nothing else touches the manager, but for Setup, which comes before Close.
LEMMA QuietElsewhere ==
  ASSUME QuietInv, KeysNext \/ SpeakNext \/ (Receive /\ apart) \/ UNCHANGED vars
  PROVE  QuietInv'
<1> USE DEF QuietInv, QuietAfterClose
<1>1. CASE UNCHANGED vars
  BY <1>1 DEF vars, udpVars, keyVars
<1>2. CASE Receive /\ apart
  BY <1>2 DEF Receive, Arrive, apart, keyVars
<1>3. CASE Setup
  BY <1>3 DEF Setup, ReceiveLoop, udpVars
<1>4. CASE KeysNext /\ ~Setup
  BY <1>4, KeysKeep, PhaseStays DEF udpVars
<1>5. CASE SpeakNext
  BY <1>5, SpeakKeeps DEF udpVars, keyVars
<1>6. QED
  BY <1>1, <1>2, <1>3, <1>4, <1>5

LEMMA QuietInductive == QuietInv /\ [Next]_vars => QuietInv'
<1> SUFFICES ASSUME QuietInv, [Next]_vars PROVE QuietInv'
  OBVIOUS
<1>1. CASE phase = "session" /\ LoopNext /\ apart
  BY <1>1, QuietLoop DEF apart, keyVars
<1>2. CASE /\ phase = "session" /\ apart
           /\ PingStart \/ PingRead \/ PingTimeout \/ CloseCall \/ CloseReturn
  BY <1>2, QuietCalls DEF apart, keyVars
<1>3. QED
  BY <1>1, <1>2, QuietElsewhere DEF Next, UdpNext

\* Once UDPManager.Close has returned the loop is gone, whichever step it was
\* at and whoever else used the manager meanwhile.
THEOREM ClosedIsQuiet == Spec => []QuietAfterClose
<1>1. Init => QuietInv
  BY DEF Init, UdpInit, QuietInv, QuietAfterClose
<1>2. QuietInv => QuietAfterClose
  BY DEF QuietInv
<1>3. QED
  BY <1>1, <1>2, QuietInductive, PTL DEF Spec

-----------------------------------------------------------------------------
(* The keys.                                                                *)

Told == [key : [id : Nat, len : Nat], serverNonce : [id : Nat, len : Nat]]
Message == [type : {"CryptSetup"}, setup : Told] \cup [type : {"ServerSync"}]
Known == [key : [id : Nat, len : Nat], clientNonce : [id : Nat, len : Nat],
          serverNonce : [id : Nat, len : Nat]]

KeyTypes ==
  /\ budget \in Budgets /\ phase \in {"handshake", "setup", "session"}
  /\ down \in Seq(Message) /\ offered \in Told /\ agreed \in Known /\ fields \in Known

\* What the server has told, of what k is made of.
OfServer(k) == [key |-> k.key, serverNonce |-> k.serverNonce]

\* Place i of the queue is before ServerSync, and the last one that is.
Before(i) == \A j \in 1..i : down[j].type # "ServerSync"
LastBefore(i) == Before(i) /\ (i < Len(down) => down[i + 1].type = "ServerSync")

\* Until the transports are set up the client nonce in the fields is what was
\* agreed on, cut, and there are no UDP keys.
NonceInv ==
  phase # "session" => fields.clientNonce = First16(agreed.clientNonce) /\ udpKeys = NoKeys

\* The key and the nonce agreed on are those of the last CryptSetup before
\* ServerSync if it is still in the queue, or else in the fields.
LatestInv ==
  /\ phase = "handshake" =>
       /\ \A i \in 1..Len(down) : LastBefore(i) => down[i].setup = OfServer(agreed)
       /\ (down = <<>> \/ down[1].type = "ServerSync") => OfServer(fields) = OfServer(agreed)
  /\ phase = "setup" => OfServer(fields) = OfServer(agreed)
  /\ SealedAsAgreed

KeysInv == KeyTypes /\ NonceInv /\ LatestInv

\* A message is a CryptSetup with a key and a nonce, or ServerSync.
LEMMA MessageIs ==
  \A x \in Message : x.type = "ServerSync" \/ (x.type = "CryptSetup" /\ x.setup \in Told)
BY DEF Message

\* What there is of it stays when the server tells something new.
LEMMA WithServerIs ==
  ASSUME NEW k \in Known, NEW cs \in Told
  PROVE  /\ WithServer(k, cs) \in Known /\ OfServer(WithServer(k, cs)) = cs
         /\ WithServer(k, cs).clientNonce = k.clientNonce
BY DEF WithServer, Known, Told, OfServer

\* Cutting once more changes nothing, and makes nothing longer.
LEMMA FirstOfFirst ==
  ASSUME NEW c \in [id : Nat, len : Nat]
  PROVE  First16(First16(c)) = First16(c) /\ (First16(c).len >= 16 => c.len >= 16)
<1>1. CASE c.len < 16
  BY <1>1 DEF First16
<1>2. CASE ~(c.len < 16)
  <2> DEFINE d == [c EXCEPT !.len = 16]
  <2>1. First16(c) = d /\ d \in [id : Nat, len : Nat] /\ d.len = 16
    BY <1>2 DEF First16
  <2> HIDE DEF d
  <2>2. First16(d) = d
    BY <2>1 DEF First16
  <2>3. QED
    BY <1>2, <2>1, <2>2
<1>3. QED
  BY <1>1, <1>2

\* The parts that are cut are those of what is cut.
LEMMA CutIs ==
  ASSUME NEW k \in Known, NEW a \in Known, OfServer(k) = OfServer(a),
         k.clientNonce = First16(a.clientNonce), k.clientNonce.len >= 16, LongEnough(k)
  PROVE  Cut(k) = Cut(a) /\ LongEnough(a) /\ a.clientNonce.len >= 16
<1>1. k.key = a.key /\ k.serverNonce = a.serverNonce
  BY DEF OfServer
<1>2. a.clientNonce \in [id : Nat, len : Nat]
  BY DEF Known
<1> DEFINE c == a.clientNonce
<1>3. First16(First16(c)) = First16(c) /\ (First16(c).len >= 16 => c.len >= 16)
  BY <1>2, FirstOfFirst
<1>4. QED
  BY <1>1, <1>3 DEF Cut, LongEnough

LEMMA KeysServer ==
  ASSUME KeysInv, SrvSync \/ \E size \in budget.sizes : SrvCryptSetup(size)
  PROVE  KeysInv'
<1> USE DEF KeysInv, KeyTypes, udpVars
<1>0. Len(down) \in Nat /\ \A i \in 1..Len(down) : down[i] \in Message
  OBVIOUS
<1>1. ASSUME NEW x \in Message, down' = Append(down, x)
      PROVE  /\ down' \in Seq(Message) /\ Len(down') = Len(down) + 1 /\ down'[Len(down')] = x
             /\ \A i \in 1..Len(down) : down'[i] = down[i] /\ (Before(i))' = Before(i)
             /\ down # <<>> => down'[1] = down[1]
             /\ down = <<>> => down'[1] = x
             /\ down' # <<>>
  <2>1. /\ down' \in Seq(Message) /\ Len(down') = Len(down) + 1 /\ down'[Len(down')] = x
        /\ \A i \in 1..Len(down) : down'[i] = down[i]
    BY <1>1
  <2>2. ASSUME NEW i \in 1..Len(down) PROVE (Before(i))' = Before(i)
    <3>1. \A k \in 1..i : down'[k] = down[k]
      BY <2>1
    <3> QED BY <3>1 DEF Before
  <2> QED BY <1>1, <2>1, <2>2
<1>2. CASE SrvSync
  <2> DEFINE x == [type |-> "ServerSync"]
  <2>1. /\ phase = "handshake" /\ \A i \in 1..Len(down) : down[i].type # "ServerSync"
        /\ down' = Append(down, x)
        /\ UNCHANGED <<budget, phase, offered, agreed, fields, udpKeys>>
    BY <1>2 DEF SrvSync, Synced
  <2>2. x \in Message /\ x.type = "ServerSync"
    BY DEF Message
  <2> HIDE DEF x
  <2>3. NonceInv'
    BY <2>1 DEF NonceInv
  <2>4. ASSUME NEW i \in 1..Len(down'), LastBefore(i)'
        PROVE  down'[i].setup = OfServer(agreed)
    <3>1. i # Len(down')
      BY <1>1, <2>1, <2>2, <2>4 DEF LastBefore, Before
    <3>2. i \in 1..Len(down) /\ down'[i] = down[i] /\ Before(i)
      BY <1>0, <1>1, <2>1, <2>2, <2>4, <3>1 DEF LastBefore
    <3>3. ~(i < Len(down))
      <4> SUFFICES ASSUME i < Len(down) PROVE FALSE
        OBVIOUS
      <4>1. i + 1 \in 1..Len(down) /\ i < Len(down')
        BY <1>0, <1>1, <2>1, <2>2, <3>2
      <4>2. down'[i + 1] = down[i + 1] /\ down'[i + 1].type = "ServerSync"
        BY <1>1, <2>1, <2>2, <2>4, <4>1 DEF LastBefore
      <4> QED BY <2>1, <4>1, <4>2
    <3>4. LastBefore(i)
      BY <3>2, <3>3 DEF LastBefore
    <3> QED BY <2>1, <3>2, <3>4 DEF LatestInv
  <2>5. down = <<>> \/ down[1].type # "ServerSync"
    <3>1. down # <<>> => 1 \in 1..Len(down)
      BY <1>0
    <3> QED BY <2>1, <3>1
  <2>6. (down' = <<>> \/ down'[1].type = "ServerSync") => OfServer(fields) = OfServer(agreed)
    <3>1. CASE down = <<>>
      BY <2>1, <3>1 DEF LatestInv
    <3>2. CASE down # <<>>
      BY <1>1, <2>1, <2>2, <2>5, <3>2
    <3> QED BY <3>1, <3>2
  <2>7. LatestInv'
    BY <2>1, <2>4, <2>6 DEF LatestInv, SealedAsAgreed
  <2> QED BY <1>1, <2>1, <2>2, <2>3, <2>7
<1>3. ASSUME NEW size \in budget.sizes, SrvCryptSetup(size) PROVE KeysInv'
  <2> DEFINE x == [type |-> "CryptSetup", setup |-> offered']
  <2>1. /\ down' = Append(down, x)
        /\ offered' = [key |-> Bytes(Setups + 1, size.key),
                       serverNonce |-> Bytes(Setups + 1, size.nonce)]
        /\ agreed' = IF Synced THEN agreed ELSE WithServer(agreed, offered')
        /\ UNCHANGED <<budget, phase, fields, udpKeys>>
    BY <1>3 DEF SrvCryptSetup
  <2>2. offered' \in Told
    <3>1. size.key \in Nat /\ size.nonce \in Nat
      BY VoiceConstants DEF Budget, Sizes
    <3>2. Setups \in Nat
      BY DEF Setups, Told
    <3> QED BY <2>1, <3>1, <3>2 DEF Bytes, Told
  <2>3. x \in Message /\ x.type = "CryptSetup" /\ x.setup = offered'
    BY <2>2 DEF Message
  <2> HIDE DEF x
  <2>4. /\ WithServer(agreed, offered') \in Known
        /\ OfServer(WithServer(agreed, offered')) = offered'
        /\ WithServer(agreed, offered').clientNonce = agreed.clientNonce
    BY <2>2, WithServerIs
  <2>5. agreed' \in Known /\ agreed'.clientNonce = agreed.clientNonce
    BY <2>1, <2>4
  <2>6. KeyTypes'
    BY <1>1, <2>1, <2>2, <2>3, <2>5
  <2>7. NonceInv'
    BY <2>1, <2>5 DEF NonceInv
  <2>8. phase # "handshake" => agreed' = agreed
    BY <2>1 DEF Synced
  <2>9. CASE phase = "handshake" /\ ~Synced
    <3>1. \A i \in 1..Len(down) : down[i].type # "ServerSync"
      BY <2>9 DEF Synced
    <3>2. agreed' = WithServer(agreed, offered')
      BY <2>1, <2>9
    <3>3. ASSUME NEW i \in 1..Len(down'), LastBefore(i)'
          PROVE  down'[i].setup = OfServer(agreed')
      <4>1. i = Len(down')
        <5> SUFFICES ASSUME i # Len(down') PROVE FALSE
          OBVIOUS
        <5>1. i < Len(down') /\ i + 1 \in 1..Len(down')
          BY <1>0, <1>1, <2>1, <2>3
        <5>2. down'[i + 1].type = "ServerSync"
          BY <3>3, <5>1 DEF LastBefore
        <5>3. CASE i + 1 = Len(down')
          BY <1>1, <2>1, <2>3, <5>2, <5>3
        <5>4. CASE i + 1 # Len(down')
          <6>1. i + 1 \in 1..Len(down)
            BY <1>0, <1>1, <2>1, <2>3, <5>1, <5>4
          <6>2. down'[i + 1] = down[i + 1]
            BY <1>1, <2>1, <2>3, <6>1
          <6> QED BY <3>1, <5>2, <6>1, <6>2
        <5> QED BY <5>3, <5>4
      <4> QED BY <1>1, <2>1, <2>3, <2>4, <3>2, <4>1
    <3>4. down'[1].type # "ServerSync" /\ down' # <<>>
      <4>1. down # <<>> => 1 \in 1..Len(down)
        BY <1>0
      <4>2. CASE down = <<>>
        BY <1>1, <2>1, <2>3, <4>2
      <4>3. CASE down # <<>>
        BY <1>1, <2>1, <2>3, <3>1, <4>1, <4>3
      <4> QED BY <4>2, <4>3
    <3>5. LatestInv'
      BY <2>1, <2>9, <3>3, <3>4 DEF LatestInv, SealedAsAgreed
    <3> QED BY <2>6, <2>7, <3>5
  <2>10. CASE phase = "handshake" /\ Synced
    <3>1. PICK s \in 1..Len(down) : down[s].type = "ServerSync"
      BY <2>10 DEF Synced
    <3>2. agreed' = agreed
      BY <2>1, <2>10
    <3>3. ASSUME NEW i \in 1..Len(down'), LastBefore(i)'
          PROVE  down'[i].setup = OfServer(agreed)
      <4>1. i < s
        <5> SUFFICES ASSUME i >= s PROVE FALSE
          BY <1>0, <1>1, <2>1, <2>3
        <5>1. s \in 1..i /\ down'[s] = down[s]
          BY <1>0, <1>1, <2>1, <2>3, <3>1
        <5> QED BY <3>1, <3>3, <5>1 DEF LastBefore, Before
      <4>2. i \in 1..Len(down) /\ i + 1 \in 1..Len(down) /\ i < Len(down')
        BY <1>0, <1>1, <2>1, <2>3, <3>1, <4>1
      <4>3. down'[i] = down[i] /\ down'[i + 1] = down[i + 1] /\ Before(i)
        BY <1>1, <2>1, <2>3, <3>3, <4>2 DEF LastBefore
      <4>4. LastBefore(i)
        BY <3>3, <4>2, <4>3 DEF LastBefore
      <4> QED BY <2>10, <4>2, <4>3, <4>4 DEF LatestInv
    <3>4. down # <<>> /\ down'[1] = down[1] /\ down' # <<>>
      BY <1>0, <1>1, <2>1, <2>3, <3>1
    <3>5. LatestInv'
      BY <2>1, <2>10, <3>2, <3>3, <3>4 DEF LatestInv, SealedAsAgreed
    <3> QED BY <2>6, <2>7, <3>5
  <2>11. CASE phase # "handshake"
    <3>1. LatestInv'
      BY <2>1, <2>8, <2>11 DEF LatestInv, SealedAsAgreed
    <3> QED BY <2>6, <2>7, <3>1
  <2> QED BY <2>9, <2>10, <2>11
<1>4. QED
  BY <1>2, <1>3

\* Reading takes the first message off the queue.
LEMMA ReadTakes ==
  ASSUME KeyTypes, NEW type, Read(type)
  PROVE  /\ down # <<>> /\ Len(down) \in Nat /\ Len(down) > 0
         /\ down[1].type = type /\ down[1] = Head(down) /\ down[1] \in Message
         /\ down' \in Seq(Message) /\ Len(down') = Len(down) - 1
         /\ \A i \in 1..Len(down') : down'[i] = down[i + 1]
         /\ Len(down) = 1 => down' = <<>>
         /\ Len(down) # 1 => down' # <<>>
<1>1. down \in Seq(Message) /\ down # <<>> /\ down' = Tail(down) /\ Head(down).type = type
  BY DEF KeyTypes, Read
<1> HIDE DEF Message
<1>2. Len(down) \in Nat /\ Len(down) > 0 /\ down[1] = Head(down) /\ down[1] \in Message
  BY <1>1
<1>3. down' \in Seq(Message) /\ Len(down') = Len(down) - 1
  BY <1>1
<1>4. \A i \in 1..Len(down') : down'[i] = down[i + 1]
  BY <1>1, <1>3
<1>5. Len(down) = 1 => down' = <<>>
  BY <1>1, <1>3
<1>6. Len(down) # 1 => down' # <<>>
  <2>1. Len(<<>>) = 0
    OBVIOUS
  <2>2. down' = <<>> => Len(down') = 0
    BY <2>1, Zenon
  <2>3. Len(down) # 1 => Len(down') # 0
    BY <1>2, <1>3
  <2>4. QED
    BY <2>2, <2>3, Zenon
<1>7. QED
  BY <1>1, <1>2, <1>3, <1>4, <1>5, <1>6

\* A CryptSetup in the handshake is the last before ServerSync or is followed
\* by it.
LEMMA KeysHandshake ==
  ASSUME KeysInv, HsCryptSetup
  PROVE  KeysInv'
<1> USE DEF KeysInv, KeyTypes
<1> DEFINE cs == Head(down).setup
<1>1. /\ phase = "handshake" /\ Read("CryptSetup")
      /\ UNCHANGED <<budget, phase, offered, udpKeys>>
      /\ \/ fields' = WithServer(fields, cs) /\ agreed' = agreed
         \/ /\ fields' = [WithServer(fields, cs) EXCEPT !.clientNonce = First16(Nonce(cs))]
            /\ agreed' = [agreed EXCEPT !.clientNonce = Nonce(cs)]
  BY DEF HsCryptSetup, udpVars
<1>2. /\ Len(down) \in Nat /\ Len(down) > 0 /\ down[1].type = "CryptSetup"
      /\ down[1] = Head(down) /\ down[1] \in Message
      /\ down' \in Seq(Message) /\ Len(down') = Len(down) - 1
      /\ \A i \in 1..Len(down') : down'[i] = down[i + 1]
      /\ Len(down) = 1 => down' = <<>>
      /\ Len(down) # 1 => down' # <<>>
  BY <1>1, ReadTakes
<1>3. cs \in Told /\ cs = down[1].setup
  BY <1>2, MessageIs
<1> DEFINE w == WithServer(fields, cs)
<1>4. w \in Known /\ OfServer(w) = cs /\ w.clientNonce = fields.clientNonce
  BY <1>3, WithServerIs
<1>5. Nonce(cs) \in [id : Nat, len : Nat] /\ First16(Nonce(cs)) \in [id : Nat, len : Nat]
  BY <1>3 DEF Nonce, Bytes, First16, Told
<1> HIDE DEF cs
<1>6. /\ fields' \in Known /\ agreed' \in Known
      /\ OfServer(fields') = cs /\ OfServer(agreed') = OfServer(agreed)
      /\ fields'.clientNonce = First16(agreed'.clientNonce)
  <2> HIDE DEF w
  <2>1. fields.clientNonce = First16(agreed.clientNonce)
    BY <1>1 DEF NonceInv
  <2>2. CASE fields' = w /\ agreed' = agreed
    BY <1>4, <2>1, <2>2
  <2>3. CASE /\ fields' = [w EXCEPT !.clientNonce = First16(Nonce(cs))]
             /\ agreed' = [agreed EXCEPT !.clientNonce = Nonce(cs)]
    BY <1>4, <1>5, <2>3 DEF Known, OfServer
  <2> QED BY <1>1, <2>2, <2>3 DEF w
<1>7. NonceInv'
  BY <1>1, <1>6 DEF NonceInv
<1>8. ASSUME NEW i \in 1..Len(down'), LastBefore(i)'
      PROVE  down'[i].setup = OfServer(agreed)
  <2>1. i + 1 \in 1..Len(down) /\ down'[i] = down[i + 1]
    BY <1>2
  <2>2. Before(i + 1)
    <3> SUFFICES ASSUME NEW j \in 1..(i + 1) PROVE down[j].type # "ServerSync"
      BY DEF Before
    <3>1. CASE j = 1
      BY <1>2, <3>1
    <3>2. CASE j # 1
      <4>1. j - 1 \in 1..i /\ j - 1 \in 1..Len(down') /\ (j - 1) + 1 = j
        BY <1>2, <3>2
      <4>2. down'[j - 1] = down[j] /\ down'[j - 1].type # "ServerSync"
        BY <1>2, <1>8, <4>1 DEF LastBefore, Before
      <4> QED BY <4>2
    <3> QED BY <3>1, <3>2
  <2>3. i + 1 < Len(down) => down[(i + 1) + 1].type = "ServerSync"
    <3> SUFFICES ASSUME i + 1 < Len(down) PROVE down[(i + 1) + 1].type = "ServerSync"
      OBVIOUS
    <3>1. i < Len(down') /\ i + 1 \in 1..Len(down')
      BY <1>2
    <3> QED BY <1>2, <1>8, <3>1 DEF LastBefore
  <2>4. LastBefore(i + 1)
    BY <2>2, <2>3 DEF LastBefore
  <2> QED BY <1>1, <2>1, <2>4 DEF LatestInv
<1>9. ASSUME down' = <<>> \/ down'[1].type = "ServerSync"
      PROVE  cs = OfServer(agreed)
  <2>1. 1 \in 1..Len(down)
    BY <1>2
  <2>2. 1 < Len(down) => down[1 + 1].type = "ServerSync"
    <3> SUFFICES ASSUME 1 < Len(down) PROVE down[1 + 1].type = "ServerSync"
      OBVIOUS
    <3>1. 1 \in 1..Len(down') /\ down' # <<>>
      BY <1>2
    <3> QED BY <1>2, <1>9, <3>1
  <2>3. LastBefore(1)
    BY <1>2, <2>2 DEF LastBefore, Before
  <2> QED BY <1>1, <1>3, <2>1, <2>3 DEF LatestInv
<1>10. LatestInv'
  BY <1>1, <1>6, <1>8, <1>9 DEF LatestInv, SealedAsAgreed
<1> QED BY <1>1, <1>2, <1>6, <1>7, <1>10

LEMMA KeysClient ==
  ASSUME KeysInv, HsServerSync \/ Setup \/ RtCryptSetup
  PROVE  KeysInv'
<1> USE DEF KeysInv, KeyTypes
<1>1. CASE HsServerSync
  <2>1. /\ phase = "handshake" /\ Read("ServerSync") /\ phase' = "setup"
        /\ UNCHANGED <<budget, offered, agreed, fields, udpKeys>>
    BY <1>1 DEF HsServerSync, udpVars
  <2>2. down[1].type = "ServerSync" /\ down' \in Seq(Message)
    BY <2>1, ReadTakes
  <2>3. NonceInv' /\ LatestInv'
    BY <2>1, <2>2 DEF NonceInv, LatestInv, SealedAsAgreed
  <2> QED BY <2>1, <2>2, <2>3
<1>2. CASE Setup
  <2>1. /\ phase = "setup" /\ phase' = "session"
        /\ \/ /\ udpKeys' = Cut(fields) /\ LongEnough(fields) /\ fields.clientNonce.len >= 16
           \/ udpKeys' = NoKeys \/ udpKeys' = udpKeys
        /\ UNCHANGED <<budget, down, offered, agreed, fields>>
    BY <1>2 DEF Setup, ReceiveLoop, udpVars
  <2>2. /\ fields.clientNonce = First16(agreed.clientNonce) /\ udpKeys = NoKeys
        /\ OfServer(fields) = OfServer(agreed)
    BY <2>1 DEF NonceInv, LatestInv
  <2>3. NonceInv'
    BY <2>1 DEF NonceInv
  <2>4. SealedAsAgreed'
    <3>1. CASE udpKeys' = Cut(fields) /\ LongEnough(fields) /\ fields.clientNonce.len >= 16
      <4>1. Cut(fields) = Cut(agreed) /\ LongEnough(agreed) /\ agreed.clientNonce.len >= 16
        BY <2>2, <3>1, CutIs
      <4> QED BY <2>1, <3>1, <4>1 DEF SealedAsAgreed
    <3>2. CASE udpKeys' = NoKeys
      BY <3>2 DEF SealedAsAgreed
    <3> QED BY <2>1, <2>2, <3>1, <3>2
  <2>5. LatestInv'
    BY <2>1, <2>4 DEF LatestInv
  <2> QED BY <2>1, <2>3, <2>5
<1>3. CASE RtCryptSetup
  <2> DEFINE cs == Head(down).setup
             w == WithServer(fields, cs)
  <2>1. /\ phase = "session" /\ Read("CryptSetup")
        /\ \/ fields' = fields \/ fields' = w
           \/ fields' = [w EXCEPT !.clientNonce = First16(Nonce(cs))]
        /\ UNCHANGED <<budget, phase, offered, agreed, udpKeys>>
    BY <1>3 DEF RtCryptSetup, udpVars
  <2>2. /\ down[1].type = "CryptSetup" /\ down[1] = Head(down) /\ down[1] \in Message
        /\ down' \in Seq(Message)
    BY <2>1, ReadTakes
  <2>3. cs \in Told
    BY <2>2, MessageIs
  <2>4. w \in Known
    BY <2>3, WithServerIs
  <2>5. First16(Nonce(cs)) \in [id : Nat, len : Nat]
    BY <2>3 DEF Nonce, Bytes, First16, Told
  <2> HIDE DEF cs, w
  <2>6. fields' \in Known
    BY <2>1, <2>4, <2>5 DEF Known
  <2>7. NonceInv' /\ LatestInv'
    BY <2>1 DEF NonceInv, LatestInv, SealedAsAgreed
  <2> QED BY <2>1, <2>2, <2>6, <2>7
<1>4. QED
  BY <1>1, <1>2, <1>3

\* The manager keeps the keys it was given.
LEMMA UdpKeepsKeys == UdpNext \/ Receive => UNCHANGED udpKeys
<1>1. LoopNext => UNCHANGED udpKeys
  BY DEF LoopNext, LoopSelect, LoopRead, LoopTimeout, LoopFails, LoopCallback, LoopSends,
         loopUnchanged
<1>2. PingStart \/ PingRead \/ PingTimeout => UNCHANGED udpKeys
  BY DEF PingStart, PingRead, PingTimeout
<1>3. CloseCall \/ CloseReturn => UNCHANGED udpKeys
  BY DEF CloseCall, CloseReturn
<1>4. Receive => UNCHANGED udpKeys
  BY DEF Receive, Arrive
<1>5. QED
  BY <1>1, <1>2, <1>3, <1>4 DEF UdpNext

LEMMA KeysInductive == KeysInv /\ [Next]_vars => KeysInv'
<1> SUFFICES ASSUME KeysInv, [Next]_vars PROVE KeysInv'
  OBVIOUS
<1>1. ASSUME UNCHANGED <<udpKeys, keyVars>> PROVE KeysInv'
  BY <1>1 DEF KeysInv, KeyTypes, NonceInv, LatestInv, LastBefore, Before, SealedAsAgreed, keyVars
<1>2. CASE KeysNext
  BY <1>2, KeysServer, KeysHandshake, KeysClient DEF KeysNext
<1>3. CASE SpeakNext
  BY <1>3, <1>1, SpeakKeeps DEF udpVars
<1>4. CASE (UdpNext \/ Receive) /\ apart
  BY <1>4, <1>1, UdpKeepsKeys DEF apart
<1>5. CASE UNCHANGED vars
  BY <1>5, <1>1 DEF vars, udpVars
<1>6. QED
  BY <1>2, <1>3, <1>4, <1>5 DEF Next

LEMMA KeysStart == Init => KeysInv
<1> SUFFICES ASSUME Init PROVE KeysInv
  OBVIOUS
<1>1. NoBytes \in [id : Nat, len : Nat] /\ First16(NoBytes) = NoBytes
  BY DEF NoBytes, Bytes, First16
<1> HIDE DEF NoBytes
<1>2. KeyTypes /\ NonceInv
  BY <1>1 DEF Init, UdpInit, KeyTypes, NonceInv, NoneYet, Told, Known
<1>3. LatestInv
  BY DEF Init, UdpInit, LatestInv, SealedAsAgreed
<1>4. QED
  BY <1>2, <1>3 DEF KeysInv

\* UDP seals with 16 bytes of each of what was last told in the handshake, for
\* good, whatever keys and nonces the server sends when, of whatever length, and
\* whether or not random numbers can be had.
THEOREM KeysAgree == Spec => []SealedAsAgreed
<1>1. KeysInv => SealedAsAgreed
  BY DEF KeysInv, LatestInv
<1>2. QED
  BY <1>1, KeysStart, KeysInductive, PTL DEF Spec

-----------------------------------------------------------------------------
(* The frames.                                                              *)

\* Where a caller is: at its last steps it has something to send.
Call ==
  {k \in [at : {"idle", "tunnel", "encode", "number", "send"}, frames : Seq(Frame), number : Nat] :
     k.at \in {"number", "send"} => k.frames # <<>>}

FrameTypes ==
  /\ pcmBuffer \in Seq(Frame) /\ spoken \in 0..MaxFrames
  /\ sequence \in Nat /\ elapsed \in Nat
  /\ call \in [Callers -> Call] /\ left \in [Frame -> Nat]

\* What waits to be sent has been spoken and has not left.
Unsent(frames) == \A i \in DOMAIN frames : frames[i] <= spoken /\ left[frames[i]] = 0

\* A frame waits in the buffer or with one caller, once.
Distinct(frames) == \A i, j \in DOMAIN frames : frames[i] = frames[j] => i = j
Apart(one, other) == \A i \in DOMAIN one, j \in DOMAIN other : one[i] # other[j]

FramesInv ==
  /\ FrameTypes
  /\ \A f \in Frame : f > spoken => left[f] = 0
  /\ SpokenOnce
  /\ Unsent(pcmBuffer) /\ Distinct(pcmBuffer)
  /\ \A c \in Callers :
       Unsent(call[c].frames) /\ Distinct(call[c].frames) /\ Apart(pcmBuffer, call[c].frames)
  /\ \A c, d \in Callers : c # d => Apart(call[c].frames, call[d].frames)

LEMMA DivNat == ASSUME NEW n \in Nat PROVE n \div 10 \in Nat
  BY Z3

\* Advance keeps the numbers natural.
LEMMA NumberTypes ==
  ASSUME FrameTypes, NEW c \in Callers, NEW n \in Nat, NEW d \in Gaps, Number(c, n, d)
  PROVE  sequence' \in Nat /\ elapsed' \in Nat
<1>1. elapsed' \in Nat
  BY OutputConstants DEF FrameTypes, Number, Advance
<1>2. elapsed' \div SequenceDuration \in Nat
  BY <1>1, DivNat DEF SequenceDuration
<1>3. n * PerFrame \in Nat
  BY DEF PerFrame, FrameDurationMs, SequenceDuration
<1>4. QED
  BY <1>1, <1>2, <1>3 DEF FrameTypes, Number, Advance

\* A caller comes to hold frames that were in the buffer, which is emptied,
\* or some of those it held already.
LEMMA FramesMove ==
  ASSUME FramesInv, NEW c \in Callers, NEW new \in Call,
         call' = [call EXCEPT ![c] = new], Distinct(new.frames),
         UNCHANGED <<spoken, left>>, sequence' \in Nat, elapsed' \in Nat,
         \/ /\ pcmBuffer' = <<>>
            /\ \A i \in DOMAIN new.frames : \E j \in DOMAIN pcmBuffer :
                 new.frames[i] = pcmBuffer[j]
         \/ /\ UNCHANGED pcmBuffer
            /\ \A i \in DOMAIN new.frames : \E j \in DOMAIN call[c].frames :
                 new.frames[i] = call[c].frames[j]
  PROVE  FramesInv'
<1> USE DEF FramesInv, FrameTypes, Unsent, Distinct, Apart
<1>1. pcmBuffer' \in Seq(Frame)
  <2>1. pcmBuffer' = <<>> \/ pcmBuffer' = pcmBuffer
    OBVIOUS
  <2>2. <<>> \in Seq(Frame)
    OBVIOUS
  <2>3. pcmBuffer \in Seq(Frame)
    BY DEF FramesInv
  <2>4. QED
    BY <2>1, <2>2, <2>3, Zenon
<1>2. FrameTypes'
  BY <1>1
<1>3. SpokenOnce' /\ (\A f \in Frame : f > spoken => left[f] = 0)'
  BY DEF SpokenOnce
<1>4. Unsent(pcmBuffer)' /\ Distinct(pcmBuffer)'
  OBVIOUS
<1>5. call'[c] = new /\ \A d \in Callers \ {c} : call'[d] = call[d]
  OBVIOUS
<1>6. Unsent(new.frames)' /\ (Apart(pcmBuffer, new.frames))'
  OBVIOUS
<1>7. \A d \in Callers : (Unsent(call[d].frames) /\ Distinct(call[d].frames)
                          /\ Apart(pcmBuffer, call[d].frames))'
  BY <1>5, <1>6
<1>8. \A d \in Callers \ {c} : Apart(new.frames, call[d].frames)
                              /\ Apart(call[d].frames, new.frames)
  OBVIOUS
<1>9. (\A d, e \in Callers : d # e => Apart(call[d].frames, call[e].frames))'
  BY <1>5, <1>8
<1>10. QED
  BY <1>2, <1>4, <1>7, <1>9, <1>3

\* Frames leave that were in the buffer, which is emptied, or the first of a
\* caller's leaves, and the caller holds at most some of the others.
LEMMA FramesKind ==
  ASSUME FrameTypes, NEW c \in Callers
  PROVE  /\ call[c].frames \in Seq(Frame)
         /\ \A i \in DOMAIN call[c].frames : call[c].frames[i] \in Frame
  BY DEF FrameTypes, Call

LEMMA FramesLeave ==
  ASSUME FramesInv, NEW c \in Callers, NEW new \in Call, NEW gone \in SUBSET Frame,
         call' = [call EXCEPT ![c] = new], Distinct(new.frames), Left(gone),
         UNCHANGED spoken, sequence' \in Nat, elapsed' \in Nat,
         \/ /\ pcmBuffer' = <<>> /\ new.frames = <<>>
            /\ \A f \in gone : \E j \in DOMAIN pcmBuffer : f = pcmBuffer[j]
         \/ /\ UNCHANGED pcmBuffer
            /\ \A f \in gone : \E j \in DOMAIN call[c].frames : f = call[c].frames[j]
            /\ \A i \in DOMAIN new.frames :
                 /\ new.frames[i] \notin gone
                 /\ \E j \in DOMAIN call[c].frames : new.frames[i] = call[c].frames[j]
  PROVE  FramesInv'
<1> USE DEF FramesInv, FrameTypes, Unsent, Distinct, Apart
<1>1. pcmBuffer' \in Seq(Frame)
  <2>1. pcmBuffer' = <<>> \/ pcmBuffer' = pcmBuffer
    OBVIOUS
  <2>2. <<>> \in Seq(Frame)
    OBVIOUS
  <2>3. pcmBuffer \in Seq(Frame)
    BY DEF FramesInv
  <2>4. QED
    BY <2>1, <2>2, <2>3, Zenon
<1>2. left' \in [Frame -> Nat] /\ \A f \in Frame : left'[f] = IF f \in gone THEN left[f] + 1 ELSE left[f]
  BY DEF Left
<1>3. FrameTypes'
  BY <1>1, <1>2
<1>4. \A f \in gone : f \in Frame /\ f <= spoken /\ left[f] = 0
  OBVIOUS
<1>5. SpokenOnce' /\ (\A f \in Frame : f > spoken => left[f] = 0)'
  BY <1>2, <1>4 DEF SpokenOnce, Frame
<1>6. call'[c] = new /\ \A d \in Callers \ {c} : call'[d] = call[d]
  OBVIOUS
<1>7. \A i \in DOMAIN pcmBuffer' : pcmBuffer'[i] = pcmBuffer[i] /\ pcmBuffer[i] \notin gone
                                  /\ i \in DOMAIN pcmBuffer
  OBVIOUS
<1>8. Unsent(pcmBuffer)' /\ Distinct(pcmBuffer)'
  BY <1>2, <1>7
<1>9. Unsent(new.frames)' /\ (Apart(pcmBuffer, new.frames))'
  <2>1. ASSUME NEW i \in DOMAIN new.frames
        PROVE  /\ new.frames[i] \in Frame \ gone /\ new.frames[i] <= spoken
               /\ left[new.frames[i]] = 0
               /\ \A j \in DOMAIN pcmBuffer' : pcmBuffer'[j] # new.frames[i]
    <3>1. new.frames # <<>>
      BY <2>1
    <3>2. UNCHANGED pcmBuffer /\ new.frames[i] \notin gone
      BY <3>1
    <3>3. PICK j \in DOMAIN call[c].frames : new.frames[i] = call[c].frames[j]
      BY <3>1
    <3>4. call[c].frames[j] \in Frame
      BY <3>3, FramesKind
    <3>5. QED
      BY <3>2, <3>3, <3>4
  <2>2. QED
    BY <1>2, <2>1
<1>10. ASSUME NEW d \in Callers \ {c}
       PROVE  /\ Unsent(call[d].frames)' /\ Distinct(call[d].frames)'
              /\ Apart(pcmBuffer, call[d].frames)'
              /\ Apart(new.frames, call[d].frames) /\ Apart(call[d].frames, new.frames)
  <2>1. ASSUME NEW i \in DOMAIN call[d].frames
        PROVE  call[d].frames[i] \in Frame \ gone
    <3>1. call[d].frames[i] \in Frame
      BY FramesKind
    <3>2. \A j \in DOMAIN pcmBuffer : pcmBuffer[j] # call[d].frames[i]
      OBVIOUS
    <3>3. \A j \in DOMAIN call[c].frames : call[c].frames[j] # call[d].frames[i]
      OBVIOUS
    <3>4. \A f \in gone :
            \/ \E j \in DOMAIN pcmBuffer : f = pcmBuffer[j]
            \/ \E j \in DOMAIN call[c].frames : f = call[c].frames[j]
      OBVIOUS
    <3>5. QED
      BY <3>1, <3>2, <3>3, <3>4
  <2>2. call'[d] = call[d]
    BY <1>6
  <2>3. Unsent(call[d].frames)' /\ Distinct(call[d].frames)'
    BY <1>2, <2>1, <2>2
  <2>4. Apart(pcmBuffer, call[d].frames)'
    BY <1>7, <2>2
  <2>5. Apart(new.frames, call[d].frames) /\ Apart(call[d].frames, new.frames)
    <3>1. ASSUME NEW i \in DOMAIN new.frames, NEW k \in DOMAIN call[d].frames
          PROVE  new.frames[i] # call[d].frames[k]
      <4>1. PICK j \in DOMAIN call[c].frames : new.frames[i] = call[c].frames[j]
        OBVIOUS
      <4>2. QED
        BY <4>1
    <3>2. QED
      BY <3>1
  <2>6. QED
    BY <2>3, <2>4, <2>5
<1>11. \A d \in Callers : (Unsent(call[d].frames) /\ Distinct(call[d].frames)
                          /\ Apart(pcmBuffer, call[d].frames))'
  BY <1>6, <1>9, <1>10
<1>12. (\A d, e \in Callers : d # e => Apart(call[d].frames, call[e].frames))'
  BY <1>6, <1>10
<1>13. QED
  BY <1>3, <1>5, <1>8, <1>11, <1>12

\* Two places counted from the same one are the same if they come to the same.
LEMMA SameSum ==
  ASSUME NEW a \in Nat, NEW b \in Nat, NEW i \in Nat, NEW j \in Nat, a + (i - b) = a + (j - b)
  PROVE  i = j
  OBVIOUS

\* Speak puts new frames behind those that wait.
LEMMA FramesSpeak ==
  ASSUME FramesInv, NEW c \in Callers, NEW n \in 0..MaxFrames, NEW at \in {"tunnel", "encode"},
         Speak(c, n, at)
  PROVE  FramesInv'
<1> USE DEF FramesInv, FrameTypes, Unsent, Distinct, Apart
<1> DEFINE new == [at |-> at, frames |-> <<>>, number |-> 0]
<1>1. /\ spoken' = spoken + n /\ spoken' \in 0..MaxFrames
      /\ pcmBuffer' = pcmBuffer \o [i \in 1..n |-> spoken + i]
      /\ call' = [call EXCEPT ![c] = new]
      /\ UNCHANGED <<sequence, elapsed, left>>
  BY OutputConstants DEF Speak, AddPCM, Step, clockVars
<1>2. [i \in 1..n |-> spoken + i] \in Seq(Frame) /\ Len([i \in 1..n |-> spoken + i]) = n
  BY <1>1, OutputConstants DEF Frame
<1>3. /\ pcmBuffer' \in Seq(Frame) /\ Len(pcmBuffer') = Len(pcmBuffer) + n
      /\ \A i \in 1..Len(pcmBuffer) : pcmBuffer'[i] = pcmBuffer[i]
      /\ \A i \in 1..Len(pcmBuffer') : i > Len(pcmBuffer) =>
           pcmBuffer'[i] = spoken + (i - Len(pcmBuffer))
  BY <1>1, <1>2, ConcatProperties
<1>4. DOMAIN pcmBuffer = 1..Len(pcmBuffer) /\ DOMAIN pcmBuffer' = 1..Len(pcmBuffer')
  BY <1>3
<1>5. \A i \in DOMAIN pcmBuffer' :
        \/ i \in DOMAIN pcmBuffer /\ pcmBuffer'[i] = pcmBuffer[i]
        \/ pcmBuffer'[i] > spoken /\ i \notin DOMAIN pcmBuffer
  <2>1. spoken \in Nat
    BY OutputConstants
  <2>2. ASSUME NEW i \in DOMAIN pcmBuffer', i \notin DOMAIN pcmBuffer
        PROVE  pcmBuffer'[i] > spoken
    <3>1. i \in Nat /\ Len(pcmBuffer) \in Nat /\ i > Len(pcmBuffer)
      BY <1>3, <1>4, <2>2
    <3>2. pcmBuffer'[i] = spoken + (i - Len(pcmBuffer))
      BY <1>3, <1>4, <3>1
    <3>3. QED
      BY <2>1, <3>1, <3>2
  <2>3. \A i \in DOMAIN pcmBuffer : i \in DOMAIN pcmBuffer' => pcmBuffer'[i] = pcmBuffer[i]
    BY <1>3, <1>4
  <2>4. ASSUME NEW i \in DOMAIN pcmBuffer'
        PROVE  \/ i \in DOMAIN pcmBuffer /\ pcmBuffer'[i] = pcmBuffer[i]
               \/ pcmBuffer'[i] > spoken /\ i \notin DOMAIN pcmBuffer
    <3>1. CASE i \in DOMAIN pcmBuffer
      BY <2>3, <3>1
    <3>2. CASE i \notin DOMAIN pcmBuffer
      BY <2>2, <3>2
    <3>3. QED
      BY <3>1, <3>2
  <2>5. QED
    BY <2>4
<1>5a. spoken \in Nat
  BY OutputConstants
<1>6. new \in Call
  BY DEF Call
<1>7. call' \in [Callers -> Call] /\ FrameTypes'
  BY <1>1, <1>3, <1>6, OutputConstants
<1>8. (\A f \in Frame : f > spoken => left[f] = 0)' /\ SpokenOnce'
  BY <1>1, OutputConstants DEF Frame, SpokenOnce
<1>9. Distinct(pcmBuffer)'
  <2>1. ASSUME NEW i \in DOMAIN pcmBuffer', NEW j \in DOMAIN pcmBuffer',
               pcmBuffer'[i] = pcmBuffer'[j]
        PROVE  i = j
    <3>1. CASE i \in DOMAIN pcmBuffer /\ j \in DOMAIN pcmBuffer
      BY <2>1, <3>1, <1>5
    <3>2. CASE i \notin DOMAIN pcmBuffer /\ j \notin DOMAIN pcmBuffer
      <4> HIDE DEF FramesInv, FrameTypes, Unsent, Distinct, Apart
      <4>1. /\ i \in 1..Len(pcmBuffer') /\ i > Len(pcmBuffer)
            /\ j \in 1..Len(pcmBuffer') /\ j > Len(pcmBuffer)
            /\ Len(pcmBuffer) \in Nat /\ i \in Nat /\ j \in Nat
        BY <3>2, <1>3, <1>4
      <4>2. pcmBuffer'[i] = spoken + (i - Len(pcmBuffer))
        BY <4>1, <1>3
      <4>3. pcmBuffer'[j] = spoken + (j - Len(pcmBuffer))
        BY <4>1, <1>3
      <4>4. spoken \in Nat
        BY <1>5a
      <4>5. spoken + (i - Len(pcmBuffer)) = spoken + (j - Len(pcmBuffer))
        BY <2>1, <4>2, <4>3, Zenon
      <4>6. QED
        BY <4>1, <4>4, <4>5, SameSum, Zenon
    <3>3. CASE i \in DOMAIN pcmBuffer <=> j \notin DOMAIN pcmBuffer
      <4>1. \A k \in DOMAIN pcmBuffer : pcmBuffer[k] <= spoken /\ pcmBuffer[k] \in Frame
        OBVIOUS
      <4>2. pcmBuffer'[i] \in Nat /\ spoken \in Nat
        BY <1>3, <1>4, OutputConstants DEF Frame
      <4>3. QED
        BY <2>1, <3>3, <1>5, <4>1, <4>2
    <3>4. QED
      BY <3>1, <3>2, <3>3
  <2>2. QED
    BY <2>1
<1>10. Unsent(pcmBuffer)'
  <2>1. ASSUME NEW i \in DOMAIN pcmBuffer'
        PROVE  pcmBuffer'[i] <= spoken' /\ left'[pcmBuffer'[i]] = 0
    <3>1. CASE i \in DOMAIN pcmBuffer
      BY <3>1, <1>1, <1>3, <1>4, OutputConstants DEF Frame
    <3>2. CASE i \notin DOMAIN pcmBuffer
      <4>1. pcmBuffer'[i] > spoken /\ pcmBuffer'[i] \in Frame
        BY <3>2, <1>3, <1>4, <1>5
      <4>2. i - Len(pcmBuffer) <= n /\ pcmBuffer'[i] = spoken + (i - Len(pcmBuffer))
        BY <3>2, <1>3, <1>4, OutputConstants
      <4>3. QED
        BY <1>1, <1>4, <4>1, <4>2, OutputConstants
    <3>3. QED
      BY <3>1, <3>2
  <2>2. QED
    BY <2>1
<1>11. \A d \in Callers : call'[d].frames = <<>> \/ call'[d] = call[d]
  BY <1>1
<1>12. ASSUME NEW d \in Callers
       PROVE  Unsent(call[d].frames)' /\ Distinct(call[d].frames)' /\ Apart(pcmBuffer, call[d].frames)'
  <2>1. CASE call'[d].frames = <<>>
    BY <2>1
  <2>2. CASE call'[d] = call[d]
    <3>1. \A i \in DOMAIN call[d].frames : call[d].frames[i] \in Frame /\ call[d].frames[i] <= spoken
      BY FramesKind
    <3>2. Unsent(call[d].frames)' /\ Distinct(call[d].frames)'
      BY <2>2, <3>1, <1>1 DEF Frame
    <3>3. Apart(pcmBuffer, call[d].frames)'
      BY <2>2, <3>1, <1>5 DEF Frame
    <3>4. QED
      BY <3>2, <3>3
  <2>3. QED
    BY <1>11, <2>1, <2>2
<1>13. (\A d, e \in Callers : d # e => Apart(call[d].frames, call[e].frames))'
  BY <1>11
<1>14. QED
  BY <1>7, <1>8, <1>9, <1>10, <1>12, <1>13

\* A caller with nothing to send.
LEMMA IdleCall ==
  Idle \in Call /\ Idle.frames = <<>> /\ Distinct(Idle.frames) /\ DOMAIN Idle.frames = {}
  BY DEF Idle, Call, Distinct

\* What is encoded are frames of the buffer, each once.
LEMMA PicksAreFrames ==
  ASSUME FramesInv, NEW ok \in Picks
  PROVE  LET coded == Encoded(pcmBuffer, ok) IN
         /\ coded \in Seq(Frame) /\ Distinct(coded)
         /\ \A i \in DOMAIN coded : \E j \in DOMAIN pcmBuffer : coded[i] = pcmBuffer[j]
<1> USE DEF FramesInv, FrameTypes
<1>1. PICK m \in 0..Len(pcmBuffer) :
        /\ ok \in [1..m -> 1..Len(pcmBuffer)]
        /\ \A i, j \in 1..m : i < j => ok[i] < ok[j]
  BY DEF Picks
<1>2. DOMAIN pcmBuffer = 1..Len(pcmBuffer) /\ \A j \in 1..Len(pcmBuffer) : pcmBuffer[j] \in Frame
  OBVIOUS
<1> DEFINE coded == Encoded(pcmBuffer, ok)
<1>3. coded = [i \in 1..m |-> pcmBuffer[ok[i]]]
  BY <1>1 DEF Encoded
<1>4. coded \in Seq(Frame)
  BY <1>1, <1>2, <1>3
<1>5. \A i \in DOMAIN coded : \E j \in DOMAIN pcmBuffer : coded[i] = pcmBuffer[j]
  BY <1>1, <1>2, <1>3
<1>6. Distinct(coded)
  <2>1. ASSUME NEW i \in 1..m, NEW j \in 1..m, coded[i] = coded[j]
        PROVE  i = j
    <3>1. ok[i] = ok[j]
      BY <1>1, <1>2, <1>3, <2>1 DEF Distinct
    <3>2. ~(i < j) /\ ~(j < i)
      BY <1>1, <3>1
    <3>3. QED
      BY <3>2
  <2>2. DOMAIN coded = 1..m
    BY <1>3
  <2>3. QED
    BY <2>1, <2>2 DEF Distinct
<1>7. QED
  BY <1>4, <1>5, <1>6

\* What the listener hears are encoded frames.
LEMMA HeardIsEncoded ==
  ASSUME FramesInv, NEW ok \in Picks, NEW seq
  PROVE  LET heard == Heard(Packet(seq, pcmBuffer, ok)) IN
         \A i \in DOMAIN heard : \E j \in DOMAIN pcmBuffer : heard[i].frame = pcmBuffer[j]
<1> DEFINE coded  == Encoded(pcmBuffer, ok)
           packet == Packet(seq, pcmBuffer, ok)
           heard  == Heard(packet)
<1>1. coded \in Seq(Frame)
      /\ \A i \in DOMAIN coded : \E j \in DOMAIN pcmBuffer : coded[i] = pcmBuffer[j]
  BY PicksAreFrames
<1>2. packet.frames = [i \in 1..Len(coded) |->
                         [frame |-> coded[i], terminator |-> Terminator(pcmBuffer, coded[i])]]
  BY DEF Packet
<1>3. /\ Len(coded) \in Nat /\ DOMAIN coded = 1..Len(coded) /\ Len(packet.frames) = Len(coded)
      /\ \A i \in 1..Len(coded) : packet.frames[i].frame = coded[i]
  <2> HIDE DEF coded, packet
  <2>1. Len(coded) \in Nat /\ DOMAIN coded = 1..Len(coded)
    BY <1>1
  <2>2. QED
    BY <2>1, <1>2
<1>4. /\ DOMAIN heard \subseteq 1..Len(packet.frames)
      /\ \A i \in DOMAIN heard : heard[i].frame = packet.frames[i].frame
  <2> HIDE DEF packet
  <2>1. QED
    BY DEF Heard
<1>5. \A i \in DOMAIN heard : \E j \in DOMAIN pcmBuffer : heard[i].frame = pcmBuffer[j]
  <2> HIDE DEF coded, packet, heard
  <2>1. QED
    BY <1>1, <1>3, <1>4
<1>6. QED
  BY <1>5

LEMMA FramesTunnel ==
  ASSUME FramesInv, NEW c \in Callers, NEW ok \in Picks, NEW d \in Gaps, SendTunnel(c, ok, d)
  PROVE  FramesInv'
<1> DEFINE heard == Heard(Packet(sequence', pcmBuffer, ok))
<1>1. Len(pcmBuffer) \in Nat
  BY DEF FramesInv, FrameTypes
<1>2. sequence' \in Nat /\ elapsed' \in Nat
  BY <1>1, NumberTypes DEF SendTunnel, FramesInv
<1>3. call' = [call EXCEPT ![c] = Idle] /\ UNCHANGED spoken
  BY DEF SendTunnel, Return
<1>4. CASE UNCHANGED <<pcmBuffer, left>>
  BY <1>2, <1>3, <1>4, IdleCall, FramesMove
<1>5. CASE pcmBuffer' = <<>> /\ Left({heard[i].frame : i \in DOMAIN heard})
  <2> DEFINE gone == {heard[i].frame : i \in DOMAIN heard}
  <2>1. \A f \in gone : \E j \in DOMAIN pcmBuffer : f = pcmBuffer[j]
    BY HeardIsEncoded
  <2>2. gone \in SUBSET Frame
    <3>1. \A j \in DOMAIN pcmBuffer : pcmBuffer[j] \in Frame
      BY DEF FramesInv, FrameTypes
    <3>2. QED
      BY <2>1, <3>1, Zenon
  <2>3. Left(gone)
    BY <1>5
  <2> HIDE DEF gone
  <2>4. QED
    BY <1>2, <1>3, <1>5, <2>1, <2>2, <2>3, IdleCall, FramesLeave
<1>6. QED
  BY <1>4, <1>5 DEF SendTunnel

LEMMA FramesEncode ==
  ASSUME FramesInv, NEW c \in Callers, NEW ok \in Picks, Encode(c, ok)
  PROVE  FramesInv'
<1> DEFINE coded == Encoded(pcmBuffer, ok)
           new   == IF coded = <<>> THEN Idle ELSE [at |-> "number", frames |-> coded, number |-> 0]
<1>1. /\ coded \in Seq(Frame) /\ Distinct(coded)
      /\ \A i \in DOMAIN coded : \E j \in DOMAIN pcmBuffer : coded[i] = pcmBuffer[j]
  BY PicksAreFrames
<1>2. call' = [call EXCEPT ![c] = new] /\ pcmBuffer' = <<>>
      /\ UNCHANGED <<spoken, left, sequence, elapsed>>
  BY DEF Encode, EncodeFrames, Step, Return, clockVars
<1>3. new \in Call /\ new.frames = coded
  BY <1>1 DEF Idle, Call
<1>4. sequence' \in Nat /\ elapsed' \in Nat
  BY <1>2 DEF FramesInv, FrameTypes
<1> HIDE DEF new, coded
<1>5. QED
  BY <1>1, <1>2, <1>3, <1>4, FramesMove

LEMMA FramesNumber ==
  ASSUME FramesInv, NEW c \in Callers, NEW d \in Gaps, AdvanceSequence(c, d)
  PROVE  FramesInv'
<1> DEFINE new == [at |-> "send", frames |-> call[c].frames, number |-> sequence']
<1>1. call[c].frames \in Seq(Frame) /\ Len(call[c].frames) \in Nat
  BY FramesKind DEF FramesInv
<1>2. sequence' \in Nat /\ elapsed' \in Nat
  BY <1>1, NumberTypes DEF AdvanceSequence, FramesInv
<1>3. call' = [call EXCEPT ![c] = new] /\ UNCHANGED <<pcmBuffer, spoken, left>>
  BY DEF AdvanceSequence, Step
<1>4. new \in Call /\ new.frames = call[c].frames
  BY <1>1, <1>2 DEF AdvanceSequence, FramesInv, FrameTypes, Call
<1>5. Distinct(new.frames)
  BY <1>4 DEF FramesInv
<1> HIDE DEF new
<1>6. QED
  BY <1>2, <1>3, <1>4, <1>5, FramesMove

LEMMA FramesFrame ==
  ASSUME FramesInv, NEW c \in Callers, SendFrame(c)
  PROVE  FramesInv'
<1> DEFINE frames == call[c].frames
           rest   == Tail(frames)
           new    == IF rest = <<>> THEN Idle
                     ELSE [at |-> "send", frames |-> rest, number |-> call[c].number + PerFrame]
<1>1. frames \in Seq(Frame) /\ frames # <<>> /\ call[c].number \in Nat
  BY FramesKind DEF SendFrame, FramesInv, FrameTypes, Call
<1>2. /\ rest \in Seq(Frame) /\ Len(frames) > 0 /\ Head(frames) = frames[1]
      /\ DOMAIN frames = 1..Len(frames) /\ DOMAIN rest = 1..(Len(frames) - 1)
      /\ \A i \in DOMAIN rest : i + 1 \in DOMAIN frames /\ i + 1 # 1 /\ rest[i] = frames[i + 1]
  BY <1>1
<1>3. Distinct(frames)
  BY DEF FramesInv
<1>4. Distinct(rest)
  BY <1>2, <1>3 DEF Distinct
<1>5. new \in Call /\ new.frames = rest
  <2>1. call[c].number + PerFrame \in Nat
    BY <1>1 DEF PerFrame, FrameDurationMs, SequenceDuration
  <2> HIDE DEF rest
  <2>2. CASE rest = <<>>
    BY <2>2, IdleCall
  <2>3. CASE rest # <<>>
    BY <2>1, <2>3, <1>2 DEF Call
  <2>4. QED
    BY <2>2, <2>3
<1>6. UNCHANGED <<pcmBuffer, spoken, sequence, elapsed>> /\ sequence' \in Nat /\ elapsed' \in Nat
  BY DEF SendFrame, outputVars, FramesInv, FrameTypes
<1>7. CASE Left({Head(frames)}) /\ call' = [call EXCEPT ![c] = new]
  <2>1. Head(frames) \in Frame /\ \E j \in DOMAIN frames : Head(frames) = frames[j]
    BY <1>1, <1>2
  <2>2. \A i \in DOMAIN rest : /\ rest[i] \notin {Head(frames)}
                              /\ \E j \in DOMAIN frames : rest[i] = frames[j]
    BY <1>2, <1>3 DEF Distinct
  <2>3. {Head(frames)} \in SUBSET Frame
    BY <2>1
  <2> HIDE DEF new, rest
  <2>4. QED
    BY <1>4, <1>5, <1>6, <1>7, <2>1, <2>2, <2>3, FramesLeave
<1>8. CASE UNCHANGED left /\ call' = [call EXCEPT ![c] = Idle]
  BY <1>6, <1>8, IdleCall, FramesMove
<1>9. QED
  BY <1>7, <1>8 DEF SendFrame, Step, Return

LEMMA FramesOthers ==
  ASSUME FramesInv,
         \/ \E c \in Callers : SendNothing(c)
         \/ ClearBuffer /\ UNCHANGED sendVars
         \/ UNCHANGED <<outputVars, sendVars>>
  PROVE  FramesInv'
<1>1. ASSUME NEW c \in Callers, SendNothing(c) PROVE FramesInv'
  <2>1. /\ call' = [call EXCEPT ![c] = Idle] /\ sequence' \in Nat /\ elapsed' \in Nat
        /\ UNCHANGED <<pcmBuffer, spoken, left>>
    BY <1>1 DEF SendNothing, Return, outputVars, FramesInv, FrameTypes
  <2>2. QED
    BY <2>1, IdleCall, FramesMove
<1>2. CASE ClearBuffer /\ UNCHANGED sendVars
  <2>1. pcmBuffer' = <<>> /\ UNCHANGED <<spoken, sequence, elapsed, call, left>>
    BY <1>2 DEF ClearBuffer, clockVars, sendVars
  <2>2. <<>> \in Seq(Frame) /\ DOMAIN <<>> = {}
    OBVIOUS
  <2>3. FrameTypes'
    BY <2>1, <2>2 DEF FramesInv, FrameTypes
  <2>4. QED
    BY <2>1, <2>2, <2>3 DEF FramesInv, FrameTypes, SpokenOnce, Unsent, Distinct, Apart
<1>3. CASE UNCHANGED <<outputVars, sendVars>>
  <2>1. UNCHANGED <<pcmBuffer, spoken, sequence, elapsed, call, left>>
    BY <1>3 DEF outputVars, sendVars
  <2>2. QED
    BY <2>1 DEF FramesInv, FrameTypes, SpokenOnce, Unsent, Distinct, Apart
<1>4. QED
  BY <1>1, <1>2, <1>3

LEMMA KeysKeepFrames == KeysNext => UNCHANGED <<outputVars, sendVars>>
<1> SUFFICES ASSUME KeysNext PROVE UNCHANGED <<outputVars, sendVars>>
  OBVIOUS
<1>1. ASSUME NEW size, SrvCryptSetup(size) PROVE UNCHANGED <<outputVars, sendVars>>
  BY <1>1 DEF SrvCryptSetup
<1>2. SrvSync \/ HsServerSync \/ HsCryptSetup => UNCHANGED <<outputVars, sendVars>>
  BY DEF SrvSync, HsServerSync, HsCryptSetup
<1>3. Setup \/ RtCryptSetup => UNCHANGED <<outputVars, sendVars>>
  BY DEF Setup, RtCryptSetup
<1>4. QED
  BY <1>1, <1>2, <1>3, Zenon DEF KeysNext

LEMMA FramesInductive == KeysInv /\ FramesInv /\ [Next]_vars => FramesInv'
<1> SUFFICES ASSUME KeysInv, FramesInv, [Next]_vars PROVE FramesInv'
  OBVIOUS
<1>1. budget.callers \subseteq Callers
  BY VoiceConstants DEF KeysInv, KeyTypes, Budget
<1>2. ASSUME NEW c \in budget.callers,
             \/ \E n \in 0..MaxFrames, at \in {"tunnel", "encode"} : Speak(c, n, at)
             \/ \E ok \in Picks : Encode(c, ok)
             \/ \E ok \in Picks, d \in Gaps : SendTunnel(c, ok, d)
             \/ \E d \in Gaps : AdvanceSequence(c, d)
             \/ SendNothing(c) \/ SendFrame(c)
      PROVE  FramesInv'
  <2>1. c \in Callers
    BY <1>1
  <2>2. QED
    BY <1>2, <2>1, FramesSpeak, FramesEncode, FramesTunnel, FramesNumber, FramesFrame,
       FramesOthers
<1>3. CASE SpeakNext
  BY <1>2, <1>3, FramesOthers DEF SpeakNext
<1>4. CASE KeysNext
  BY <1>4, KeysKeepFrames, FramesOthers
<1>5. CASE apart \/ UNCHANGED vars
  BY <1>5, FramesOthers DEF apart, vars
<1>6. QED
  BY <1>3, <1>4, <1>5 DEF Next

LEMMA VoiceInit == Init => KeysInv /\ FramesInv
<1> SUFFICES ASSUME Init PROVE KeysInv /\ FramesInv
  OBVIOUS
<1>1. KeysInv
  BY KeysStart
<1>2. /\ pcmBuffer = <<>> /\ spoken = 0 /\ sequence = 0 /\ elapsed = 0
      /\ call = [c \in Callers |-> Idle] /\ left = [f \in Frame |-> 0]
  BY DEF Init, OutputInit
<1>3. <<>> \in Seq(Frame) /\ DOMAIN <<>> = {}
  OBVIOUS
<1>4. FrameTypes
  BY <1>2, <1>3, IdleCall, OutputConstants DEF FrameTypes
<1>5. FramesInv
  BY <1>2, <1>3, <1>4, IdleCall DEF FramesInv, SpokenOnce, Unsent, Distinct, Apart
<1>6. QED
  BY <1>1, <1>5

\* No frame leaves twice, by UDP, in the tunnel or for two callers, however
\* many goroutines speak and whatever fails.
THEOREM FramesLeaveOnce == Spec => []SpokenOnce
<1>1. FramesInv => SpokenOnce
  BY DEF FramesInv
<1>2. QED
  BY <1>1, VoiceInit, KeysInductive, FramesInductive, PTL DEF Spec

-----------------------------------------------------------------------------
(* The numbers.                                                             *)

\* As long as one goroutine speaks, on pace: the numbers are not ahead of the
\* clock; those of the last batch are the highest that have left; and what a
\* caller has still to send follows what has left and belongs to that batch.
GrowInv ==
  /\ live \in BOOLEAN
  /\ live =>
       /\ batch \in Nat /\ started \in BOOLEAN /\ air.last \in Int
       /\ 10 * sequence <= elapsed
       /\ started => batch >= 1 /\ air.last <= sequence + 2 * (batch - 1)
       /\ ~started => air.last = -1 /\ \A c \in Callers : call[c].at # "send"
       /\ \A c \in Callers : call[c].at = "send" =>
            /\ air.last < call[c].number
            /\ call[c].number + 2 * (Len(call[c].frames) - 1) <= sequence + 2 * (batch - 1)
       /\ \A c, d \in Callers : call[c].at = "send" /\ call[d].at = "send" => c = d

LEMMA DivTen ==
  ASSUME NEW n \in Nat
  PROVE  n \div 10 \in Nat /\ 10 * (n \div 10) <= n /\ n < 10 * (n \div 10) + 10
  BY Z3

LEMMA PaceGrows ==
  ASSUME NEW s \in Nat, NEW e \in Nat, NEW b \in Nat, NEW a \in Int, NEW n \in Nat, NEW d \in Nat,
         NEW t \in Nat, 10 * s <= e, n >= b, d >= 20 * n, a <= s + 2 * (b - 1),
         e + d < 10 * t + 10
  PROVE  a < t
  OBVIOUS

\* A batch on pace gets numbers behind all that have left, unless they start
\* again, and none that the clock has not reached.
LEMMA NumberFollows ==
  ASSUME FramesInv, GrowInv, NEW c \in Callers, NEW n \in Nat, n >= 1, NEW d \in Gaps,
         Number(c, n, d), live', call[c].at # "send"
  PROVE  /\ live /\ started' = TRUE /\ batch' = n /\ \A o \in Callers : call[o].at # "send"
         /\ sequence' \in Nat /\ elapsed' \in Nat /\ 10 * sequence' <= elapsed'
         /\ air.last < sequence' \/ (sequence' = 0 /\ elapsed' = 0)
<1>1. /\ live /\ OnPace(n, d) /\ \A o \in Callers \ {c} : call[o] = Idle
      /\ started' = TRUE /\ batch' = n
  BY DEF Number, Advance, GrowInv
<1>2. sequence' \in Nat /\ elapsed' \in Nat
  BY NumberTypes DEF FramesInv
<1>3. \A o \in Callers : call[o].at # "send"
  BY <1>1 DEF Idle
<1>4. /\ sequence \in Nat /\ elapsed \in Nat /\ batch \in Nat /\ air.last \in Int
      /\ d \in Nat /\ 10 * sequence <= elapsed
  BY <1>1, OutputConstants DEF FramesInv, FrameTypes, GrowInv
<1>5. /\ 10 * sequence' <= elapsed'
      /\ air.last < sequence' \/ (sequence' = 0 /\ elapsed' = 0)
  <2>1. CASE ~started \/ d > LongPause
    <3>1. sequence' = 0 /\ elapsed' = 0
      BY <2>1 DEF Number, Advance
    <3>2. QED
      BY <3>1
  <2>2. CASE started /\ ~(d > LongPause)
    <3>1. n >= batch /\ d >= 20 * n /\ elapsed' = elapsed + d
      BY <1>1, <1>4, <2>2 DEF OnPace, Number, Advance, FrameDurationMs
    <3>2. batch >= 1 /\ air.last <= sequence + 2 * (batch - 1)
      BY <1>1, <2>2 DEF GrowInv
    <3>3. CASE d > 40
      <4>1. sequence' = elapsed' \div 10
        BY <2>2, <3>3 DEF Number, Advance, FrameDurationMs, SequenceDuration
      <4>2. 10 * sequence' <= elapsed' /\ elapsed + d < 10 * sequence' + 10
        BY <1>2, <3>1, <4>1, DivTen
      <4>3. air.last < sequence'
        BY <1>2, <1>4, <3>1, <3>2, <4>2, PaceGrows
      <4>4. QED
        BY <4>2, <4>3
    <3>4. CASE ~(d > 40)
      <4>1. sequence' = sequence + n * 2
        BY <2>2, <3>4 DEF Number, Advance, FrameDurationMs, SequenceDuration, PerFrame
      <4>2. 10 * sequence' <= elapsed' /\ air.last < sequence'
        BY <1>4, <3>1, <3>2, <4>1
      <4>3. QED
        BY <4>2
    <3>5. QED
      BY <3>3, <3>4
  <2>3. QED
    BY <2>1, <2>2
<1>6. QED
  BY <1>1, <1>2, <1>3, <1>5, Zenon

\* The terminator is on the last frame at most, so all are heard, each two
\* numbers after the one before.
LEMMA HeardNumbers ==
  ASSUME FramesInv, NEW ok \in Picks, NEW seq \in Nat
  PROVE  LET heard == Heard(Packet(seq, pcmBuffer, ok)) IN
         heard # <<>> => /\ Len(heard) \in 1..Len(pcmBuffer) /\ heard[1].number = seq
                         /\ heard[Len(heard)].number = seq + 2 * (Len(heard) - 1)
<1> DEFINE coded  == Encoded(pcmBuffer, ok)
           packet == Packet(seq, pcmBuffer, ok)
           heard  == Heard(packet)
<1>1. PICK m \in 0..Len(pcmBuffer) :
        /\ ok \in [1..m -> 1..Len(pcmBuffer)]
        /\ \A i, j \in 1..m : i < j => ok[i] < ok[j]
  BY DEF Picks
<1>2. /\ pcmBuffer \in Seq(Frame) /\ Len(pcmBuffer) \in Nat /\ m \in Nat
      /\ \A i, j \in 1..Len(pcmBuffer) : pcmBuffer[i] = pcmBuffer[j] => i = j
  BY DEF FramesInv, FrameTypes, Distinct
<1>3. coded = [i \in 1..m |-> pcmBuffer[ok[i]]]
  BY <1>1 DEF Encoded
<1>4. Len(coded) = m
  BY <1>2, <1>3
<1>5. ASSUME NEW i \in 1..m, i < m PROVE ~Terminator(pcmBuffer, coded[i])
  <2>1. ok[i] < ok[m] /\ ok[i] \in 1..Len(pcmBuffer) /\ ok[m] \in 1..Len(pcmBuffer)
    BY <1>1, <1>2, <1>5
  <2>2. ok[i] # Len(pcmBuffer) /\ Len(pcmBuffer) \in 1..Len(pcmBuffer)
    BY <1>2, <2>1
  <2>3. pcmBuffer[ok[i]] # pcmBuffer[Len(pcmBuffer)]
    BY <1>2, <2>1, <2>2
  <2>4. QED
    BY <1>3, <2>3 DEF Terminator
<1>6. packet.sequence = seq
      /\ packet.frames = [i \in 1..m |->
                           [frame |-> coded[i], terminator |-> Terminator(pcmBuffer, coded[i])]]
  BY <1>4 DEF Packet
<1>7. Len(packet.frames) = m /\ \A i \in 1..m : i < m => ~packet.frames[i].terminator
  <2> HIDE DEF packet, coded
  <2>1. QED
    BY <1>2, <1>5, <1>6
<1>8. heard = [i \in 1..m |-> [frame |-> packet.frames[i].frame,
                               number |-> seq + (i - 1) * PerFrame]]
  <2>1. {j \in 1..m : {k \in 1..(j - 1) : packet.frames[k].terminator} = {}} = 1..m
    <3> HIDE DEF packet
    <3>1. \A j \in 1..m : \A k \in 1..(j - 1) : k \in 1..m /\ k < m
      BY <1>2
    <3>2. QED
      BY <1>7, <3>1
  <2> HIDE DEF packet
  <2>2. QED
    BY <1>6, <1>7, <2>1 DEF Heard
<1>9. heard # <<>> => m # 0
  <2>1. m = 0 => heard = <<>>
    BY <1>8
  <2>2. QED
    BY <2>1
<1>10. Len(heard) = m /\ \A i \in 1..m : heard[i].number = seq + (i - 1) * 2
  <2> HIDE DEF heard, packet
  <2>1. QED
    BY <1>2, <1>8 DEF PerFrame, FrameDurationMs, SequenceDuration
<1>11. QED
  <2> HIDE DEF heard
  <2>1. heard # <<>> => /\ Len(heard) \in 1..Len(pcmBuffer) /\ heard[1].number = seq
                        /\ heard[Len(heard)].number = seq + 2 * (Len(heard) - 1)
    BY <1>2, <1>9, <1>10
  <2>2. QED
    BY <2>1 DEF heard

\* The step of NumbersGrow.
Grows ==
  left' # left /\ live' => \/ air'.first > air.last
                           \/ air'.first = 0 /\ elapsed' = 0

LEMMA GrowTunnel ==
  ASSUME FramesInv, GrowInv, NEW c \in Callers, NEW ok \in Picks, NEW d \in Gaps,
         SendTunnel(c, ok, d)
  PROVE  GrowInv' /\ Grows
<1> DEFINE n     == Len(pcmBuffer)
           heard == Heard(Packet(sequence', pcmBuffer, ok))
<1>1. /\ call[c].at = "tunnel" /\ Number(c, n, d) /\ call' = [call EXCEPT ![c] = Idle]
      /\ \/ NumbersGo /\ UNCHANGED left
         \/ heard = <<>> /\ NumbersGo
         \/ heard # <<>> /\ Air(heard[1].number, heard[Len(heard)].number)
  BY DEF SendTunnel, Return
<1>2. n \in Nat /\ n >= 1
  BY DEF SendTunnel, FramesInv, FrameTypes
<1>3. live' \in BOOLEAN
  BY <1>1 DEF Number, GrowInv
<1>4. ASSUME live'
      PROVE  GrowInv' /\ Grows
  <2>1. /\ live /\ started' = TRUE /\ batch' = n /\ \A o \in Callers : call[o].at # "send"
        /\ sequence' \in Nat /\ elapsed' \in Nat /\ 10 * sequence' <= elapsed'
        /\ air.last < sequence' \/ (sequence' = 0 /\ elapsed' = 0)
    BY <1>1, <1>2, <1>4, NumberFollows
  <2>2. \A o \in Callers : call'[o].at # "send"
    BY <1>1, <2>1 DEF FramesInv, FrameTypes, Idle
  <2>3. air.last \in Int
    BY <2>1 DEF GrowInv
  <2>4. CASE NumbersGo /\ (heard = <<>> \/ UNCHANGED left)
    <3>1. air'.last \in Int /\ air'.last <= sequence' + 2 * (n - 1)
      BY <2>4, <1>2, <2>1, <2>3 DEF NumbersGo, Silence
    <3>2. GrowInv'
      BY <1>2, <1>3, <2>1, <2>2, <3>1 DEF GrowInv
    <3>3. heard = <<>> => UNCHANGED left
      BY DEF SendTunnel, Left, FramesInv, FrameTypes
    <3>4. QED
      BY <2>4, <3>2, <3>3 DEF Grows
  <2>5. CASE heard # <<>> /\ Air(heard[1].number, heard[Len(heard)].number)
    <3>1. /\ Len(heard) \in 1..n /\ heard[1].number = sequence'
          /\ heard[Len(heard)].number = sequence' + 2 * (Len(heard) - 1)
      BY <2>1, <2>5, HeardNumbers
    <3> HIDE DEF heard
    <3>2. air'.first = sequence' /\ air'.last \in Int /\ air'.last <= sequence' + 2 * (n - 1)
      BY <1>2, <2>1, <2>5, <3>1 DEF Air
    <3>3. GrowInv'
      BY <1>2, <1>3, <2>1, <2>2, <3>2 DEF GrowInv
    <3>4. Grows
      BY <2>1, <2>3, <3>2 DEF Grows
    <3>5. QED
      BY <3>3, <3>4
  <2>6. QED
    BY <1>1, <2>4, <2>5
<1>5. QED
  BY <1>3, <1>4 DEF GrowInv, Grows

LEMMA GrowNumber ==
  ASSUME FramesInv, GrowInv, NEW c \in Callers, NEW d \in Gaps, AdvanceSequence(c, d)
  PROVE  GrowInv' /\ Grows
<1> DEFINE n == Len(call[c].frames)
<1>1. /\ call[c].at = "number" /\ Number(c, n, d) /\ NumbersGo /\ UNCHANGED left
      /\ call' = [call EXCEPT ![c] = [at |-> "send", frames |-> call[c].frames, number |-> sequence']]
  BY DEF AdvanceSequence, Step
<1>2. n \in Nat /\ n >= 1
  <2>1. call[c].frames \in Seq(Frame) /\ call[c].frames # <<>>
    BY <1>1, FramesKind DEF FramesInv, FrameTypes, Call
  <2>2. QED
    BY <2>1
<1>3. live' \in BOOLEAN
  BY <1>1 DEF Number, GrowInv
<1>4. ASSUME live'
      PROVE  GrowInv'
  <2>1. /\ live /\ started' = TRUE /\ batch' = n /\ \A o \in Callers : call[o].at # "send"
        /\ sequence' \in Nat /\ elapsed' \in Nat /\ 10 * sequence' <= elapsed'
        /\ air.last < sequence' \/ (sequence' = 0 /\ elapsed' = 0)
    BY <1>1, <1>2, <1>4, NumberFollows
  <2>2. air.last \in Int
    BY <2>1 DEF GrowInv
  <2>3. air'.last \in Int /\ air'.last < sequence'
    BY <1>1, <2>1, <2>2 DEF NumbersGo, Silence
  <2>4. /\ call'[c].number = sequence' /\ call'[c].frames = call[c].frames
        /\ \A o \in Callers \ {c} : call'[o].at # "send"
    BY <1>1, <2>1 DEF FramesInv, FrameTypes
  <2>5. Len(call'[c].frames) = n
    BY <2>4
  <2> HIDE DEF n
  <2>6. air'.last <= sequence' + 2 * (batch' - 1)
        /\ call'[c].number + 2 * (Len(call'[c].frames) - 1) <= sequence' + 2 * (batch' - 1)
    <3>1. batch' = n /\ sequence' \in Nat
      BY <2>1
    <3>2. air'.last <= sequence' + 2 * (batch' - 1)
      BY <1>2, <2>3, <3>1
    <3>3. call'[c].number + 2 * (Len(call'[c].frames) - 1) = sequence' + 2 * (batch' - 1)
      BY <2>4, <2>5, <3>1
    <3>4. sequence' + 2 * (batch' - 1) \in Int
      BY <1>2, <3>1
    <3>5. QED
      BY <3>2, <3>3, <3>4
  <2>7. \A o \in Callers : call'[o].at = "send" => o = c
    BY <2>4
  <2>8. \A o \in Callers : call'[o].at = "send" =>
          /\ air'.last < call'[o].number
          /\ call'[o].number + 2 * (Len(call'[o].frames) - 1) <= sequence' + 2 * (batch' - 1)
    <3>1. air'.last < call'[c].number
      BY <2>3, <2>4
    <3>2. QED
      BY <2>6, <2>7, <3>1, Zenon
  <2>9. batch' \in Nat /\ batch' >= 1
    BY <1>2, <2>1
  <2>10. QED
    BY <1>3, <2>1, <2>3, <2>6, <2>7, <2>8, <2>9, Zenon DEF GrowInv
<1>5. QED
  BY <1>1, <1>3, <1>4 DEF GrowInv, Grows

LEMMA GrowFrame ==
  ASSUME FramesInv, GrowInv, NEW c \in Callers, SendFrame(c)
  PROVE  GrowInv' /\ Grows
<1> DEFINE frames == call[c].frames
           rest   == Tail(frames)
           next   == [at |-> "send", frames |-> rest, number |-> call[c].number + 2]
<1>1. /\ call[c].at = "send" /\ UNCHANGED <<sequence, started, elapsed, batch, live>>
      /\ \/ UNCHANGED <<left, air>> /\ call' = [call EXCEPT ![c] = Idle]
         \/ /\ Air(call[c].number, call[c].number)
            /\ \/ rest = <<>> /\ call' = [call EXCEPT ![c] = Idle]
               \/ rest # <<>> /\ call' = [call EXCEPT ![c] = next]
  BY DEF SendFrame, outputVars, Return, Step, PerFrame, FrameDurationMs, SequenceDuration
<1>2. /\ call[c].number \in Nat /\ Len(frames) \in Nat /\ Len(frames) >= 1
      /\ Len(rest) = Len(frames) - 1
  <2>1. frames \in Seq(Frame) /\ frames # <<>> /\ call[c].number \in Nat
    BY <1>1, FramesKind DEF FramesInv, FrameTypes, Call
  <2>2. QED
    BY <2>1
<1>3. SUFFICES ASSUME live PROVE GrowInv' /\ Grows
  BY <1>1 DEF GrowInv, Grows
<1>4. /\ batch \in Nat /\ started /\ air.last \in Int /\ sequence \in Nat
      /\ air.last < call[c].number
      /\ call[c].number + 2 * (Len(frames) - 1) <= sequence + 2 * (batch - 1)
      /\ \A o \in Callers \ {c} : call[o].at # "send"
  BY <1>1, <1>3 DEF GrowInv, FramesInv, FrameTypes
<1>5. DOMAIN call = Callers /\ Idle.at # "send"
  BY DEF FramesInv, FrameTypes, Idle
<1>6. CASE UNCHANGED <<left, air>> /\ call' = [call EXCEPT ![c] = Idle]
  <2>1. \A o \in Callers : call'[o].at # "send"
    BY <1>4, <1>5, <1>6
  <2>2. QED
    BY <1>1, <1>3, <1>6, <2>1 DEF GrowInv, Grows
<1>7. CASE Air(call[c].number, call[c].number)
  <2>1. /\ air'.first = call[c].number /\ air'.last = call[c].number
        /\ air'.first > air.last /\ air'.last <= sequence + 2 * (batch - 1)
    BY <1>2, <1>4, <1>7 DEF Air
  <2>2. CASE call' = [call EXCEPT ![c] = Idle]
    <3>1. \A o \in Callers : call'[o].at # "send"
      BY <1>4, <1>5, <2>2
    <3>2. QED
      BY <1>1, <1>2, <1>3, <1>4, <2>1, <3>1 DEF GrowInv, Grows
  <2>3. CASE rest # <<>> /\ call' = [call EXCEPT ![c] = next]
    <3>1. /\ \A o \in Callers \ {c} : call'[o].at # "send"
          /\ call'[c].number = call[c].number + 2 /\ Len(call'[c].frames) = Len(frames) - 1
      BY <1>2, <1>4, <1>5, <2>3
    <3> HIDE DEF next, rest, frames
    <3>2. air'.last < call'[c].number
      BY <1>2, <2>1, <3>1
    <3>3. call'[c].number + 2 * (Len(call'[c].frames) - 1) <= sequence + 2 * (batch - 1)
      BY <1>2, <1>4, <3>1
    <3>4. \A o \in Callers : call'[o].at = "send" => o = c
      BY <3>1
    <3>5. \A o \in Callers : call'[o].at = "send" =>
            /\ air'.last < call'[o].number
            /\ call'[o].number + 2 * (Len(call'[o].frames) - 1) <= sequence' + 2 * (batch' - 1)
      BY <1>1, <3>2, <3>3, <3>4, Zenon
    <3>6. /\ air'.last \in Int /\ air'.last <= sequence' + 2 * (batch' - 1)
          /\ 10 * sequence' <= elapsed' /\ batch' >= 1
      BY <1>1, <1>2, <1>3, <1>4, <2>1 DEF GrowInv
    <3>7. /\ live' = live /\ live \in BOOLEAN /\ batch' \in Nat
          /\ started' = started /\ started \in BOOLEAN
      BY <1>1, <1>3 DEF GrowInv
    <3>8. GrowInv'
      BY <1>3, <1>4, <3>4, <3>5, <3>6, <3>7, Zenon DEF GrowInv
    <3>9. QED
      BY <2>1, <3>8 DEF Grows
  <2>4. QED
    BY <1>1, <1>5, <1>6, <2>2, <2>3
<1>8. QED
  BY <1>1, <1>6, <1>7

\* The other steps of a caller, and everything that is not speaking.
LEMMA GrowOthers ==
  ASSUME FramesInv, GrowInv, UNCHANGED <<clockVars, left, air, live>>,
         \/ UNCHANGED call
         \/ \E c \in Callers, new \in Call : call' = [call EXCEPT ![c] = new] /\ new.at # "send"
  PROVE  GrowInv' /\ Grows
<1>1. UNCHANGED <<sequence, started, elapsed, batch, left, air, live>>
  BY DEF clockVars
<1>2. ASSUME NEW o \in Callers, call'[o].at = "send" PROVE call'[o] = call[o]
  BY <1>2 DEF FramesInv, FrameTypes
<1>3. GrowInv'
  <2>1. SUFFICES ASSUME live PROVE GrowInv'
    BY <1>1 DEF GrowInv
  <2>2. /\ batch' \in Nat /\ started' \in BOOLEAN /\ air'.last \in Int /\ live' \in BOOLEAN
        /\ 10 * sequence' <= elapsed'
        /\ started' => batch' >= 1 /\ air'.last <= sequence' + 2 * (batch' - 1)
    BY <1>1, <2>1 DEF GrowInv
  <2>3. ~started' => air'.last = -1 /\ \A o \in Callers : call'[o].at # "send"
    <3>1. \A o \in Callers : call'[o].at = "send" => call[o].at = "send"
      BY <1>2
    <3>2. QED
      BY <1>1, <2>1, <3>1 DEF GrowInv
  <2>4. \A o \in Callers : call'[o].at = "send" =>
          /\ air'.last < call'[o].number
          /\ call'[o].number + 2 * (Len(call'[o].frames) - 1) <= sequence' + 2 * (batch' - 1)
    BY <1>1, <1>2, <2>1 DEF GrowInv
  <2>5. \A o, d \in Callers : call'[o].at = "send" /\ call'[d].at = "send" => o = d
    BY <1>2, <2>1 DEF GrowInv
  <2>6. QED
    BY <2>2, <2>3, <2>4, <2>5, Zenon DEF GrowInv
<1>4. QED
  BY <1>1, <1>3 DEF Grows

LEMMA GrowSpeaker ==
  ASSUME FramesInv, GrowInv, NEW c \in Callers,
         \/ \E n \in 0..MaxFrames, at \in {"tunnel", "encode"} : Speak(c, n, at)
         \/ \E ok \in Picks : Encode(c, ok)
         \/ SendNothing(c)
  PROVE  GrowInv' /\ Grows
<1>1. ASSUME NEW n \in 0..MaxFrames, NEW at \in {"tunnel", "encode"}, Speak(c, n, at)
      PROVE  GrowInv' /\ Grows
  <2> DEFINE new == [at |-> at, frames |-> <<>>, number |-> 0]
  <2>1. /\ UNCHANGED <<clockVars, left, air, live>> /\ call' = [call EXCEPT ![c] = new]
    BY <1>1 DEF Speak, AddPCM, Step
  <2>2. new \in Call /\ new.at # "send"
    BY DEF Call
  <2>3. QED
    BY <2>1, <2>2, GrowOthers
<1>2. ASSUME NEW ok \in Picks, Encode(c, ok)
      PROVE  GrowInv' /\ Grows
  <2> DEFINE coded == Encoded(pcmBuffer, ok)
             new   == [at |-> "number", frames |-> coded, number |-> 0]
  <2>1. /\ UNCHANGED <<clockVars, left, air, live>>
        /\ \/ call' = [call EXCEPT ![c] = Idle]
           \/ coded # <<>> /\ call' = [call EXCEPT ![c] = new]
    BY <1>2 DEF Encode, EncodeFrames, Step, Return
  <2>2. coded # <<>> => new \in Call /\ new.at # "send"
    BY PicksAreFrames DEF Call
  <2>3. Idle \in Call /\ Idle.at # "send"
    BY IdleCall DEF Idle
  <2> HIDE DEF new, coded
  <2>4. QED
    BY <2>1, <2>2, <2>3, GrowOthers
<1>3. CASE SendNothing(c)
  <2>1. /\ UNCHANGED <<clockVars, left, air, live>> /\ call' = [call EXCEPT ![c] = Idle]
    BY <1>3 DEF SendNothing, Return, outputVars, clockVars
  <2>2. Idle \in Call /\ Idle.at # "send"
    BY IdleCall DEF Idle
  <2>3. QED
    BY <2>1, <2>2, GrowOthers
<1>4. QED
  BY <1>1, <1>2, <1>3

LEMMA GrowInductive == KeysInv /\ FramesInv /\ GrowInv /\ [Next]_vars => GrowInv' /\ Grows
<1> SUFFICES ASSUME KeysInv, FramesInv, GrowInv, [Next]_vars PROVE GrowInv' /\ Grows
  OBVIOUS
<1>1. budget.callers \subseteq Callers
  BY VoiceConstants DEF KeysInv, KeyTypes, Budget
<1>2. ASSUME NEW c \in budget.callers,
             \/ \E n \in 0..MaxFrames, at \in {"tunnel", "encode"} : Speak(c, n, at)
             \/ \E ok \in Picks : Encode(c, ok)
             \/ \E ok \in Picks, d \in Gaps : SendTunnel(c, ok, d)
             \/ \E d \in Gaps : AdvanceSequence(c, d)
             \/ SendNothing(c) \/ SendFrame(c)
      PROVE  GrowInv' /\ Grows
  <2>1. c \in Callers
    BY <1>1
  <2>2. QED
    BY <1>2, <2>1, GrowSpeaker, GrowTunnel, GrowNumber, GrowFrame
<1>3. CASE ClearBuffer /\ UNCHANGED sendVars
  BY <1>3, GrowOthers DEF ClearBuffer, sendVars
<1>4. CASE SpeakNext
  BY <1>2, <1>3, <1>4 DEF SpeakNext
<1>5. CASE UNCHANGED <<outputVars, sendVars>>
  BY <1>5, GrowOthers DEF outputVars, sendVars, clockVars
<1>6. CASE KeysNext
  BY <1>5, <1>6, KeysKeepFrames
<1>7. CASE apart \/ UNCHANGED vars
  BY <1>5, <1>7 DEF apart, vars
<1>8. QED
  BY <1>4, <1>6, <1>7 DEF Next

\* What leaves is in order for whoever hears it, through either transport and
\* across pauses of any length, as long as one goroutine speaks, on pace, and
\* its batches do not shrink: with two frames a call or a hundred.
THEOREM NumbersFollow == Spec => NumbersGrow
<1>1. Init => GrowInv
  <2> SUFFICES ASSUME Init PROVE GrowInv
    OBVIOUS
  <2>1. /\ live = TRUE /\ started = FALSE /\ batch = 0 /\ air.last = -1
        /\ sequence = 0 /\ elapsed = 0 /\ \A c \in Callers : call[c].at # "send"
    BY DEF Init, OutputInit, Silence, Idle
  <2>2. 10 * sequence <= elapsed /\ batch \in Nat /\ air.last \in Int
    BY <2>1
  <2>3. QED
    BY <2>1, <2>2, Zenon DEF GrowInv
<1>2. GrowInv /\ KeysInv /\ FramesInv /\ [Next]_vars =>
        [left' # left /\ live' => \/ air'.first > air.last
                                  \/ air'.first = 0 /\ elapsed' = 0]_vars
  BY GrowInductive DEF Grows
<1>3. QED
  BY <1>1, <1>2, VoiceInit, KeysInductive, FramesInductive, GrowInductive, PTL
  DEF Spec, NumbersGrow
=============================================================================
