------------------------------ MODULE VoicePath ------------------------------
(***************************************************************************)
(* A client's voice: the keys that CryptSetup brings, in the handshake and *)
(* during the session (client/handshake.go, client/runtime.go), the        *)
(* transports set up with them (client/connect.go, Client.SetupUDP), and   *)
(* the goroutines that send what is spoken through the tunnel or by UDP    *)
(* (Client.SendAudio, Client.SendAudioUDP), over the Output and the        *)
(* UDPManager of the modules extended.                                     *)
(*                                                                         *)
(* A key or a nonce is the number of the CryptSetup it came in or was made *)
(* for, and its length.  The server and the network are external; Connect  *)
(* is called once.                                                         *)
(***************************************************************************)
EXTENDS AudioOutput, UdpManager

CONSTANTS
  Callers,     \* goroutines that send audio
  MaxSetups,   \* bound: CryptSetup messages
  Budgets      \* bound: how much of it all one behaviour has

\* How long a key and a server nonce are.
Sizes == [key : Nat, nonce : Nat]
Budget == [callers : SUBSET Callers, frames : 0..MaxFrames, setups : 0..MaxSetups,
           sizes : SUBSET Sizes, inbox : 0..MaxInbox]

ASSUME VoiceConstants == MaxSetups \in Nat /\ Budgets \subseteq Budget

\* A []byte of random bytes, the n-th that was made, and its first 16 bytes.
Bytes(n, len) == [id |-> n, len |-> len]
NoBytes == Bytes(0, 0)
First16(s) == [s EXCEPT !.len = IF @ < 16 THEN @ ELSE 16]

\* SetKey is given a key, the client's nonce and the server's, of 16 bytes each.
Cut(k) == [key |-> First16(k.key), clientNonce |-> First16(k.clientNonce),
           serverNonce |-> First16(k.serverNonce)]

VARIABLES
  budget,      \* the one of Budgets this behaviour has
  phase,       \* Connect: "handshake", "setup", "session"
  down,        \* the messages from the server not yet read
  offered,     \* key and nonce of the last CryptSetup the server has sent
  agreed,      \* what each had last told the other when Connect returned
  fields,      \* c.cryptoKey, c.cryptoClientNonce, c.cryptoServerNonce
  audioKeys,   \* the crypto state of c.audio: nothing is sealed or opened with it
  call,        \* where each caller is, and the frames it still has to send
  left,        \* how often each frame has left
  air,         \* the numbers of the frames that left last, the first and the last
  live         \* one caller at a time, sending what it has just spoken

keyVars == <<budget, phase, down, offered, agreed, fields, audioKeys>>
sendVars == <<call, left, air, live>>
vars == <<outputVars, udpVars, keyVars, sendVars>>

NoneYet == [key |-> NoBytes, clientNonce |-> NoBytes, serverNonce |-> NoBytes]
Silence == [first |-> -1, last |-> -1]
Idle == [at |-> "idle", frames |-> <<>>, number |-> 0]

Init ==
  /\ OutputInit /\ UdpInit /\ budget \in Budgets
  /\ phase = "handshake" /\ down = <<>>
  /\ offered = [key |-> NoBytes, serverNonce |-> NoBytes]
  /\ agreed = NoneYet /\ fields = NoneYet /\ audioKeys = NoKeys
  /\ call = [c \in Callers |-> Idle]
  /\ left = [f \in Frame |-> 0] /\ air = Silence /\ live = TRUE

-----------------------------------------------------------------------------
(* The keys.                                                                *)

Synced == phase # "handshake" \/ \E i \in 1..Len(down) : down[i].type = "ServerSync"

Setups == offered.key.id

\* c.cryptoKey and c.cryptoServerNonce, or what is told of them, renewed by cs.
WithServer(k, cs) == [k EXCEPT !.key = cs.key, !.serverNonce = cs.serverNonce]

\* The server (external) sends a new key and a new nonce, of any length.
SrvCryptSetup(size) ==
  /\ Setups < budget.setups
  /\ offered' = [key |-> Bytes(Setups + 1, size.key),
                 serverNonce |-> Bytes(Setups + 1, size.nonce)]
  /\ down' = Append(down, [type |-> "CryptSetup", setup |-> offered'])
  /\ agreed' = IF Synced THEN agreed ELSE WithServer(agreed, offered')
  /\ UNCHANGED <<outputVars, udpVars, budget, phase, fields, audioKeys, sendVars>>

SrvSync ==
  /\ ~Synced
  /\ down' = Append(down, [type |-> "ServerSync"])
  /\ UNCHANGED <<outputVars, udpVars, budget, phase, offered, agreed, fields, audioKeys, sendVars>>

Read(type) == down # <<>> /\ Head(down).type = type /\ down' = Tail(down)

LongEnough(cs) == cs.key.len >= 16 /\ cs.serverNonce.len >= 16

\* generateNonce.
Nonce(cs) == Bytes(cs.key.id, 24)

\* A bug: keys that came earlier are kept.
HsCryptSetupFirst ==
  LET cs    == Head(down).setup
      known == IF fields.key # NoBytes THEN fields ELSE WithServer(fields, cs)
  IN
  /\ phase = "handshake" /\ Read("CryptSetup")
  /\ \/ fields' = known /\ UNCHANGED agreed
     \/ /\ LongEnough(cs)
        /\ fields' = [known EXCEPT !.clientNonce = First16(Nonce(cs))]
        /\ agreed' = [agreed EXCEPT !.clientNonce = Nonce(cs)]
  /\ UNCHANGED <<outputVars, udpVars, budget, phase, offered, audioKeys, sendVars>>

\* In the handshake key and server nonce are stored whatever they are.  If they
\* are long enough, and random numbers can be had, a client nonce of 24 bytes
\* goes to the server, and its first 16 are stored.
HsCryptSetup ==
  LET cs    == Head(down).setup
      known == WithServer(fields, cs)
  IN
  /\ phase = "handshake" /\ Read("CryptSetup")
  /\ \/ fields' = known /\ UNCHANGED agreed
     \/ /\ LongEnough(cs)
        /\ fields' = [known EXCEPT !.clientNonce = First16(Nonce(cs))]
        /\ agreed' = [agreed EXCEPT !.clientNonce = Nonce(cs)]
  /\ UNCHANGED <<outputVars, udpVars, budget, phase, offered, audioKeys, sendVars>>

HsServerSync ==
  /\ phase = "handshake" /\ Read("ServerSync")
  /\ phase' = "setup"
  /\ UNCHANGED <<outputVars, udpVars, budget, offered, agreed, fields, audioKeys, sendVars>>

\* setupAudioTransport, then SetupUDP, which may find no socket.  The one
\* wants a key of 16 bytes, the other takes the first 16.
Setup ==
  /\ phase = "setup" /\ phase' = "session"
  /\ audioKeys' = IF /\ fields.key.len = 16 /\ fields.clientNonce.len = 16
                     /\ fields.serverNonce.len >= 16
                  THEN Cut(fields) ELSE audioKeys
  /\ \/ ReceiveLoop(IF LongEnough(fields) /\ fields.clientNonce.len >= 16
                    THEN Cut(fields) ELSE NoKeys)
     \/ UNCHANGED udpVars
  /\ UNCHANGED <<outputVars, budget, down, offered, agreed, fields, sendVars>>

\* handleCryptSetup, during the session: c.audio gets the new keys, the UDP
\* manager does not.
RtCryptSetup ==
  LET cs    == Head(down).setup
      known == WithServer(fields, cs)
  IN
  /\ phase = "session" /\ Read("CryptSetup")
  /\ \/ ~LongEnough(cs) /\ UNCHANGED <<fields, audioKeys>>
     \/ LongEnough(cs) /\ fields' = known /\ UNCHANGED audioKeys
     \/ /\ LongEnough(cs)
        /\ fields' = [known EXCEPT !.clientNonce = First16(Nonce(cs))]
        /\ audioKeys' = Cut(fields')
  /\ UNCHANGED <<outputVars, udpVars, budget, phase, offered, agreed, sendVars>>

KeysNext ==
  \/ \E size \in budget.sizes : SrvCryptSetup(size)
  \/ SrvSync \/ HsCryptSetup \/ HsServerSync \/ Setup \/ RtCryptSetup

-----------------------------------------------------------------------------
(* Speaking.                                                                *)

Step(c, at, frames, number) ==
  call' = [call EXCEPT ![c] = [at |-> at, frames |-> frames, number |-> number]]
Return(c) == call' = [call EXCEPT ![c] = Idle]

\* The first step of SendAudio and SendAudioUDP: SendPCM, with nothing for a
\* client whose audio is not enabled.  SendAudioUDP fails without a manager.
Speak(c, n, at) ==
  /\ call[c].at = "idle" /\ (at = "encode" => phase = "session")
  /\ spoken + n <= budget.frames /\ AddPCM(n)
  /\ Step(c, at, <<>>, 0)
  /\ UNCHANGED <<udpVars, keyVars, left, air, live>>

\* advanceSequenceLocked, with a note of whether the caller is alone and on pace.
Number(c, n, d) ==
  /\ Advance(n, d)
  /\ live' = (live /\ OnPace(n, d) /\ \A o \in Callers \ {c} : call[o] = Idle)

\* A number has been given out: after a long pause they start again.
NumbersGo == air' = IF elapsed' = 0 THEN Silence ELSE air

\* A frame has left with a number.
Left(frames) == left' = [f \in Frame |-> IF f \in frames THEN left[f] + 1 ELSE left[f]]
Air(first, last) == air' = [first |-> first, last |-> last]

\* SendAudio goes on with Output.Send: what the writer refuses stays in the
\* buffer.  If no frame can be encoded it writes nothing.
SendTunnel(c, ok, d) ==
  LET packet == Packet(sequence', pcmBuffer, ok)
      heard  == Heard(packet)
  IN
  /\ call[c].at = "tunnel" /\ phase = "session" /\ pcmBuffer # <<>>
  /\ Number(c, Len(pcmBuffer), d)
  /\ \/ NumbersGo /\ UNCHANGED <<pcmBuffer, left>>
     \/ /\ pcmBuffer' = <<>>
        /\ Left({heard[i].frame : i \in DOMAIN heard})
        /\ IF heard = <<>> THEN NumbersGo
           ELSE Air(heard[1].number, heard[Len(heard)].number)
  /\ Return(c)
  /\ UNCHANGED <<spoken, udpVars, keyVars>>

\* There is nothing to send, no encoder or no writer yet, or audio is not
\* enabled.
SendNothing(c) ==
  /\ call[c].at \in {"tunnel", "encode"}
  /\ Return(c)
  /\ UNCHANGED <<outputVars, udpVars, keyVars, left, air, live>>

\* SendAudioUDP takes the frames, of whichever caller they are ...
Encode(c, ok) ==
  LET frames == Encoded(pcmBuffer, ok) IN
  /\ call[c].at = "encode"
  /\ EncodeFrames
  /\ IF frames = <<>> THEN Return(c) ELSE Step(c, "number", frames, 0)
  /\ UNCHANGED <<udpVars, keyVars, left, air, live>>

\* ... then a number for them ...
AdvanceSequence(c, d) ==
  /\ call[c].at = "number"
  /\ Number(c, Len(call[c].frames), d) /\ NumbersGo
  /\ Step(c, "send", call[c].frames, sequence')
  /\ UNCHANGED <<pcmBuffer, spoken, udpVars, keyVars, left>>

\* A bug: every frame of the batch has the number of the first.
SendFrameSame(c) ==
  LET rest == Tail(call[c].frames) IN
  /\ call[c].at = "send" /\ mu = "free"
  /\ \/ /\ CanSend
        /\ Left({Head(call[c].frames)}) /\ Air(call[c].number, call[c].number)
        /\ IF rest = <<>> THEN Return(c) ELSE Step(c, "send", rest, call[c].number)
     \/ Return(c) /\ UNCHANGED <<left, air>>
  /\ UNCHANGED <<outputVars, udpVars, keyVars, live>>

\* ... and sends them one by one; the first that fails ends the call.
SendFrame(c) ==
  LET rest == Tail(call[c].frames) IN
  /\ call[c].at = "send" /\ mu = "free"
  /\ \/ /\ CanSend
        /\ Left({Head(call[c].frames)}) /\ Air(call[c].number, call[c].number)
        /\ IF rest = <<>> THEN Return(c) ELSE Step(c, "send", rest, call[c].number + PerFrame)
     \/ Return(c) /\ UNCHANGED <<left, air>>
  /\ UNCHANGED <<outputVars, udpVars, keyVars, live>>

SpeakNext ==
  \/ \E c \in budget.callers :
       \/ \E n \in 0..MaxFrames, at \in {"tunnel", "encode"} : Speak(c, n, at)
       \/ \E ok \in Picks : Encode(c, ok)
       \/ \E ok \in Picks, d \in Gaps : SendTunnel(c, ok, d)
       \/ \E d \in Gaps : AdvanceSequence(c, d)
       \/ SendNothing(c) \/ SendFrame(c)
  \/ ClearBuffer /\ UNCHANGED <<udpVars, keyVars, sendVars>>

-----------------------------------------------------------------------------

\* Datagrams of the server (external), sealed with its key and nonce of the
\* moment.
Receive ==
  /\ Setups > 0 /\ Len(inbox) < budget.inbox
  /\ \E kind \in {"voice", "pong"} :
       Arrive(Datagram(First16(offered.key), First16(offered.serverNonce), kind))

apart == UNCHANGED <<outputVars, keyVars, sendVars>>

Next ==
  /\ ~crashed
  /\ KeysNext \/ SpeakNext \/ (phase = "session" /\ (UdpNext \/ Receive) /\ apart)

\* The loop runs, its reads time out and callbacks return; a ping ends with
\* its deadline; Close goes on when the loop is gone.
Fairness ==
  /\ WF_vars(~crashed /\ (LoopSelect \/ LoopRead \/ LoopTimeout \/ LoopCallback \/ LoopSends)
               /\ apart)
  /\ WF_vars(~crashed /\ (PingRead \/ PingTimeout) /\ apart)
  /\ WF_vars(~crashed /\ CloseReturn /\ apart)

Spec == Init /\ [][Next]_vars /\ Fairness

-----------------------------------------------------------------------------
(* Properties.                                                              *)

\* However callers, transports and failures mix, no frame leaves twice: not
\* by UDP and in the tunnel, and not for two callers.
SpokenOnce == \A f \in Frame : left[f] <= 1

\* What leaves is in order for whoever hears it, through either transport,
\* across pauses, until a long pause starts the numbers again: provided one
\* goroutine speaks, on pace, and its batches do not shrink.
NumbersGrow ==
  [][left' # left /\ live' => \/ air'.first > air.last
                              \/ air'.first = 0 /\ elapsed' = 0]_vars

\* Datagrams are sealed with what the two told each other in the handshake,
\* 16 bytes of each: the key and the server nonce of the last CryptSetup before
\* ServerSync, and the client nonce sent last.  However often CryptSetup comes,
\* with whatever lengths, before ServerSync or in the session, UDP never has
\* parts of two agreements, or one that is too short.
SealedAsAgreed ==
  phase = "session" /\ udpKeys # NoKeys =>
    /\ udpKeys = Cut(agreed)
    /\ LongEnough(agreed) /\ agreed.clientNonce.len >= 16

\* Once UDPManager.Close has returned, no voice is decoded and no callback
\* made, whichever step the loop was at.
QuietAfterClose == stopCh /\ mu # "close" => loop \in {"off", "done"}

\* UDPManager.Close returns, whatever arrives meanwhile, unless a callback is
\* sending, which waits for Close in its turn, or a datagram ends the program.
UdpCloseReturns == mu = "close" ~> mu # "close" \/ loop = "sending" \/ crashed
=============================================================================
