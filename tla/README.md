# Verification of mumble-go

TLA+ models of the concurrent and stateful parts of this Mumble client library,
the TLC runs that check them on small instances, and theorems about them proved
with TLAPS for every value of the constants. `PROJECT.json` maps every definition
to the lines of Go it stands for, and lists the runs, the mutants that show each
property can fail, the hazards and the findings.

    tlc -config MC_ClientSession_roster.cfg MC_ClientSession     # a run
    tlapm CryptState_proofs.tla                                  # the proofs

Paths below are relative to the repository's sources.

## 1. The system

| Component | State it keeps | Operations |
|---|---|---|
| state store (`state/`) | users, channels, a copy of the own user (`Self`), ready | upserts from messages, removals, `SetSelf`, snapshots; all under one mutex |
| client session (`client/handshake.go`, `runtime.go`, `client.go`) | the store, callbacks | the handshake loop, then `messageLoop`, handle the server's messages; requests go up from any goroutine |
| client lifecycle (`client/connect.go`, `runtime.go`, `client.go`) | `conn`, `closeCh`, `wg`, a context | Connect, two loops, Close, cancellation |
| voice encryption (`audio/crypto.go`) | key, two IVs, a history of 256 bytes, counters | Encrypt, Decrypt |
| voice keys (`client/audio.go`, `connect.go`, `handshake.go`, `runtime.go`) | key and nonces in the client, in the audio handler and in the UDP manager | CryptSetup in the handshake and after it, setupAudioTransport, SetupUDP |
| UDP manager (`audio/udp.go`) | socket, crypto state, receive goroutine | Connect, Close, Send, SendPing, the receive loop |
| audio output and input (`audio/output.go`, `input.go`, `queue.go`) | PCM buffer, sequence number and its clock; a decoder | AddPCM, Send, EncodeFrames, AdvanceSequence; ProcessPacket |
| stream sender (`sdk/stream/sender.go`) | active, paused, closed, context, its parts | Start, Stop, Pause, Resume; a goroutine sends a frame per tick |
| jitter buffer (`sdk/stream/jitter.go`) | frames ordered by deadline | Push, Pop, Close |
| reconnect manager (`sdk/stream/reconnect.go`) | attempts, a timer, a buffer of frames | OnDisconnect, OnReconnectFailure, OnReconnectSuccess, BufferFrame, PopBuffered, Close |
| mixer, voice activity, metadata (`sdk/stream/`) | sources and gains; speaking or not; current and pending metadata with a debounce timer | ReadMix, Process, Set and flush |
| wire format (`protocol/`) | none | marshalling and parsing of messages and frames |
| identity (`identity/`) | files with a certificate, a key and metadata | LoadOrCreate (Load, Create), Fingerprint |
| SDK client and sources (`sdk/*.go`) | a client; readers of files, processes and URLs | Connect, PlayFile, PlayRemote, the pull interface of a source |
| GUI server (`cmd/mumble-gui/main.go`) | the current client and player | HTTP handlers |
| opus codec, example programs | handles of a foreign codec; none | - |

### How they interact

The client has one connection. `Connect` reads it in its own goroutine until
ServerSync, then starts `messageLoop` and `pingLoop`, which share the connection
and a wait group with `Close`. Both readers write to the store, each with its own
`switch` over message types; `messageLoop` then calls the application's callbacks,
in its own goroutine, after the store was changed. Requests read the session from
the store and write to the connection from any goroutine. Voice goes out through
the output (over TCP, which TLS encrypts) or, sealed by the crypto state, as datagrams:
`SendAudio` and `SendAudioUDP` share the output's buffer and its sequence number.
CryptSetup brings a key and nonces to the audio handler, which is given a crypto state
but seals nothing with it, and to the UDP manager: `SetupUDP` takes its copy once, in
Connect. The UDP
manager reads its socket in a goroutine of its own, which calls the application,
under one mutex with whoever sends, pings or closes.

Before it dials, the client asks its identity provider for a certificate, which the
local one loads from a profile's files, or creates. Every message crosses the wire
format, a hand-written protobuf.

The stream sender sits on the client's `SendAudio` and `SendAudioUDP`. Its
goroutine mixes a frame per tick, passes it through the jitter buffer, encodes and
sends it, and reports each outcome to the reconnect manager, which also keeps the
frames that could not be sent. The manager's timer calls back in goroutines of its
own, and `GetReconnectManager` hands the manager to the application, which reports
to it as well.

### What is hard here

Two loops that handle the same messages differently, with a hand-over between
them; a snapshot in OnConnect against a stream of events afterwards; a copy of a
map entry maintained by three methods; messages that carry only what changed;
requests that race the server's own changes; a wait group with several ways out
of the loops it counts; reads and writes without a deadline; datagrams repeated and reordered
against a window of wrapped bytes; deadlines that fall exactly on ticks; one timer
that is restarted from three places while its callback may be running; a buffer
whose bound is the capacity of a slice; a batch of frames that is added, encoded,
numbered and sent in separate critical sections; a sequence number that follows the
frames or the clock, by the pause; keys copied at one moment and renewed at another; a
mutex held while waiting for a goroutine that may need it; three files that are
written one after the other; tags and lengths that end anywhere. The hazards in `PROJECT.json` list them
at their lines.

### What makes each component correct

- *store*: `Self` is the map's entry for the own session, whatever the order of calls.
- *session*: when all that was announced has been handled, the store has the
  server's roster, channels, names and places; an application that follows the
  callbacks has it too; requests take effect.
- *lifecycle*: the wait group counts the loops; OnConnect and OnDisconnect are
  told once and in order; nothing uses a closed connection; lost connections are
  reported and leave nothing running; Close returns.
- *encryption*: each packet is opened at most once; what arrives in the window is
  opened; refused datagrams leave no trace; the loss counter is exact.
- *stream*: frames are played on time and go out once over each transport, those kept
  in order; after Pause no more goes out than was under way or kept; a manager that was
  closed does nothing more; Stop is idempotent, final and returns if the peer reads.
- *voice*: no frame leaves twice, through either transport; numbers grow for whoever
  hears them; UDP seals with what was agreed with the server in the handshake.
- *UDP manager*: Close returns, and leaves no goroutine that decodes or calls back.
- *wire format*: what is written is standard protobuf; what was written, here or by a
  server, is read as it was meant; parsing ends, within the bytes, or panics over a
  length that no int holds.
- *identity*: the files belong together wherever their creation stops; the identity
  is never replaced; one is had in the end.

## 2. The modules

### StateStore, ClientSession, MC_ClientSession, and their proofs

`StateStore` has one action per method of `state.Store`. Each method holds the
mutex throughout, so each is one step. Fields that the code treats alike share a
field of the model: `name` for those an upsert keeps when the message has no
value, `muted` (for a channel `position`) for those it overwrites regardless.
Readers are the operators `SelfSession`, `KnownUsers`, `KnownChannels`.

`ClientSession` extends it with the server, the wire in both directions, the
reader and the application. `pc` says which loop reads: `"handshake"`, then
`"connected"` until OnConnect has returned, then `"loop"`. Actions `Hs*` are the
cases of `handshake()`, `Loop*` those of `handleMessage()`. In messageLoop the
store's change and the callback (`Emit`) are two steps, as in the code. `mirror`
is what an application knows that takes the roster in OnConnect and follows
OnUserState and OnUserLeft. `OnTheWire` is what marshalling leaves of a request.
The server is external: it is a server that announces every user and channel,
sends ServerSync (or Reject), afterwards sends what changed, and answers requests.

### ClientLifecycle, MC_ClientLifecycle, and its proofs

The goroutines alone; a frame is just a frame. `connect` is Connect's program
counter, `ml` and `pl` those of the loops, `closer[c]` those of the callers of
Close. Deferred calls are steps in the order in which they run (`LoopLeave` is
emitDisconnect, `LoopFinish` is wg.Done). A read that finds nothing is disabled
until a frame comes, the peer is gone or this side has closed. A write is a step of its
own, which a peer that does not read holds up: it is fair under `ReadingSpec` only.
Close may be called at
any time, during Connect and from callbacks too; the history variable `orderly` is
whether neither has happened so far. What the code keeps in any case
(`WgCountsLoops`, `ToldInOrder`) is stated without it, what it keeps in proper use
with it.

### CryptState, ReplayGuard, MC_CryptState, and the proofs

Two ends of one direction and every datagram ever sent, so that `Decrypt` may get
any of them again, in any order, or one with its front byte changed. An IV is an
integer, `Low` and `Mid` its two lowest bytes; `Div` is the IV that the byte in
front stands for, with the carry or borrow of the code. The cipher is abstracted
to a tag that agrees exactly under the same IV. The size of a byte, the range ahead
and the window behind are constants (256, 128 and 30 in the code). `ReplayGuard`
is the abstract specification: packets are opened at most once and counted.

### JitterBuffer, ReconnectManager, Mailbox, StreamSender, MC_StreamSender, and the proofs

The first two hold the state and the operations of one type each, and
`StreamSender` composes them with the sender's goroutine, its callers and an
application that reports to the manager. `run` is the goroutine's program counter:
`select`, `check` (paused?), `mix` (the mixer, voice activity, Push and Pop),
`encode`, `send`, then `pop` and `flush` after a success, `buffer` and `tcp` after
a failure; between two of them everybody else may step. Time is an integer: a
frame lasts `Period` units, a tick is taken up to `Slack` late, and `Mix` reads the
clock three times, as the code does, for the deadline, in Push and for Pop. A frame
is its deadline (0 is silence) and, once encoded, a number. The reconnect
buffer's capacity is part of the state, because the code takes "full" from it. `sent`
are the frames that went out over UDP, directly and by flushing, `tunnelled` those over
TCP, and `afterPause` counts both since Pause; `backlog` is what was kept at Pause.
`Mailbox` is the abstract specification of all this: a frame that is made is sent at
once or kept, what is kept is sent from the front or forgotten. What the buffer
holds and what was taken out of it to be flushed are together what is `kept`.

### AudioOutput, UdpManager, VoicePath, MC_VoicePath, and the proofs

`AudioOutput` is the output of a client: the frames not yet encoded, and the number
with its clock. `Advance` is advanceSequenceLocked with its three cases, reset after
five seconds, caught up with the clock after 40 ms, and otherwise increased; the time
that passed is an argument. `Picks` are the ways in which the encoder may leave frames
out; `Packet` is the packet with its terminator, and `Heard` what a listener's
ProcessPacket makes of it.

`UdpManager` is the mutex as state (`mu`: free, or held by a ping or by Close), the
socket with what has arrived, and the goroutine of ReceiveLoop as a program counter
(`loop`: select, read, callback, sending). Either deadline may end either read. A
panic ends the program (`crashed`): a second Close, a ping without keys, a frame size
beyond the end of a datagram.

`VoicePath` extends both. Keys: bytes are the number of the CryptSetup they came in or
were made for, and a length, so that what is cut (`First16`, `Cut`) is visible.
`SrvCryptSetup` sends a key and a nonce of any lengths; `HsCryptSetup` and `RtCryptSetup`
are the two handlers, with their different tests, and the client nonce of 24 bytes of
which 16 are stored; `Setup` is setupAudioTransport, which wants 16 bytes of key, and
SetupUDP, which cuts. `fields` is what the client has stored, `agreed` what the two had
last told each other, whole, when Connect returned, `udpKeys` the crypto state of the UDP
manager and `audioKeys` that of the audio handler, with which nothing is sealed
(`audio/output.go:128`). Speaking: a call of
SendAudio is `Speak` and `SendTunnel`; one of SendAudioUDP is `Speak`, `Encode`,
`AdvanceSequence` and one `SendFrame` per frame, and other goroutines may step between
any two, as the output's mutex is free there. `left` and `air` record which
frames left how often, and with which numbers; `live` is whether one goroutine at a time
has spoken, on pace (see section 6 for what happens otherwise).

### WireFormat, MC_WireFormat, and the proofs

All message types are coded alike, so a type is its sequence of fields (number, kind,
presence flag), one table per struct, and `Encode` and `ParseField` stand for the code
of every type. Bytes are bytes; only the width of numbers is scaled down. The machine
has a message marshalled, by this library with any two fields set, or with the end cut
off, or by a server (any order, zeros told, unknown numbers in between), or is given
bytes of any origin (`AnyBytes`), and reads it field by field with `pos` as Unmarshal's
index. `SignedInt` is the conversion int(n) of a length: from half of `U64` on it is
negative, the comparison with the end of the bytes lets it pass, and the slice panics
(`phase = "panicked"`). `StandardRead` is the reference:
what a standard protobuf reader makes of bytes, a field per turn, with tags of
any length and a case per wire type. A server's messages are those with tags of one
byte; with longer ones (`by = "other"`) nothing is promised, see section 6.

### IdentityStore, MC_IdentityStore, and the proofs

Files hold nothing, something begun (`Torn`), or what belongs to the identity with a
number. `pc` walks through LoadOrCreate; each writeFileAtomic is three steps (create
the temporary file, fill it, rename), and `Stop` may end the process, or fail
the operation, before any of them. Whoever has no certificate calls again.

## 3. The runs

| Run | What it asks | Bounds | States |
|---|---|---|---|
| roster | store, channels, names, `Self`, application against the server | 2 sessions, 2 channels, 2 names, 6 changes, 1 request | 2.3 million |
| progress | requests take effect; store and application end at the server's roster | 1 name, 5 changes, 2 requests, channels removed early too | 131 thousand |
| endings | the lifecycle with Close at any time and from anywhere, a peer that sends and reads until it goes | 2 closers, 2 frames waiting | 7 858 |
| window | encryption, with loss, repeats, reordering, garbled bytes | a byte of 8 values, window 3 behind, 10 packets, two first IVs | 32 thousand |
| stream | sender, jitter buffer, reconnect manager, two Stops, an application | 3 periods, depth 1, buffer 2, 1 application call | 257 thousand |
| wire | every message type: written, read, cut off, from a server, or any bytes | 2 fields set, 3 numbers, 3 texts, a uint32 of 2 bytes, a uint64 of 3; 5 bytes of any origin | 431 thousand |
| identity | LoadOrCreate stopped anywhere | 4 stops | 1 309 |
| voice | keys, two transports, the UDP manager and whoever speaks | the four scenes below; pauses of 20 ms, 60 ms and 6 s | 635 thousand |
| silent, duplicates, overflow, hash | each one statement of a comment that the code does not keep (section 6) | | |

**Bounds.** *Session*: two sessions are the client and another; with two names and
six changes a user can join, be renamed over by a new join, move, be muted and
leave, in the handshake, across ServerSync and after it; two channels suffice for
a move and for a channel emptied and removed. A third user meets no code that the
second does not: no handler relates two other users. *Lifecycle*: one caller of
Close can find another waiting or done; more only repeat that. Frames waiting
matter as none, one, and one behind another. *Window*: the byte of 8 values keeps
every relation the code uses (half a byte ahead, a window shorter than half a
byte), and ten packets from 4 or 60 cross the wrap of the lowest byte and, from
60, of the second (64 is 0 again), so a history slot is written, overwritten and
found stale. What is left to the value 256 is proved (section 4). *Stream*: three
periods are an outage, a recovery with a flush, and a frame after it, or a pause in
between; buffer 2 fills and drops; one call of the application at any point can
be a report, a pause or a resume; the overflow run has five periods, which fill a
buffer of 3 and go beyond. `MaxPending` allows one timer callback under way. *Wire*: two fields set, in the
order of Marshal or, by a server, in any order, are a field behind another of any kind;
200 takes a varint of two bytes, a negative number one of the full width, and the
texts hold bytes that look like tags. Of bytes of any origin there are up to five, from
five values: tags of known and unknown fields, lengths of up to three bytes, with the
greatest int and -1 among them, so that a turn may panic at once or after others.
*Identity*: three stops can leave each of the
partial states, a fourth stops the call that repairs them. *Voice*: a behaviour has one
of four scenes: one goroutine with three frames (in batches of one to three,
through either transport); two goroutines with a frame each, or one of two (which
take each other's); two CryptSetups on either side of ServerSync, with keys and nonces
of 8, 16 or 32 bytes each, while datagrams arrive and pings and Closes race the loop;
and two of the usual size while somebody speaks. The pauses are
one of each case of the numbering, and `MaxElapsed` lets four frames' time pass. What
mixes of the scenes could add is proved for any budget (section 4), but for
UdpCloseReturns, which neither speaking nor keys touch once Connect is done.

**Symmetry** of names is used in roster, which checks invariants only.

**Deadlock** is not checked where the system may come to rest: a server with
nothing to say, a client that has been closed, a sender that has been stopped.

**Fairness.** A goroutine that can run does: weak fairness of the reader, of each
loop, of each waiting Close or Stop whose wait is over, of the sender's goroutine
and of timers. For the server: that it completes the handshake it began and
answers requests. Go's `select` picks at random among ready cases, so a loop whose
stop is ready leaves in the end even if a tick is ready each time: `PingStop` and the
sender's `Leave` are strongly fair, because their goroutines leave the select to handle
a tick and come back. Writes to the connection have no deadline
(`transport/conn.go:32`, `:41`), so nothing is assumed of them by `Spec`. In
ClientLifecycle and in StreamSender `ReadingSpec` adds that they return, as they do
while the peer reads, and when it is gone; in ClientLifecycle `TalkingSpec` adds to that
that the peer keeps sending until it goes. Nothing in the code sees to either: they are
premises of LossEndsAll and CloseReturns (`TalkingSpec`) and of StopReturns
(`ReadingSpec`). The run silent shows why Close needs the one; of `Spec` alone, which
lets a write block for ever, TLC refutes StopReturns, LossEndsAll and CloseReturns.
In VoicePath the receive goroutine runs, its reads time out and callbacks
return, a ping ends by its deadline, and Close goes on when the loop is gone; nothing
is assumed of a program that has panicked. In IdentityStore an application without a
certificate calls again, and a call that is not stopped goes on; stops are
bounded. No fairness is assumed of the application elsewhere, of the server's changes, of
losses, or of cancellation.

## 4. What is proved

Eight modules of proofs. The assumptions are those on the constants, named in the
modules (`StoreConstants`, `SessionConstants`, `LifecycleConstants`,
`CryptConstants`, `JitterConstants`, `ReconnectConstants`, `StreamConstants`,
`OutputConstants`, `UdpConstants`, `VoiceConstants`, `WireConstants`, `IdentityConstants`):
identifiers are naturals, `None` is none of the values, a byte
has twice `Half` values and the window behind is at most half a byte. Nothing is
assumed of how many sessions, channels, closers, callers, frames, keys or packets there
are.

- **StateStore_proofs.** `SelfMirrored`: `Self` is the map's entry after any calls. With
  the types it is inductive as it stands; one lemma per method, which the next module
  reuses.
- **ClientSession_proofs.** The invariant `SessionInv` adds to types and
  `SelfMirrorsUsers` what holds *between* the store's change and the callback
  (`MirrorInv`: the application is behind by exactly the event that is due), without
  which `MirrorSynced` is not inductive. One lemma per group of actions; lemmas
  `ReadFrame`... say what a frame taken off the wire is. From it `SessionTyped`,
  `SessionSelfMirrored` and `ApplicationFollows`. That the store is level with the
  server when all has been handled holds only at the end of a queue, so the invariants
  speak of the frames on the wire: of the frames that overrule each other, as all about
  one user's place, the last says what the server has (`Final`), and where there is none
  (`Silent`) the store has it already. `RosterInv` says so of each user's presence, name
  and place, `ChannelsInv` of channels, `SelfInv` of the own session; `HandshakeInv`
  says where in the queue ServerSync may be. A frame read or sent then changes something
  at one end of the queue, and no recursion over the queue is needed. From them
  `StoreKeepsUp`, `SelfKeepsUp` and `ChannelsKeepUp`, the last for a server that removes
  no channel in the handshake, which is the premise of the property's run too (section
  6). `RequestsInv` follows a request up the wire and the echo down: `RequestsKeepUp`.
- **ClientLifecycle_proofs.** `LifecycleInv` ties what was told to where Connect and
  messageLoop are (`ToldInv`), the loops to Connect's phase (`PhaseInv`), and a closed
  connection and a returned Close to ended loops (`ClosedInv`, as long as use is
  `orderly`). From it `LoopsCounted` and `ToldOnceInOrder` in every interleaving, and
  `ClosedAfterLoops`, `CloseTellsFirst` and the action property `CloseHushes` of proper
  use.
- **CryptState_proofs.** Arithmetic lemmas first: two IVs less than a byte apart differ
  in their lowest byte (`NearDiffer`), and where `Div` goes (`DivMoves`, `DivFinds`).
  `CryptInv` says that the history remembers every packet opened less than a byte behind
  the newest (`HistoryReaches`), that what it holds was written for a packet opened or
  is the initial zero (`HistoryWritten`), and what the counters are. From it
  `ImplementsGuard` (Decrypt implements `ReplayGuard` under the refinement mapping good
  <- uiGood), `NewestIsOpened`, `LossIsCounted` and `FreshIsOpened`.
- **StreamSender_proofs.** What the reconnect manager keeps by itself (`ManagerInv`) is
  shown once per method and then used wherever a method is called. `SenderInv` adds that
  at most one caller of Stop works and has told exactly when it is done (`WorkerInv`),
  that a worker past its wait leaves a goroutine that has ended or will never start
  (`EndedInv`), and that what has gone out since Pause, with the frame under way, what is
  being flushed and what is still kept, is not more than the one frame and the backlog
  (`PauseInv`). From it `ManagerQuiet`, `ToldOnce`, `PauseIsObeyed` and the action
  property `StopEndsIt`. `TypeCorrect` needs what loops compute: lemma `LoopExists`
  shows by induction on the number of turns, as a set of numbers, that a loop's function
  exists and keeps its invariant, and is used for the filter in Push and for the
  backoff. With what Push leaves (`PushedLeft`: something, and nothing due) and
  that a goroutine at work finds its parts open, `PlayedOnTime`. `MailInv` says that
  what is sent, what is kept and what is being flushed are apart, each in order, the
  newest frame ahead of all (`NewestInv`), that nothing that waits was overtaken
  (`Waits`), and that nothing is kept while the buffer is flushed (`FlushInv`); `BothInv`
  adds of the frames that went out over TCP that none goes out twice and that a copy
  over UDP comes after a newer frame: `NoFrameTwice`, `KeptInOrder`, and `ImplementsMailbox`, the sender as a refinement of
  `Mailbox` (made <- the frame's number, kept <- the frames being flushed and then the
  buffer), step by step.
- **VoicePath_proofs.** Four invariants, of which the last two need `KeysInv`.
  `QuietInv` says where the receive goroutine may be while and after Close holds the
  mutex: `ClosedIsQuiet`. `KeysInv` says that before the transports are set up
  the client nonce stored is what was last sent, cut (`NonceInv`), and that the last
  CryptSetup before ServerSync is either still on its way or the one stored
  (`LatestInv`): with `CutIs`, that cutting both gives the same, `KeysAgree`. `FramesInv` says
  that every frame spoken is in one place at most, the buffer or one caller's batch, and
  has not left as long as it is in one: `FramesLeaveOnce`, for any number of callers.
  `GrowInv` holds while one goroutine speaks, on pace: what has left is behind what the
  sequence allows for the last batch, and a batch being sent goes on where it left:
  `NumbersFollow`, for any pauses and batches. `Heard` is shown to give increasing
  numbers, and only frames that were encoded, first.
- **IdentityStore_proofs.** `PrefixInv` says that the files that are there are the first
  ones in the order of Create, and of one identity; `WriteInv` that what Create has
  still to write is what is missing; `LoadedInv` that a certificate that was returned is
  on disk and Create does not run any more. From it `FilesOfOneIdentity` and
  `FirstIdentityStays`.
- **WireFormat_proofs.** No turn of the parser stays where it is or leaves the bytes
  (`TurnAdvances`, from one lemma per reader), for any bytes, not only those a message
  can have, unless it panics over a length that no int holds with the bytes before it;
  hence `UnmarshalEnds`. That the bytes of a message are short enough for that not to
  happen is a hypothesis of `AnyMessageReturns` and a guard of `Begin`: a []byte has an
  int for its length. What the codec computes is proved bottom up.
  `RecursionExists`: a function defined by recursion on how much is left exists, and has
  the value its definition gives. With it, of varints: what is written for a number is
  read back as it, from wherever it stands in a sequence of bytes. Then of a field: the
  reader that stands before it reads its value and stands behind it. Then of a message:
  `Encode` is a sequence of such pieces, the reader's positions are their boundaries,
  and at each of them it has the fields so far. The lemmas are about either of two
  readers, this library's and the standard one, so that the argument is made once.
  `AnyMessageReturns` (for messages whose tags take one byte, see section 6) and
  `AnyMessageIsStandard` (for messages without TextMessage's ids, see there too) are the
  results for every message of every type whose fields have values of their Go types;
  `MessagesReturn`, `StandardReadersAgree` and `ServersAreRead` follow for the machine.
  The assumption on the constants (`WireConstants`) is that a byte and the length of a
  text fit a uint64, whose width is a multiple of the uint32's, and that the samples of
  numbers and texts are what they are called.

What stays with TLC: the liveness properties (EventuallySynced, CloseReturns,
LossEndsAll, StopReturns, UdpCloseReturns, Recovers), because fairness speaks of ENABLED,
which is beyond the prover; they are checked at the bounds of section 3, and the invariants
proved here hold in the fair behaviours as in any. Also the statements of section 6, which
are false. Every other property of a passing run is a theorem.

## 5. What is not modelled, and why

Text messages, registration, access control lists, permission queries and codec
messages share no state with what is modelled. Arithmetic on samples, OCB, Opus and
TLS are data, or foreign. Logging is left out. In ClientSession the loops always
run; their end is ClientLifecycle's. In StreamSender, mutexes are folded into the
steps they protect, callbacks return without calling back, ticks are never dropped, and the sources,
voice activity and metadata are reduced to "a frame, or skipped". One Connect per
client, so one UDP manager. In VoicePath the decoder and callback that the receive
goroutine captured do not matter, the layout of datagrams does not (section 6), and the
crypto state that SendPing shares with the loop without a lock is not looked into. In
WireFormat, the headers of frames are left out. In
IdentityStore, one process at a time, and renamed files keep their contents (the
code does not sync them). The SDK facade, the readers of files and processes, the mixer,
the detector of voice activity, the metadata updater, the GUI server and the example
programs are not modelled: sequential code, arithmetic, or demonstrations.

## 6. Where the code and its comments part

With a run each (quotes and lines in `PROJECT.json`):

- *silent*: Close does not return while the server is silent, although it reads.
- *duplicates*: a packet whose second IV byte is 0 is taken for a duplicate when its
  slot was never written; after one loss among the first packets every packet up to
  the next wrap of the first byte is refused.
- *overflow*: the reconnect buffer grows beyond ReconnectBufferSize, because it
  takes "full" from a capacity that reslicing and append move.
- *hash*: fields of UserState from CommentHash (16) on are written with a tag of two
  bytes, which Unmarshal, like every other reader here, takes for two fields.

Stated in the modules, and violated when added to a configuration:

- `NoGhostChannels` (MC_ClientSession_roster.cfg with `EarlyRemoval = TRUE`): the handshake
  has no case for ChannelRemove (`client/handshake.go:155`), so a channel removed before
  ServerSync stays in the store.
- `FlagsSynced` (MC_ClientSession_roster.cfg): flags of a user are reset by messages about
  something else (`state/apply.go:29`).
- `FramesPlayed`, a PROPERTY (MC_StreamSender_stream.cfg): the jitter buffer drops a frame
  at the tick at which it is due (`sdk/stream/jitter.go:55`), so silence is sent unless
  the deadline falls between two reads of the clock.

Noticed without a run, because reading settles them:

- ServerSync's SetSelf replaces the own entry by a bare one (`client/handshake.go:61`);
  own name and channel are gone until the next UserState.
- JoinChannel(0) and SetSelfMute(false) leave their field out of the message
  (`client/client.go:206`, `:307`) and change nothing at the server.
- OnUserJoined is never called (`client/events.go:100`).
- Close during Connect returns early, and OnConnect may follow it
  (`client/client.go:108`); Close from a callback waits for itself (`:112`). The run
  endings shows what still holds.
- Connected stays true after the connection has ended (`client/client.go:182`).
- In a lasting outage each frame restarts the reconnect timer
  (`sdk/stream/reconnect.go:72`), so OnReconnecting is not called and attempts are not
  counted while frames keep failing; after a recovery OnConnect is called for
  every frame (`sdk/stream/sender.go:463`).
- A frame that UDP refused goes out over TCP at once and, when UDP works again, over UDP
  too, after the frame that shows it (`sdk/stream/sender.go:457`, `:467`). Pause stops
  the ticks: a frame under way goes out and takes the frames kept with it.
- The write of `sender.go:468` has no deadline (`transport/conn.go:41`): while the peer
  does not read, Stop waits for it.
- `SendAudioUDP`, which takes PCM, is given encoded frames (`sdk/stream/sender.go:455`).
- AdvanceSequence "returns the sequence number that should be used for that batch", but
  adds the length of the new batch instead of the last one's (`audio/output.go:267`): a
  batch of one, 20 ms after a batch of two, begins with the number of that batch's
  second frame. NumbersGrow therefore asks for batches that do not shrink.
- A CryptSetup during the session leaves the UDP manager with the keys of the handshake
  for good (`client/runtime.go:174`); SealedAsAgreed is about those. A handshake key of
  more than 16 bytes gives UDP keys and the audio handler none (`client/connect.go:35`
  against `client/client.go:380`). The audio handler's crypto state is set and never
  used: the tunnel's packets go out as they are, inside the TLS connection. Of the
  client nonce 24 bytes are sent and 16 used (`client/handshake.go:85`).
- Voice sent by UDP has no frame size, and voice received by UDP is parsed without the
  session number that ProcessPacket expects of the same packet (`audio/udp.go:128`, `:198`
  against `audio/input.go:96`): sizes are read from the wrong place, and one beyond the
  end panics (`:224`), where ProcessPacket returns an error.
- After a failed write the tunnel keeps its frames and sends them later under new numbers
  (`audio/output.go:149`); SendAudioUDP drops the rest of its batch (`client/client.go:165`).
  Two goroutines that speak may take each other's frames, and then send them out of order.
- A callback that sends voice while UDPManager.Close waits for it blocks both
  (`audio/udp.go:101`); a second Close panics, as does SendPing before keys (`:255`).
  Client.Close leaves the UDP manager running (`client/client.go:116`).
- ChannelID and TreeID of TextMessage are written as varints under tags that announce a
  length (`protocol/messages.go:1340`); skipEnd skips the length of an unknown field and
  not its data (`:1693`); UserState.UserID loses its IncludeUserID when it is read.
  A length is compared with the end of the bytes as `i+int(n)` (`:98` and its like): one
  that no int holds passes as negative, and the slice panics. ParseAdvances says that
  Unmarshal panics over nothing else.
- A stop between the key and the metadata leaves a profile without metadata for ever:
  LoadOrCreate succeeds and Fingerprint does not (`identity/local.go:202`). If only the
  certificate is lost later, Create replaces it first, and a stop before the key leaves a
  pair that does not match and is never repaired. Two processes share the
  temporary file's name.

## 7. Plan

Done, in this order: StateStore; ClientSession, which composes the store with server
and application; ClientLifecycle; CryptState against ReplayGuard; JitterBuffer and
ReconnectManager, composed in StreamSender, against Mailbox; WireFormat; IdentityStore; AudioOutput and
UdpManager, composed with the keys in VoicePath.

Next:

1. VoicePath with CryptState in place of a comparison of keys: what a re-key or a gap of
   more than half a byte does to the stream of datagrams.
2. The sender's callbacks with its mutexes as state, and the metadata updater.
3. IdentityStore with two processes, whose temporary files have one name.
