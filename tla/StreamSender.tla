----------------------------- MODULE StreamSender -----------------------------
(***************************************************************************)
(* StreamSender of sdk/stream/sender.go with its jitter buffer and its     *)
(* reconnect manager: the goroutine that sends one frame per tick, the     *)
(* goroutines that start, pause and stop it, and an application that uses  *)
(* the reconnect manager it is handed by GetReconnectManager.              *)
(*                                                                         *)
(* Time is in units of which a frame lasts Period.  A tick is taken up to  *)
(* Slack units late, and the clock is read several times while its frame   *)
(* is handled; longer delays, for which the ticker drops ticks, are left   *)
(* out, as is what the frames hold: one that was read when the clock said  *)
(* t is t + Depth * Period, its deadline, and what goes to the encoder is  *)
(* numbered.  Outcomes of the client's Send methods are external; the one  *)
(* that writes to the TCP connection has none while the peer does not read. *)
(***************************************************************************)
EXTENDS JitterBuffer, ReconnectManager, FiniteSets, Functions

CONSTANTS
  Stoppers,          \* goroutines that call Stop
  SkipSilentFrames,  \* StreamConfig
  Slack,             \* bound: how late a tick is taken and its frame handled
  MaxTicks,          \* bound: periods
  MaxCalls           \* bound: calls from the application but Start and Stop

ASSUME StreamConstants ==
  /\ SkipSilentFrames \in BOOLEAN
  /\ Slack \in Nat /\ Slack < Period
  /\ MaxTicks \in Nat /\ MaxCalls \in Nat

VARIABLES
  now,         \* the clock
  run,         \* where the sending goroutine is
  frame,       \* what it is sending: a number and the frame read, or Silence
  flushing,    \* frames it popped from the reconnect buffer and not sent yet
  sent,        \* the numbers sent over UDP, in order
  tunnelled,   \* the numbers sent over TCP, in order
  active, paused, stopped,  \* StreamSender.active, .paused, .closed
  ctx,         \* StreamSender.ctx: "none", "live" or "done"
  stopper,     \* where each caller of Stop is
  disconnects, \* OnDisconnect calls
  backlog,     \* frames that were kept when Pause was called
  afterPause,  \* frames sent since then, over UDP and TCP
  calls        \* calls from the application

flags == <<active, stopped, ctx>>
progress == <<run, frame, flushing, sent>>
history == <<tunnelled, backlog, afterPause>>
vars == <<jitterVars, reconnVars, now, progress, flags, paused, stopper,
          disconnects, history, calls>>

Init ==
  /\ JitterInit /\ ReconnInit
  /\ now = 0 /\ run = "off" /\ frame = [number |-> 0, pcm |-> Silence]
  /\ flushing = <<>> /\ sent = <<>> /\ tunnelled = <<>>
  /\ active = FALSE /\ paused = FALSE /\ stopped = FALSE /\ ctx = "none"
  /\ stopper = [c \in Stoppers |-> "idle"]
  /\ disconnects = 0 /\ backlog = 0 /\ afterPause = 0 /\ calls = 0

-----------------------------------------------------------------------------
(* Starting, pausing, cancelling: each under s.mu.                          *)

appUnchanged == UNCHANGED <<stopper, disconnects>>

Start ==
  /\ ~stopped /\ ~active
  /\ ctx' = "live" /\ active' = TRUE /\ paused' = FALSE /\ run' = "select"
  /\ UNCHANGED <<jitterVars, reconnVars, now, frame, flushing, sent, stopped,
                 history, calls>>
  /\ appUnchanged

\* The context given to Start is done; active is left as it is.
Cancel ==
  /\ ctx = "live" /\ ctx' = "done"
  /\ UNCHANGED <<jitterVars, reconnVars, now, progress, active, stopped, paused,
                 history, calls>>
  /\ appUnchanged

AppCalls == calls < MaxCalls /\ calls' = calls + 1

Pause ==
  /\ AppCalls /\ paused' = TRUE
  /\ IF paused THEN UNCHANGED <<backlog, afterPause>>
     ELSE backlog' = Len(audioBuffer) + Len(flushing) /\ afterPause' = 0
  /\ UNCHANGED <<jitterVars, reconnVars, now, progress, tunnelled, flags>> /\ appUnchanged

Resume ==
  /\ AppCalls /\ paused' = FALSE
  /\ UNCHANGED <<jitterVars, reconnVars, now, progress, flags, history>>
  /\ appUnchanged

\* The application does the reconnecting and reports to the manager.
Report ==
  /\ AppCalls
  /\ \/ OnDisconnect(now)
     \/ OnReconnectFailure(now)
     \/ OnReconnectSuccess
     \/ PopBuffered
  /\ UNCHANGED <<jitterVars, now, progress, flags, paused, history>>
  /\ appUnchanged

-----------------------------------------------------------------------------
(* Stop.                                                                    *)

\* A bug: the test for a second call is forgotten.
StopCallAgain(c) ==
  /\ stopper[c] = "idle"
  /\ stopper' = [stopper EXCEPT ![c] = "waiting"]
  /\ stopped' = TRUE /\ active' = FALSE
  /\ ctx' = IF ctx = "none" THEN "none" ELSE "done"
  /\ UNCHANGED <<jitterVars, reconnVars, now, progress, paused, disconnects,
                 history, calls>>

\* A call that finds another one under way returns at once.
StopCall(c) ==
  /\ stopper[c] = "idle"
  /\ IF stopped
     THEN stopper' = [stopper EXCEPT ![c] = "early"] /\ UNCHANGED flags
     ELSE /\ stopper' = [stopper EXCEPT ![c] = "waiting"]
          /\ stopped' = TRUE /\ active' = FALSE
          /\ ctx' = IF ctx = "none" THEN "none" ELSE "done"
  /\ UNCHANGED <<jitterVars, reconnVars, now, progress, paused, disconnects,
                 history, calls>>

\* A bug: the parts are closed without waiting for the goroutine.
StopCloseHasty(c) ==
  /\ stopper[c] = "waiting"
  /\ stopper' = [stopper EXCEPT ![c] = "telling"]
  /\ CloseJitter /\ CloseReconn
  /\ UNCHANGED <<now, progress, flags, paused, disconnects, history, calls>>

\* wg.Wait returns and the parts are closed.  Mixer, metadata updater and
\* encoder are not modelled.
StopClose(c) ==
  /\ stopper[c] = "waiting" /\ run \in {"off", "done"}
  /\ stopper' = [stopper EXCEPT ![c] = "telling"]
  /\ CloseJitter /\ CloseReconn
  /\ UNCHANGED <<now, progress, flags, paused, disconnects, history, calls>>

\* OnDisconnect is called and Stop returns.
StopTell(c) ==
  /\ stopper[c] = "telling"
  /\ stopper' = [stopper EXCEPT ![c] = "done"]
  /\ disconnects' = disconnects + 1
  /\ UNCHANGED <<jitterVars, reconnVars, now, progress, flags, paused, history,
                 calls>>

-----------------------------------------------------------------------------
(* The clock and the reconnect timer.                                       *)

outside == UNCHANGED <<flags, paused, stopper, disconnects, calls>>

\* A new period begins; what was due before has happened.
Clock ==
  /\ timer = 0 \/ timer > now
  /\ now < MaxTicks * Period
  /\ \E s \in 0..Slack : now' = (now \div Period + 1) * Period + s

TimePasses ==
  /\ run \in {"off", "done"} /\ Clock
  /\ UNCHANGED <<jitterVars, reconnVars, progress, history>> /\ outside

Timer ==
  /\ TimerFires(now) \/ TimerCallsBack
  /\ UNCHANGED <<jitterVars, now, progress, history>> /\ outside

-----------------------------------------------------------------------------
(* run and sendFrame.                                                       *)

\* A tick is ready.  When a stop is ready too, select takes either.
Tick ==
  /\ run = "select" /\ Clock /\ run' = "check"
  /\ UNCHANGED <<jitterVars, reconnVars, frame, flushing, sent, history>> /\ outside

Leave ==
  /\ run = "select" /\ (stopped \/ ctx = "done") /\ run' = "done"
  /\ UNCHANGED <<jitterVars, reconnVars, now, frame, flushing, sent, history>>
  /\ outside

\* A bug: paused is not looked at.
CheckBlind ==
  /\ run = "check" /\ run' = "mix"
  /\ UNCHANGED <<jitterVars, reconnVars, now, frame, flushing, sent, history>>
  /\ outside

\* A bug: a paused sender waits for Resume where it is.
CheckWaits ==
  /\ run = "check" /\ ~paused /\ run' = "mix"
  /\ UNCHANGED <<jitterVars, reconnVars, now, frame, flushing, sent, history>>
  /\ outside

Check ==
  /\ run = "check" /\ run' = IF paused THEN "select" ELSE "mix"
  /\ UNCHANGED <<jitterVars, reconnVars, now, frame, flushing, sent, history>>
  /\ outside

\* A frame is read from the mixer (which never fails: a source without data
\* is silence) and may be skipped as not speech.  Otherwise it is pushed, and
\* what the jitter buffer has to play is sent in its place.  The clock is read
\* for the deadline, in Push, and for Pop.
Mix ==
  /\ run = "mix"
  /\ \/ /\ SkipSilentFrames
        /\ run' = "select" /\ UNCHANGED <<jitterVars, now, frame>>
     \/ \E t \in now .. (now \div Period) * Period + Slack :
        \E u \in t .. (now \div Period) * Period + Slack :
        \E v \in u .. (now \div Period) * Period + Slack :
          LET deadline == t + Depth * Period
              held == IF jitterClosed THEN <<>> ELSE Pushed(frames, deadline, u)
          IN  /\ frame' = [frame EXCEPT !.pcm = IF PoppedOk(held)
                                                THEN PoppedFrame(held, v) ELSE deadline]
              /\ frames' = AfterPop(held, v)
              /\ now' = v /\ run' = "encode"
              /\ UNCHANGED jitterClosed
  /\ UNCHANGED <<reconnVars, flushing, sent, history>> /\ outside

-----------------------------------------------------------------------------
(* doSendAudio.                                                             *)

sending == UNCHANGED <<jitterVars, now>> /\ outside

\* Frame n goes out over UDP, or over TCP.
Counted == afterPause' = IF paused THEN afterPause + 1 ELSE afterPause
OverUDP(n) == sent' = Append(sent, n) /\ Counted /\ UNCHANGED <<tunnelled, backlog>>
OverTCP(n) == tunnelled' = Append(tunnelled, n) /\ Counted /\ UNCHANGED <<sent, backlog>>

\* The encoder may fail; OnError is called.
Encode ==
  /\ run = "encode"
  /\ \/ run' = "select" /\ UNCHANGED frame
     \/ run' = "send" /\ frame' = [frame EXCEPT !.number = @ + 1]
  /\ UNCHANGED <<reconnVars, flushing, sent, history>> /\ sending

\* A bug: the frame is kept before it is known whether UDP works.
SendUDPKeepsFirst ==
  /\ run = "send"
  /\ \/ OverUDP(frame.number) /\ run' = "pop" /\ BufferFrame(frame.number)
     \/ OnDisconnect(now) /\ run' = "buffer" /\ UNCHANGED <<sent, history>>
  /\ UNCHANGED <<frame, flushing>> /\ sending

SendUDP ==
  /\ run = "send"
  /\ \/ OverUDP(frame.number) /\ run' = "pop" /\ UNCHANGED reconnVars
     \/ OnDisconnect(now) /\ run' = "buffer" /\ UNCHANGED <<sent, history>>
  /\ UNCHANGED <<frame, flushing>> /\ sending

\* UDP works: what was kept goes out after the frame.
Pop ==
  /\ run = "pop" /\ run' = "flush"
  /\ PopBuffered /\ flushing' = audioBuffer
  /\ UNCHANGED <<frame, sent, history>> /\ sending

\* When one fails the rest is lost.
Flush ==
  /\ run = "flush"
  /\ \/ /\ flushing = <<>> /\ run' = "select"
        /\ OnReconnectSuccess /\ UNCHANGED <<flushing, sent, history>>
     \/ /\ flushing # <<>> /\ flushing' = Tail(flushing)
        /\ OverUDP(Head(flushing)) /\ UNCHANGED <<run, reconnVars>>
     \/ /\ flushing # <<>> /\ flushing' = <<>> /\ run' = "select"
        /\ OnReconnectFailure(now) /\ UNCHANGED <<sent, history>>
  /\ UNCHANGED frame /\ sending

\* UDP failed: the frame is kept for later and sent over TCP as well.
Buffer ==
  /\ run = "buffer" /\ run' = "tcp" /\ BufferFrame(frame.number)
  /\ UNCHANGED <<frame, flushing, sent, history>> /\ sending

\* The write has no deadline: it returns when the peer has read, or fails.
SendTCP ==
  /\ run = "tcp" /\ run' = "select"
  /\ \/ OverTCP(frame.number) /\ UNCHANGED reconnVars
     \/ OnReconnectFailure(now) /\ UNCHANGED <<sent, history>>
  /\ UNCHANGED <<frame, flushing>> /\ sending

-----------------------------------------------------------------------------

RunNext == Tick \/ Check \/ Mix \/ Encode \/ SendUDP \/ Pop \/ Flush \/ Buffer \/ SendTCP

Next ==
  \/ Start \/ Cancel \/ Pause \/ Resume \/ Report
  \/ \E c \in Stoppers : StopCall(c) \/ StopClose(c) \/ StopTell(c)
  \/ TimePasses \/ Timer \/ RunNext \/ Leave

\* Goroutines that can run do, but for one that writes to the connection, and a
\* select with a stop ready does not lose to ticks for ever.
Fairness ==
  /\ WF_vars(RunNext /\ run # "tcp") /\ SF_vars(Leave) /\ WF_vars(Timer)
  /\ \A c \in Stoppers : WF_vars(StopClose(c) \/ StopTell(c))

Spec == Init /\ [][Next]_vars /\ Fairness

\* The peer keeps reading, or the connection is known to be broken: a write to
\* it returns.  Nothing in the code sees to that.
ReadingSpec == Spec /\ WF_vars(SendTCP)

-----------------------------------------------------------------------------
(* Properties.                                                              *)

\* The type invariant.
TypeOK ==
  /\ JitterTypes /\ ReconnTypes
  /\ now \in Nat /\ frame \in [number : Nat, pcm : Nat]
  /\ run \in {"off", "select", "check", "mix", "encode", "send", "pop", "flush",
              "buffer", "tcp", "done"}
  /\ flushing \in Seq(Nat) /\ sent \in Seq(Nat) /\ tunnelled \in Seq(Nat)
  /\ active \in BOOLEAN /\ paused \in BOOLEAN /\ stopped \in BOOLEAN
  /\ ctx \in {"none", "live", "done"}
  /\ stopper \in [Stoppers -> {"idle", "waiting", "telling", "done", "early"}]
  /\ disconnects \in Nat /\ backlog \in Nat /\ afterPause \in Nat /\ calls \in 0..MaxCalls

\* A frame that is played was read Depth periods before, to within the slack:
\* the jitter buffer never plays one that has been waiting through a pause.
AudioOnTime ==
  run = "encode" /\ frame.pcm # Silence => frame.pcm <= now /\ now <= frame.pcm + Slack

\* The numbers that a newer one has overtaken.
Overtaken(s, i) == \E j \in 1..i-1 : s[j] > s[i]

\* Neither transport takes a frame twice.
UDPOnce == \A i, j \in DOMAIN sent : sent[i] = sent[j] => i = j
TCPOnce == \A i, j \in DOMAIN tunnelled : tunnelled[i] = tunnelled[j] => i = j

\* A frame that goes out over both is one that UDP had failed: its copy goes out
\* over UDP when a newer frame has shown that UDP works again.
CopiesLate ==
  \A i \in DOMAIN sent, j \in DOMAIN tunnelled :
    sent[i] = tunnelled[j] => Overtaken(sent, i)

\* A frame goes out over each transport once, although one that failed is kept and
\* sent later, over TCP at once, and the keeping and the sending can fail again
\* and be interrupted by the application's calls.  It may well go out over both:
\* TCP takes it at once, and the flush that follows the outage sends it again.
SentOnce == UDPOnce /\ TCPOnce /\ CopiesLate

\* Frames kept through outages come out in the order they were made, however
\* many outages: those that newer frames have overtaken are in order.
FlushedInOrder ==
  \A i, j \in DOMAIN sent :
    i < j /\ Overtaken(sent, i) /\ Overtaken(sent, j) => sent[i] < sent[j]

\* After Close the manager keeps nothing and has nothing scheduled, whoever
\* reports to it late.
ClosedQuiet == closed => timer = 0 /\ audioBuffer = <<>>

\* An attempt is scheduled only for a connection that is not known to work.
TimerMeansTrouble == timer # 0 => attempts > 0

\* One timer is started, restarted and stopped by three methods, while its
\* callback may be under way and whoever reports late: it runs only for trouble,
\* and never again after Close.
TimerObeys == ClosedQuiet /\ TimerMeansTrouble

\* The sender, its buffer and its flushing are a Mailbox: a frame that is made is
\* sent or kept, only the oldest gives up its place, and what is taken out to be
\* sent is sent in order, or all of it is forgotten.
Newest == IF run \in {"send", "buffer"} THEN "due" ELSE "settled"
Mail == INSTANCE Mailbox WITH
  made <- frame.number, newest <- Newest, kept <- flushing \o audioBuffer
FramesHandled == Mail!Spec

\* However many goroutines call Stop, OnDisconnect is called once.
DisconnectOnce == disconnects <= 1

\* When the Stop that did the work has returned, nothing more goes out.
StopIsFinal ==
  [][(\E c \in Stoppers : stopper[c] = "done") => UNCHANGED <<progress, tunnelled>>]_vars

\* After Pause the frame that was on its way goes out and, if UDP works by then,
\* the frames that were kept before Pause: no more than that, over UDP and TCP.
PauseSettles == paused => afterPause <= 1 + backlog

\* Stop returns as long as the peer reads what is written to the connection, and
\* unless a callback calls it.
StopReturns == \A c \in Stoppers : stopper[c] = "waiting" ~> stopper[c] = "done"

-----------------------------------------------------------------------------
(* What comments say and the code does not do.                              *)

\* sdk/stream/jitter.go:8: "JitterBuffer smooths audio delivery by buffering
\* frames"; only "frames that arrive too late are replaced with silence".  A
\* frame that is in the buffer, in time, leaves it to be played.
FramesPlayed ==
  [][\A d \in Range(frames) \ Range(frames') : jitterClosed' \/ frame'.pcm = d]_vars

\* sdk/stream/reconnect.go:93: "If the buffer is full, the oldest frame is
\* dropped", and config.go:52: ReconnectBufferSize is the "audio frames to
\* buffer during reconnect".
BufferBounded == Len(audioBuffer) <= ReconnectBufferSize
=============================================================================
