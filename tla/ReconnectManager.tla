--------------------------- MODULE ReconnectManager ---------------------------
(***************************************************************************)
(* ReconnectManager of sdk/stream/reconnect.go.  Every method holds r.mu,  *)
(* so each is one action.  A timer that has gone off calls back in a       *)
(* goroutine of its own, which locks r.mu again to read the attempt: what  *)
(* it reports may have changed since.                                      *)
(*                                                                         *)
(* The buffer is a Go slice: dropping the oldest frame also gives up its   *)
(* place, and append makes a slice that is full twice as large.  (From 256  *)
(* places on it grows more slowly, and the allocator may round up.)        *)
(***************************************************************************)
EXTENDS Integers, Sequences

CONSTANTS
  Reconnect,           \* StreamConfig, as the next four
  MaxAttempts,
  ReconnectBufferSize,
  InitialDelay,
  MaxDelay,
  MaxPending           \* bound: timers that went off and have not called back

ASSUME ReconnectConstants ==
  /\ Reconnect \in BOOLEAN
  /\ MaxAttempts \in Nat /\ ReconnectBufferSize \in Nat
  /\ InitialDelay \in Nat \ {0} /\ MaxDelay \in Nat \ {0}
  /\ MaxPending \in Nat

VARIABLES
  closed,       \* ReconnectManager.closed
  attempts,
  timer,        \* when reconnectTimer goes off, 0 if it will not
  pending,      \* callbacks of the timer that have not locked r.mu yet
  audioBuffer,  \* the frames kept
  capacity      \* cap(audioBuffer)

schedule == <<attempts, timer, pending>>
buffer == <<audioBuffer, capacity>>
reconnVars == <<closed, schedule, buffer>>

ReconnInit ==
  /\ closed = FALSE /\ attempts = 0 /\ timer = 0 /\ pending = 0
  /\ audioBuffer = <<>> /\ capacity = ReconnectBufferSize

\* A slice is never longer than its capacity.
ReconnTypes ==
  /\ closed \in BOOLEAN /\ attempts \in Nat /\ timer \in Nat /\ pending \in 0..MaxPending
  /\ audioBuffer \in Seq(Nat) /\ capacity \in Nat /\ Len(audioBuffer) <= capacity

OnDisconnect(now) ==
  /\ IF closed \/ ~Reconnect THEN UNCHANGED <<attempts, timer>>
     ELSE attempts' = 1 /\ timer' = now + InitialDelay
  /\ UNCHANGED <<closed, pending, buffer>>

\* The delay before attempt a: doubled for each attempt after the first, and
\* cut to MaxDelay once it is above it.  (BackoffMultiplier is 2.)
Backoff(a) ==
  LET delay[i \in 0..(a - 1)] ==
        IF i = 0 THEN InitialDelay
        ELSE IF 2 * delay[i - 1] > MaxDelay THEN MaxDelay ELSE 2 * delay[i - 1]
  IN  delay[a - 1]

\* A bug: the test for closed is forgotten.
OnReconnectFailureAfterClose(now) ==
  /\ attempts' = attempts + 1
  /\ timer' = IF attempts' > MaxAttempts THEN timer ELSE now + Backoff(attempts')
  /\ UNCHANGED <<closed, pending, buffer>>

\* Past MaxAttempts nothing is scheduled, and what is is left alone.
OnReconnectFailure(now) ==
  /\ IF closed THEN UNCHANGED <<attempts, timer>>
     ELSE /\ attempts' = attempts + 1
          /\ timer' = IF attempts' > MaxAttempts THEN timer
                      ELSE now + Backoff(attempts')
  /\ UNCHANGED <<closed, pending, buffer>>

\* A bug: the timer is left running.
OnReconnectSuccessLeavesTimer ==
  /\ attempts' = 0 /\ audioBuffer' = <<>>
  /\ UNCHANGED <<closed, timer, pending, capacity>>

\* Called under r.mu: the application's OnConnect.  (It is not modelled.)
OnReconnectSuccess ==
  /\ attempts' = 0 /\ timer' = 0 /\ audioBuffer' = <<>>
  /\ UNCHANGED <<closed, pending, capacity>>

\* A bug: the newest frame is put where the oldest was dropped.
BufferFrameInFront(f) ==
  /\ IF closed THEN UNCHANGED buffer
     ELSE LET full == Len(audioBuffer) >= capacity
              kept == IF full /\ audioBuffer # <<>> THEN Tail(audioBuffer) ELSE audioBuffer
          IN  audioBuffer' = <<f>> \o kept /\ capacity' = capacity + 1
  /\ UNCHANGED <<closed, schedule>>

\* A bug: a full buffer turns the newest frame away.
BufferFrameKeepsOld(f) ==
  /\ IF closed \/ Len(audioBuffer) >= capacity THEN UNCHANGED buffer
     ELSE audioBuffer' = Append(audioBuffer, f) /\ UNCHANGED capacity
  /\ UNCHANGED <<closed, schedule>>

BufferFrame(f) ==
  /\ IF closed THEN UNCHANGED buffer
     ELSE LET full == Len(audioBuffer) >= capacity
              drop == full /\ audioBuffer # <<>>
              kept == IF drop THEN Tail(audioBuffer) ELSE audioBuffer
              room == IF drop THEN capacity - 1 ELSE capacity
          IN  /\ audioBuffer' = Append(kept, f)
              /\ capacity' = IF Len(kept) < room THEN room
                             ELSE IF room = 0 THEN 1 ELSE 2 * room
  /\ UNCHANGED <<closed, schedule>>

\* The frames handed out are audioBuffer.
PopBuffered ==
  /\ IF audioBuffer = <<>> THEN UNCHANGED buffer
     ELSE audioBuffer' = <<>> /\ capacity' = ReconnectBufferSize
  /\ UNCHANGED <<closed, schedule>>

CloseReconn ==
  /\ closed' = TRUE /\ timer' = 0
  /\ audioBuffer' = <<>> /\ capacity' = 0
  /\ UNCHANGED <<attempts, pending>>

\* The timer goes off.
TimerFires(now) ==
  /\ timer # 0 /\ timer <= now /\ pending < MaxPending
  /\ timer' = 0 /\ pending' = pending + 1
  /\ UNCHANGED <<closed, attempts, buffer>>

\* Its goroutine reads the attempt and calls OnReconnecting with it.
TimerCallsBack ==
  /\ pending > 0 /\ pending' = pending - 1
  /\ UNCHANGED <<closed, attempts, timer, buffer>>
=============================================================================
