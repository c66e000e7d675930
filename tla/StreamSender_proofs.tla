------------------------- MODULE StreamSender_proofs --------------------------
(***************************************************************************)
(* Theorems about the stream sender, for any number of callers of Stop, any *)
(* configuration, any outages and any number of calls and ticks.           *)
(***************************************************************************)
EXTENDS StreamSender, WellFoundedInduction, TLAPS

\* The types the other parts need.
KindInv ==
  /\ stopper \in [Stoppers -> {"idle", "waiting", "telling", "done", "early"}]
  /\ stopped \in BOOLEAN /\ closed \in BOOLEAN
  /\ attempts \in Nat

\* Of all callers of Stop at most one works: the others find it at work.
Working(c) == stopper[c] \in {"waiting", "telling", "done"}
WorkerInv ==
  \/ /\ \A c \in Stoppers : ~Working(c)
     /\ disconnects = 0
  \/ \E c \in Stoppers :
       /\ Working(c) /\ stopped
       /\ \A d \in Stoppers : Working(d) => d = c
       /\ disconnects = IF stopper[c] = "done" THEN 1 ELSE 0

\* Once the worker's wait is over, the goroutine has ended or never began.
EndedInv ==
  \A c \in Stoppers : stopper[c] \in {"telling", "done"}
    => stopped /\ run \in {"off", "done"}

\* The inductive invariant.
SenderInv ==
  /\ KindInv /\ ClosedQuiet /\ TimerMeansTrouble
  /\ WorkerInv /\ EndedInv

-----------------------------------------------------------------------------
(* The reconnect manager, whoever calls it.                                 *)

ManagerInv ==
  closed \in BOOLEAN /\ attempts \in Nat /\ ClosedQuiet /\ TimerMeansTrouble

LEMMA ManagerReports ==
  ASSUME ManagerInv,
         OnDisconnect(now) \/ OnReconnectFailure(now) \/ OnReconnectSuccess
  PROVE  ManagerInv' /\ closed' = closed
<1> USE DEF ManagerInv, ClosedQuiet, TimerMeansTrouble, buffer
<1>1. CASE OnDisconnect(now)
  BY <1>1 DEF OnDisconnect
<1>2. CASE OnReconnectFailure(now)
  BY <1>2 DEF OnReconnectFailure
<1>3. CASE OnReconnectSuccess
  BY <1>3 DEF OnReconnectSuccess
<1>4. QED
  BY <1>1, <1>2, <1>3

LEMMA ManagerBuffers ==
  ASSUME ManagerInv, NEW f, BufferFrame(f) \/ PopBuffered
  PROVE  ManagerInv' /\ closed' = closed
<1> USE DEF ManagerInv, ClosedQuiet, TimerMeansTrouble, buffer, schedule
<1>1. CASE BufferFrame(f)
  BY <1>1 DEF BufferFrame
<1>2. CASE PopBuffered
  BY <1>2 DEF PopBuffered
<1>3. QED
  BY <1>1, <1>2

LEMMA ManagerTimer ==
  ASSUME ManagerInv, TimerFires(now) \/ TimerCallsBack
  PROVE  ManagerInv' /\ closed' = closed
BY DEF ManagerInv, ClosedQuiet, TimerMeansTrouble, buffer, TimerFires, TimerCallsBack

LEMMA ManagerStutters ==
  ASSUME ManagerInv, UNCHANGED reconnVars
  PROVE  ManagerInv' /\ closed' = closed
BY DEF ManagerInv, ClosedQuiet, TimerMeansTrouble, reconnVars, buffer, schedule

\* What is left to show of a step that calls the manager.
LEMMA Rest ==
  ASSUME SenderInv, ManagerInv', UNCHANGED <<stopper, disconnects>>,
         stopped' = stopped, run' = run \/ run \notin {"off", "done"} \/ ~stopped
  PROVE  SenderInv'
<1> USE DEF SenderInv, KindInv, ManagerInv
<1>1. KindInv'
  OBVIOUS
<1>2. WorkerInv'
  BY DEF WorkerInv, Working
<1>3. EndedInv'
  BY DEF EndedInv
<1>4. QED
  BY <1>1, <1>2, <1>3

-----------------------------------------------------------------------------
(* One lemma per process.                                                   *)

\* The application: starting, cancelling, pausing, reporting.
LEMMA ApplicationStep ==
  ASSUME SenderInv, Start \/ Cancel \/ Pause \/ Resume \/ Report
  PROVE  SenderInv'
<1>1. ManagerInv
  BY DEF SenderInv, KindInv, ManagerInv
<1>2. CASE Start
  <2>1. ManagerInv'
    BY <1>1, <1>2, ManagerStutters DEF Start
  <2>3. QED
    BY <1>2, <2>1, Rest DEF Start, appUnchanged
<1>3. CASE Cancel
  <2>1. ManagerInv'
    BY <1>1, <1>3, ManagerStutters DEF Cancel
  <2>3. QED
    BY <1>3, <2>1, Rest DEF Cancel, appUnchanged, progress
<1>4. CASE Pause
  <2>1. ManagerInv'
    BY <1>1, <1>4, ManagerStutters DEF Pause
  <2>3. QED
    BY <1>4, <2>1, Rest DEF Pause, appUnchanged, progress, flags
<1>5. CASE Resume
  <2>1. ManagerInv'
    BY <1>1, <1>5, ManagerStutters DEF Resume
  <2>3. QED
    BY <1>5, <2>1, Rest DEF Resume, appUnchanged, progress, flags
<1>6. CASE Report
  <2>1. ManagerInv'
    BY <1>1, <1>6, ManagerReports, ManagerBuffers DEF Report
  <2>3. QED
    BY <1>6, <2>1, Rest DEF Report, appUnchanged, progress, flags
<1>7. QED
  BY <1>2, <1>3, <1>4, <1>5, <1>6

\* Stop.  Only here does the worker change.
LEMMA StopStep ==
  ASSUME SenderInv, NEW c \in Stoppers, StopCall(c) \/ StopClose(c) \/ StopTell(c)
  PROVE  SenderInv'
<1> USE DEF SenderInv, KindInv
<1>1. CASE StopCall(c)
  <2>1. KindInv' /\ ClosedQuiet' /\ TimerMeansTrouble'
    BY <1>1 DEF StopCall, ClosedQuiet, TimerMeansTrouble, reconnVars, schedule, buffer, progress, flags
  <2>2. WorkerInv'
    BY <1>1 DEF StopCall, WorkerInv, Working, flags
  <2>3. EndedInv'
    BY <1>1 DEF StopCall, EndedInv, progress, flags
  <2>4. QED
    BY <2>1, <2>2, <2>3
<1>2. CASE StopClose(c)
  <2>1. KindInv' /\ ClosedQuiet' /\ TimerMeansTrouble'
    BY <1>2 DEF StopClose, CloseReconn, ClosedQuiet, TimerMeansTrouble,
                progress, flags
  <2>2. WorkerInv'
    BY <1>2 DEF StopClose, WorkerInv, Working, flags
  <2>3. EndedInv'
    BY <1>2 DEF StopClose, EndedInv, WorkerInv, Working, progress, flags
  <2>4. QED
    BY <2>1, <2>2, <2>3
<1>3. CASE StopTell(c)
  <2>1. KindInv' /\ ClosedQuiet' /\ TimerMeansTrouble'
    BY <1>3 DEF StopTell, ClosedQuiet, TimerMeansTrouble, reconnVars, schedule, buffer, progress, flags
  <2>2. WorkerInv'
    BY <1>3 DEF StopTell, WorkerInv, Working, flags
  <2>3. EndedInv'
    BY <1>3 DEF StopTell, EndedInv, progress, flags
  <2>4. QED
    BY <2>1, <2>2, <2>3
<1>4. QED
  BY <1>1, <1>2, <1>3

\* The clock and the timer.
LEMMA ClockStep ==
  ASSUME SenderInv, TimePasses \/ Timer
  PROVE  SenderInv'
<1>1. ManagerInv
  BY DEF SenderInv, KindInv, ManagerInv
<1>2. ManagerInv'
  BY <1>1, ManagerStutters, ManagerTimer DEF TimePasses, Timer
<1>3. UNCHANGED <<stopper, disconnects>> /\ stopped' = stopped /\ run' = run
  BY DEF TimePasses, Timer, outside, flags, progress
<1>4. QED
  BY <1>2, <1>3, Rest

\* The sending goroutine.
LEMMA RunStep ==
  ASSUME SenderInv, RunNext \/ Leave
  PROVE  SenderInv'
<1>1. ManagerInv
  BY DEF SenderInv, KindInv, ManagerInv
<1>2. UNCHANGED <<stopper, disconnects>> /\ stopped' = stopped
      /\ run \notin {"off", "done"} /\ paused' = paused
  BY DEF RunNext, Leave, Tick, Check, Mix, Encode, SendUDP, Pop, Flush, Buffer,
         SendTCP, sending, outside, flags
<1>3. ManagerInv'
  <2>1. CASE Tick \/ Leave \/ Check \/ Mix \/ Encode
    BY <1>1, <2>1, ManagerStutters DEF Tick, Leave, Check, Mix, Encode
  <2>2. CASE SendUDP
    BY <1>1, <2>2, ManagerStutters, ManagerReports DEF SendUDP
  <2>3. CASE Pop \/ Buffer
    BY <1>1, <2>3, ManagerBuffers DEF Pop, Buffer
  <2>4. CASE Flush \/ SendTCP
    BY <1>1, <2>4, ManagerStutters, ManagerReports DEF Flush, SendTCP
  <2>5. QED
    BY <2>1, <2>2, <2>3, <2>4 DEF RunNext
<1>4. QED
  BY <1>2, <1>3, Rest

LEMMA SenderInit == Init => SenderInv
<1> SUFFICES ASSUME Init
             PROVE  SenderInv
  OBVIOUS
<1>1. /\ stopper = [c \in Stoppers |-> "idle"] /\ stopped = FALSE
      /\ disconnects = 0
      /\ closed = FALSE /\ attempts = 0 /\ timer = 0
  BY DEF Init, ReconnInit
<1>2. KindInv /\ ClosedQuiet /\ TimerMeansTrouble
  BY <1>1 DEF KindInv, ClosedQuiet, TimerMeansTrouble
<1>3. WorkerInv /\ EndedInv
  BY <1>1 DEF WorkerInv, Working, EndedInv
<1>4. QED
  BY <1>2, <1>3 DEF SenderInv

LEMMA SenderInductive == SenderInv /\ [Next]_vars => SenderInv'
<1> SUFFICES ASSUME SenderInv, [Next]_vars
             PROVE  SenderInv'
  OBVIOUS
<1>1. CASE UNCHANGED vars
  BY <1>1 DEF vars, reconnVars, schedule, buffer, progress, flags, SenderInv, KindInv,
              ClosedQuiet, TimerMeansTrouble, WorkerInv, Working, EndedInv
<1>2. QED
  BY <1>1, ApplicationStep, StopStep, ClockStep, RunStep DEF Next

\* The manager, the callers of Stop and the goroutine, in every interleaving.
THEOREM SenderInvariant == Spec => []SenderInv
BY SenderInit, SenderInductive, PTL DEF Spec

-----------------------------------------------------------------------------
(* What the run checks, proved.                                             *)

\* A manager that is closed holds nothing and has nothing scheduled, and one
\* that schedules counts an attempt: for any reports at any time.
THEOREM ManagerQuiet == Spec => []TimerObeys
<1>1. SenderInv => TimerObeys
  BY DEF SenderInv, TimerObeys
<1>2. QED
  BY <1>1, SenderInvariant, PTL

\* However many goroutines call Stop, OnDisconnect is called once at most.
THEOREM ToldOnce == Spec => []DisconnectOnce
<1>1. SenderInv => DisconnectOnce
  BY DEF SenderInv, WorkerInv, DisconnectOnce
<1>2. QED
  BY <1>1, SenderInvariant, PTL

\* When the Stop that did the work has returned, the goroutine does nothing
\* more, and no Start revives it.
THEOREM StopEndsIt == Spec => StopIsFinal
<1>1. SenderInv /\ [Next]_vars =>
        [(\E c \in Stoppers : stopper[c] = "done") => UNCHANGED <<progress, tunnelled>>]_vars
  <2> SUFFICES ASSUME SenderInv, Next, NEW c \in Stoppers, stopper[c] = "done"
               PROVE  UNCHANGED <<progress, tunnelled>>
    BY DEF vars
  <2>1. stopped /\ run \in {"off", "done"}
    BY DEF SenderInv, EndedInv
  <2>2. ~Start /\ ~RunNext /\ ~Leave
    BY <2>1 DEF Start, RunNext, Leave, Tick, Check, Mix, Encode, SendUDP, Pop, Flush,
                Buffer, SendTCP
  <2>3. QED
    BY <2>2 DEF Next, Cancel, Pause, Resume, Report, StopCall, StopClose, StopTell,
                TimePasses, Timer, progress, history
<1>2. QED
  BY <1>1, SenderInvariant, PTL DEF Spec, StopIsFinal

-----------------------------------------------------------------------------
(* Types, and what the jitter buffer and the backoff compute.  A recursive   *)
(* function is reasoned about by induction over a set of numbers.            *)

\* A set of numbers that is not empty has a least member.
LEMMA LeastMember ==
  ASSUME NEW S \in SUBSET Nat, S # {}
  PROVE  \E j \in S : \A k \in S : j <= k
<1>1. PICK x \in S : \A y \in S : ~(<<y, x>> \in OpToRel(<, Nat))
  BY NatLessThanWellFounded, WFMin
<1>2. \A y \in S : ~(y < x)
  BY <1>1 DEF OpToRel
<1> QED BY <1>2

\* Induction, for a set of numbers.
LEMMA AllNumbers ==
  ASSUME NEW S, 0 \in S, \A n \in Nat : n \in S => n + 1 \in S
  PROVE  Nat \subseteq S
<1> SUFFICES ASSUME Nat \ S # {} PROVE FALSE
  OBVIOUS
<1>1. PICK x \in Nat \ S : \A y \in Nat \ S : x <= y
  BY LeastMember
<1>2. x - 1 \in Nat /\ x - 1 \notin Nat \ S
  BY <1>1
<1> QED BY <1>2

LEMMA AllUpTo ==
  ASSUME NEW n \in Nat, NEW S, 0 \in S, \A i \in 1..n : i - 1 \in S => i \in S
  PROVE  0..n \subseteq S
<1> DEFINE T == {i \in Nat : i \in 0..n => i \in S}
<1>1. 0 \in T
  OBVIOUS
<1>2. ASSUME NEW i \in Nat, i \in T PROVE i + 1 \in T
  <2> SUFFICES ASSUME i + 1 \in 0..n PROVE i + 1 \in S
    OBVIOUS
  <2>1. i + 1 \in 1..n /\ (i + 1) - 1 \in S
    BY <1>2
  <2> QED BY <2>1
<1>3. Nat \subseteq T
  <2> HIDE DEF T
  <2> QED BY <1>1, <1>2, AllNumbers
<1> QED BY <1>3

\* A loop that n times makes of one value of X another one has a history.
IsHistory(f, n, X, first, step) ==
  f \in [0..n -> X] /\ f[0] = first /\ \A i \in 1..n : f[i] = step[i][f[i - 1]]

LEMMA LoopExists ==
  ASSUME NEW n \in Nat, NEW X, NEW first \in X, NEW step \in [1..n -> [X -> X]]
  PROVE  \E f : IsHistory(f, n, X, first, step)
<1> USE DEF IsHistory
<1> DEFINE History(f, m) == IsHistory(f, m, X, first, step)
           S == {m \in 0..n : \E f : History(f, m)}
<1>1. 0 \in S
  <2>1. History([i \in 0..0 |-> first], 0)
    OBVIOUS
  <2> HIDE DEF History
  <2> QED BY <2>1
<1>2. ASSUME NEW m \in 1..n, m - 1 \in S PROVE m \in S
  <2>1. PICK f : History(f, m - 1)
    BY <1>2
  <2> DEFINE g == [i \in 0..m |-> IF i = m THEN step[m][f[m - 1]] ELSE f[i]]
  <2>2. step[m][f[m - 1]] \in X
    BY <2>1
  <2>3. g \in [0..m -> X] /\ g[0] = first
    BY <2>1, <2>2
  <2>4. ASSUME NEW i \in 1..m PROVE g[i] = step[i][g[i - 1]]
    BY <2>1
  <2>5. History(g, m)
    BY <2>3, <2>4
  <2> HIDE DEF History, g
  <2>6. \E h : History(h, m)
    BY <2>5
  <2> QED BY <2>6
<1>3. 0..n \subseteq S
  <2> HIDE DEF S
  <2> QED BY <1>1, <1>2, AllUpTo
<1> QED BY <1>3

\* What Push keeps are frames that are not due.
LEMMA UndueLeft ==
  ASSUME NEW fs \in Seq(Nat), NEW t \in Nat
  PROVE  Undue(fs, t) \in Seq({d \in Nat : d > t})
<1> DEFINE X == Seq({d \in Nat : d > t})
           n == Len(fs)
           Keep(prev, i) == IF fs[i] > t THEN Append(prev, fs[i]) ELSE prev
           step == [i \in 1..n |-> [prev \in X |-> Keep(prev, i)]]
           IsValid(f) == f = [i \in 0..n |-> IF i = 0 THEN <<>> ELSE Keep(f[i - 1], i)]
           valid == CHOOSE f : IsValid(f)
<1>1. n \in Nat /\ <<>> \in X
  OBVIOUS
<1>2. \A s \in X, i \in 1..n : Keep(s, i) \in X
  <2>1. \A s \in X, d \in {d \in Nat : d > t} : Append(s, d) \in X
    OBVIOUS
  <2>2. \A i \in 1..n : fs[i] \in Nat
    OBVIOUS
  <2> QED BY <2>1, <2>2
<1> HIDE DEF X, n, Keep
<1>3. PICK f : /\ f \in [0..n -> X] /\ f[0] = <<>>
               /\ \A i \in 1..n : f[i] = Keep(f[i - 1], i)
  <2>1. step \in [1..n -> [X -> X]]
    BY <1>2
  <2>2. \A s \in X, i \in 1..n : step[i][s] = Keep(s, i)
    OBVIOUS
  <2> HIDE DEF step
  <2>3. PICK f : IsHistory(f, n, X, <<>>, step)
    BY <1>1, <2>1, LoopExists
  <2>4. f \in [0..n -> X] /\ f[0] = <<>> /\ \A i \in 1..n : f[i] = step[i][f[i - 1]]
    BY <2>3 DEF IsHistory
  <2>5. \A i \in 1..n : f[i - 1] \in X
    BY <1>1, <2>4
  <2>6. \A i \in 1..n : f[i] = Keep(f[i - 1], i)
    BY <2>2, <2>4, <2>5
  <2> QED BY <2>4, <2>6
<1>4. IsValid(f)
  BY <1>1, <1>3
<1>5. IsValid(valid)
  BY <1>4
<1> HIDE DEF valid
<1>6. \A i \in 0..n : valid[i] \in X
  <2> DEFINE S == {i \in 0..n : valid[i] \in X}
  <2>1. 0 \in S
    BY <1>1, <1>5
  <2>2. ASSUME NEW i \in 1..n, i - 1 \in S PROVE i \in S
    BY <1>1, <1>2, <1>5, <2>2
  <2> HIDE DEF S
  <2>3. 0..n \subseteq S
    BY <1>1, <2>1, <2>2, AllUpTo
  <2> QED BY <2>3 DEF S
<1>7. Undue(fs, t) = valid[n]
  BY DEF Undue, valid, n, Keep
<1> QED BY <1>1, <1>6, <1>7 DEF X

\* What Push leaves of frames that were made after time t, one of which it is
\* given: some frame, and none that is due at t.
LEMMA PushedLeft ==
  ASSUME NEW fs \in Seq(Nat), NEW t \in Nat, NEW d \in Nat, d > t
  PROVE  /\ Pushed(fs, d, t) \in Seq({e \in Nat : e > t})
         /\ Pushed(fs, d, t) # <<>>
<1> DEFINE L == {e \in Nat : e > t}
           valid == Undue(fs, t)
           Whole == Inserted(valid, d)
<1>1. valid \in Seq(L)
  BY UndueLeft
<1>2. maxDelay \in Nat
  BY JitterConstants DEF maxDelay
<1>3. Pushed(fs, d, t) = Limited(Whole)
  BY <1>2 DEF Pushed
<1> HIDE DEF valid
<1>4. Whole \in Seq(L) /\ Len(Whole) \in Nat \ {0}
  <2> DEFINE later == {i \in DOMAIN valid : d < valid[i]}
             at == IF later = {} THEN Len(valid) + 1 ELSE Min(later)
  <2>1. at \in 1..(Len(valid) + 1)
    <3>1. CASE later = {}
      BY <1>1, <3>1
    <3>2. CASE later # {}
      <4>1. later \subseteq 1..Len(valid) /\ Len(valid) \in Nat
        BY <1>1
      <4>2. \E j \in later : \A k \in later : j <= k
        <5>1. later \in SUBSET Nat
          BY <4>1
        <5> HIDE DEF later
        <5> QED BY <3>2, <5>1, LeastMember
      <4>3. Min(later) \in later
        BY <4>2 DEF Min
      <4> QED BY <3>2, <4>1, <4>3
    <3> QED BY <3>1, <3>2
  <2>2. Whole = SubSeq(valid, 1, at - 1) \o <<d>> \o SubSeq(valid, at, Len(valid))
    BY DEF Inserted, InsertAt
  <2> HIDE DEF at
  <2>3. /\ SubSeq(valid, 1, at - 1) \in Seq(L)
        /\ SubSeq(valid, at, Len(valid)) \in Seq(L)
    BY <1>1, <2>1
  <2>4. <<d>> \in Seq(L) /\ Len(<<d>>) = 1
    OBVIOUS
  <2> QED BY <2>2, <2>3, <2>4
<1>5. Limited(Whole) \in Seq(L) /\ Len(Limited(Whole)) \in Nat \ {0}
  <2> HIDE DEF Whole, L
  <2>1. Depth \in 1..20
    BY JitterConstants
  <2>2. CASE Len(Whole) > 2 * Depth
    <3>1. /\ SubSeq(Whole, Len(Whole) - Depth + 1, Len(Whole)) \in Seq(L)
          /\ Len(SubSeq(Whole, Len(Whole) - Depth + 1, Len(Whole))) = Depth
      BY <1>4, <2>1, <2>2
    <3> QED BY <2>1, <2>2, <3>1 DEF Limited
  <2>3. CASE ~(Len(Whole) > 2 * Depth)
    BY <1>4, <2>3 DEF Limited
  <2> QED BY <2>2, <2>3
<1> QED BY <1>3, <1>5

\* The delay is positive, and never more than the longer of the two that are
\* configured.
LEMMA BackoffBounded ==
  ASSUME NEW a \in Nat \ {0}
  PROVE  /\ Backoff(a) \in Nat \ {0}
         /\ Backoff(a) <= InitialDelay \/ Backoff(a) <= MaxDelay
<1> DEFINE X == {d \in Nat \ {0} : d <= InitialDelay \/ d <= MaxDelay}
           n == a - 1
           Doubled(d) == IF 2 * d > MaxDelay THEN MaxDelay ELSE 2 * d
           step == [i \in 1..n |-> [d \in X |-> Doubled(d)]]
           IsDelay(f) == f = [i \in 0..n |-> IF i = 0 THEN InitialDelay
                                             ELSE Doubled(f[i - 1])]
           delay == CHOOSE f : IsDelay(f)
<1>1. n \in Nat /\ InitialDelay \in X
  BY ReconnectConstants
<1>2. \A d \in X : Doubled(d) \in X
  BY ReconnectConstants
<1>3. X \subseteq Nat \ {0} /\ \A d \in X : d <= InitialDelay \/ d <= MaxDelay
  OBVIOUS
<1> HIDE DEF X, n, Doubled
<1>4. PICK f : /\ f \in [0..n -> X] /\ f[0] = InitialDelay
               /\ \A i \in 1..n : f[i] = Doubled(f[i - 1])
  <2>1. step \in [1..n -> [X -> X]]
    BY <1>2
  <2>2. \A d \in X, i \in 1..n : step[i][d] = Doubled(d)
    OBVIOUS
  <2> HIDE DEF step
  <2>3. PICK f : IsHistory(f, n, X, InitialDelay, step)
    BY <1>1, <2>1, LoopExists
  <2> QED BY <1>1, <2>2, <2>3 DEF IsHistory
<1>5. IsDelay(f)
  BY <1>1, <1>4
<1>6. IsDelay(delay)
  BY <1>5
<1> HIDE DEF delay
<1>7. \A i \in 0..n : delay[i] \in X
  <2> DEFINE S == {i \in 0..n : delay[i] \in X}
  <2>1. 0 \in S
    BY <1>1, <1>6
  <2>2. ASSUME NEW i \in 1..n, i - 1 \in S PROVE i \in S
    BY <1>1, <1>2, <1>6, <2>2
  <2> HIDE DEF S
  <2>3. 0..n \subseteq S
    BY <1>1, <2>1, <2>2, AllUpTo
  <2> QED BY <2>3 DEF S
<1>8. Backoff(a) = delay[n]
  BY DEF Backoff, delay, n, Doubled
<1>9. delay[n] \in X
  BY <1>1, <1>7
<1> HIDE DEF step, IsDelay
<1> QED BY <1>3, <1>8, <1>9

\* What the reconnect manager's methods do keeps its types.
LEMMA ManagerTypes ==
  ASSUME ReconnTypes, now \in Nat, NEW f \in Nat,
         \/ OnDisconnect(now) \/ OnReconnectFailure(now) \/ OnReconnectSuccess
         \/ BufferFrame(f) \/ PopBuffered \/ CloseReconn
         \/ TimerFires(now) \/ TimerCallsBack
  PROVE  ReconnTypes'
<1> USE ReconnectConstants DEF ReconnTypes, buffer, schedule
<1>1. CASE OnDisconnect(now)
  BY <1>1 DEF OnDisconnect
<1>2. CASE OnReconnectFailure(now)
  <2>1. CASE closed
    BY <1>2, <2>1 DEF OnReconnectFailure
  <2>2. CASE ~closed
    <3>1. attempts' = attempts + 1 /\ attempts' \in Nat \ {0}
      BY <1>2, <2>2 DEF OnReconnectFailure
    <3>2. Backoff(attempts') \in Nat
      BY <3>1, BackoffBounded
    <3> QED BY <1>2, <2>2, <3>1, <3>2 DEF OnReconnectFailure
  <2> QED BY <2>1, <2>2
<1>3. CASE OnReconnectSuccess \/ PopBuffered \/ CloseReconn
  <2>1. <<>> \in Seq(Nat) /\ Len(<<>>) = 0
    OBVIOUS
  <2>2. CASE OnReconnectSuccess
    BY <2>1, <2>2 DEF OnReconnectSuccess
  <2>3. CASE PopBuffered
    <3>1. UNCHANGED <<closed, attempts, timer, pending>>
      BY <2>3 DEF PopBuffered
    <3>2. CASE audioBuffer = <<>>
      BY <2>3, <3>1, <3>2 DEF PopBuffered
    <3>3. CASE audioBuffer # <<>>
      <4>1. audioBuffer' = <<>> /\ capacity' = ReconnectBufferSize
        BY <2>3, <3>3 DEF PopBuffered
      <4> QED BY <2>1, <3>1, <4>1
    <3> QED BY <3>2, <3>3
  <2>4. CASE CloseReconn
    BY <2>1, <2>4 DEF CloseReconn
  <2> QED BY <1>3, <2>2, <2>3, <2>4
<1>4. CASE BufferFrame(f)
  <2> DEFINE drop == Len(audioBuffer) >= capacity /\ audioBuffer # <<>>
             kept == IF drop THEN Tail(audioBuffer) ELSE audioBuffer
             room == IF drop THEN capacity - 1 ELSE capacity
  <2>1. /\ kept \in Seq(Nat) /\ room \in Nat /\ Len(kept) <= room
    OBVIOUS
  <2>2. CASE closed
    BY <1>4, <2>2 DEF BufferFrame
  <2>3. CASE ~closed
    <3>1. /\ audioBuffer' = Append(kept, f)
          /\ capacity' = IF Len(kept) < room THEN room ELSE IF room = 0 THEN 1 ELSE 2 * room
          /\ UNCHANGED <<closed, attempts, timer, pending>>
      BY <1>4, <2>3 DEF BufferFrame
    <3> HIDE DEF kept, room
    <3>2. Append(kept, f) \in Seq(Nat) /\ Len(Append(kept, f)) = Len(kept) + 1
          /\ Len(kept) \in Nat
      BY <2>1
    <3> QED BY <2>1, <3>1, <3>2
  <2> QED BY <2>2, <2>3
<1>5. CASE TimerFires(now) \/ TimerCallsBack
  BY <1>5 DEF TimerFires, TimerCallsBack
<1> QED BY <1>1, <1>2, <1>3, <1>4, <1>5

\* The rest of the types; they change in the actions of the sender only.
SenderTypes ==
  /\ now \in Nat /\ frame \in [number : Nat, pcm : Nat]
  /\ run \in {"off", "select", "check", "mix", "encode", "send", "pop", "flush",
              "buffer", "tcp", "done"}
  /\ flushing \in Seq(Nat) /\ sent \in Seq(Nat) /\ tunnelled \in Seq(Nat)
  /\ active \in BOOLEAN /\ paused \in BOOLEAN /\ stopped \in BOOLEAN
  /\ ctx \in {"none", "live", "done"}
  /\ stopper \in [Stoppers -> {"idle", "waiting", "telling", "done", "early"}]
  /\ disconnects \in Nat /\ backlog \in Nat /\ afterPause \in Nat /\ calls \in 0..MaxCalls

LEMMA TypesAre == TypeOK <=> JitterTypes /\ ReconnTypes /\ SenderTypes
BY DEF TypeOK, SenderTypes

\* The clock never runs backwards and stays a number.
LEMMA ClockTypes == ASSUME now \in Nat, Clock PROVE now' \in Nat
BY StreamConstants, JitterConstants DEF Clock

\* A frame read at t and looked at again at u and v, all in one period: its
\* deadline is still to come, and v is at most the slack after u.
LEMMA OneReading ==
  ASSUME now \in Nat,
         NEW t \in now .. (now \div Period) * Period + Slack,
         NEW u \in t .. (now \div Period) * Period + Slack,
         NEW v \in u .. (now \div Period) * Period + Slack
  PROVE  /\ t \in Nat /\ u \in Nat /\ v \in Nat /\ u <= v /\ v <= u + Slack
         /\ t + Depth * Period \in Nat /\ t + Depth * Period > u
<1> DEFINE base == (now \div Period) * Period
<1>1. Period \in Nat \ {0} /\ Depth \in 1..20 /\ Slack \in Nat /\ Slack < Period
  BY JitterConstants, StreamConstants
<1>2. base \in Nat /\ base <= now
  BY <1>1
<1>3. Depth * Period \in Nat /\ Depth * Period >= Period
  BY <1>1
<1> HIDE DEF base
<1>4. /\ t \in now .. base + Slack /\ u \in t .. base + Slack /\ v \in u .. base + Slack
  BY DEF base
<1> QED BY <1>1, <1>2, <1>3, <1>4

\* The outcome of Mix: silence, or a frame that is due within the slack, as
\* long as the jitter buffer has not been closed.
LEMMA MixPlays ==
  ASSUME TypeOK, Mix, run' = "encode"
  PROVE  /\ JitterTypes' /\ now' \in Nat
         /\ frame'.pcm \in Nat /\ frame' = [frame EXCEPT !.pcm = frame'.pcm]
         /\ ~jitterClosed /\ frame'.pcm # Silence
              => frame'.pcm <= now' /\ now' <= frame'.pcm + Slack
<1> USE DEF TypeOK, JitterTypes
<1>1. PICK t \in now .. (now \div Period) * Period + Slack :
           \E u \in t .. (now \div Period) * Period + Slack :
           \E v \in u .. (now \div Period) * Period + Slack :
             LET deadline == t + Depth * Period
                 held == IF jitterClosed THEN <<>> ELSE Pushed(frames, deadline, u)
             IN  /\ frame' = [frame EXCEPT !.pcm = IF PoppedOk(held)
                                                   THEN PoppedFrame(held, v) ELSE deadline]
                 /\ frames' = AfterPop(held, v)
                 /\ now' = v /\ UNCHANGED jitterClosed
  BY DEF Mix
<1> DEFINE deadline == t + Depth * Period
<1>2a. PICK u \in t .. (now \div Period) * Period + Slack :
           \E v \in u .. (now \div Period) * Period + Slack :
             LET held == IF jitterClosed THEN <<>> ELSE Pushed(frames, deadline, u)
             IN  /\ frame' = [frame EXCEPT !.pcm = IF PoppedOk(held)
                                                   THEN PoppedFrame(held, v) ELSE deadline]
                 /\ frames' = AfterPop(held, v)
                 /\ now' = v /\ UNCHANGED jitterClosed
  BY <1>1
<1>2. PICK v \in u .. (now \div Period) * Period + Slack :
             LET held == IF jitterClosed THEN <<>> ELSE Pushed(frames, deadline, u)
             IN  /\ frame' = [frame EXCEPT !.pcm = IF PoppedOk(held)
                                                   THEN PoppedFrame(held, v) ELSE deadline]
                 /\ frames' = AfterPop(held, v)
                 /\ now' = v /\ UNCHANGED jitterClosed
  BY <1>2a
<1> DEFINE held == IF jitterClosed THEN <<>> ELSE Pushed(frames, deadline, u)
           L == {e \in Nat : e > u}
<1>3. /\ u \in Nat /\ v \in Nat /\ u <= v /\ v <= u + Slack /\ Slack \in Nat
      /\ deadline \in Nat /\ deadline > u
  BY OneReading, StreamConstants
<1> HIDE DEF deadline
<1>4. held \in Seq(L) /\ (~jitterClosed => held # <<>>)
  BY <1>3, PushedLeft
<1>5. /\ frame' = [frame EXCEPT !.pcm = IF PoppedOk(held)
                                        THEN PoppedFrame(held, v) ELSE deadline]
      /\ frames' = AfterPop(held, v)
      /\ now' = v /\ UNCHANGED jitterClosed
  BY <1>2
<1> HIDE DEF held
<1>6. held \in Seq(Nat) /\ (held # <<>> => Head(held) \in Nat /\ Head(held) > u)
  <2> HIDE DEF TypeOK, JitterTypes
  <2> QED BY <1>3, <1>4
<1>7. frames' \in Seq(Nat)
  BY <1>5, <1>6 DEF AfterPop
<1>8. /\ frame'.pcm = IF PoppedOk(held) THEN PoppedFrame(held, v) ELSE deadline
      /\ frame' = [frame EXCEPT !.pcm = frame'.pcm]
  BY <1>5
<1>9. frame'.pcm \in Nat
  <2> HIDE DEF TypeOK, JitterTypes
  <2>1. PoppedOk(held) => PoppedFrame(held, v) \in Nat
    BY <1>6 DEF PoppedOk, PoppedFrame, Silence
  <2> QED BY <1>3, <1>8, <2>1
<1>10. ASSUME ~jitterClosed, frame'.pcm # Silence
       PROVE  frame'.pcm <= now' /\ now' <= frame'.pcm + Slack
  <2>1. held # <<>> /\ frame'.pcm = PoppedFrame(held, v)
    BY <1>4, <1>8, <1>10 DEF PoppedOk
  <2>2. ~(Head(held) > v) /\ frame'.pcm = Head(held)
    BY <1>10, <2>1 DEF PoppedFrame
  <2>3. Head(held) \in Nat /\ Head(held) > u
    BY <1>6, <2>1
  <2>4. now' = v
    BY <1>5
  <2> HIDE DEF L
  <2> QED BY <1>3, <2>2, <2>3, <2>4
<1> QED BY <1>5, <1>3, <1>7, <1>8, <1>9, <1>10

-----------------------------------------------------------------------------
(* The type invariant, one lemma per process.                               *)

\* Sequences of numbers.
LEMMA NumberSeqs ==
  /\ <<>> \in Seq(Nat) /\ Len(<<>>) = 0
  /\ \A s \in Seq(Nat), x \in Nat : Append(s, x) \in Seq(Nat)
  /\ \A s \in Seq(Nat) : s # <<>> => Head(s) \in Nat /\ Tail(s) \in Seq(Nat)
OBVIOUS

\* What a step that leaves the manager, or the jitter buffer, alone keeps.
LEMMA TypesStay ==
  ASSUME TypeOK
  PROVE  /\ UNCHANGED reconnVars => ReconnTypes'
         /\ UNCHANGED jitterVars => JitterTypes'
BY DEF TypeOK, ReconnTypes, JitterTypes, reconnVars, schedule, buffer, jitterVars

LEMMA CallCounts ==
  ASSUME TypeOK, AppCalls
  PROVE  calls' \in 0..MaxCalls
<1>1. calls \in 0..MaxCalls /\ MaxCalls \in Nat
  BY StreamConstants DEF TypeOK
<1> QED BY <1>1 DEF AppCalls

LEMMA PauseCounts ==
  ASSUME TypeOK, Pause
  PROVE  /\ calls' \in 0..MaxCalls /\ afterPause' \in Nat /\ backlog' \in Nat
         /\ tunnelled' = tunnelled
<1>1. /\ audioBuffer \in Seq(Nat) /\ flushing \in Seq(Nat)
      /\ afterPause \in Nat /\ backlog \in Nat
  BY DEF TypeOK, ReconnTypes
<1>2. Len(audioBuffer) + Len(flushing) \in Nat
  BY <1>1
<1> QED BY <1>1, <1>2, CallCounts DEF Pause

LEMMA ApplicationTypes ==
  ASSUME TypeOK, Start \/ Cancel \/ Pause \/ Resume \/ Report
  PROVE  TypeOK'
<1>1. JitterTypes' /\ now' = now /\ now \in Nat
  <2>1. UNCHANGED jitterVars /\ now' = now
    BY DEF Start, Cancel, Pause, Resume, Report
  <2> QED BY <2>1, TypesStay DEF TypeOK
<1>2. ReconnTypes'
  <2>1. CASE Report
    BY <1>1, <2>1, ManagerTypes DEF Report, TypeOK
  <2>2. CASE Start \/ Cancel \/ Pause \/ Resume
    BY <2>2, TypesStay DEF Start, Cancel, Pause, Resume
  <2> QED BY <2>1, <2>2
<1>3. SenderTypes'
  <2> USE <1>1, StreamConstants, TypesAre
      DEF SenderTypes, appUnchanged, progress, flags, history
  <2>1. CASE Start BY <2>1 DEF Start
  <2>2. CASE Cancel BY <2>2 DEF Cancel
  <2>3. CASE Pause
    <3>1. /\ calls' \in 0..MaxCalls /\ afterPause' \in Nat /\ backlog' \in Nat
          /\ tunnelled' = tunnelled
      BY <2>3, PauseCounts
    <3> QED BY <2>3, <3>1 DEF Pause
  <2>4. CASE Resume
    <3>1. calls' \in 0..MaxCalls
      BY <2>4, CallCounts DEF Resume
    <3> QED BY <2>4, <3>1 DEF Resume
  <2>5. CASE Report
    <3>1. calls' \in 0..MaxCalls
      BY <2>5, CallCounts DEF Report
    <3> QED BY <2>5, <3>1 DEF Report
  <2> QED BY <2>1, <2>2, <2>3, <2>4, <2>5
<1> QED BY <1>1, <1>2, <1>3, TypesAre DEF TypeOK, SenderTypes

LEMMA StopTypes ==
  ASSUME TypeOK, NEW c \in Stoppers, StopCall(c) \/ StopClose(c) \/ StopTell(c)
  PROVE  TypeOK'
<1>1. JitterTypes'
  <2>1. CASE StopClose(c)
    BY <2>1, NumberSeqs DEF StopClose, CloseJitter, JitterTypes
  <2>2. CASE StopCall(c) \/ StopTell(c)
    BY <2>2, TypesStay DEF StopCall, StopTell
  <2> QED BY <2>1, <2>2
<1>2. ReconnTypes'
  <2>1. CASE StopClose(c)
    BY <2>1, ManagerTypes DEF StopClose, TypeOK
  <2>2. CASE StopCall(c) \/ StopTell(c)
    BY <2>2, TypesStay DEF StopCall, StopTell
  <2> QED BY <2>1, <2>2
<1>3. SenderTypes'
  <2> USE TypesAre DEF SenderTypes, progress, flags, history
  <2>1. CASE StopCall(c) BY <2>1 DEF StopCall
  <2>2. CASE StopClose(c) BY <2>2 DEF StopClose
  <2>3. CASE StopTell(c) BY <2>3 DEF StopTell
  <2> QED BY <2>1, <2>2, <2>3
<1> QED BY <1>1, <1>2, <1>3 DEF TypeOK, SenderTypes

LEMMA ClockStepTypes ==
  ASSUME TypeOK, TimePasses \/ Timer
  PROVE  TypeOK'
<1>1. JitterTypes' /\ now' \in Nat
  <2>1. UNCHANGED jitterVars /\ (now' = now \/ Clock)
    BY DEF TimePasses, Timer
  <2> QED BY <2>1, TypesStay, ClockTypes DEF TypeOK
<1>2. ReconnTypes'
  <2>1. CASE TimePasses
    BY <2>1, TypesStay DEF TimePasses
  <2>2. CASE Timer
    BY <2>2, ManagerTypes DEF Timer, TypeOK
  <2> QED BY <2>1, <2>2
<1>3. SenderTypes'
  BY <1>1, TypesAre DEF SenderTypes, TimePasses, Timer, outside, progress, flags, history
<1> QED BY <1>1, <1>2, <1>3 DEF TypeOK, SenderTypes

\* What a frame that goes out changes.
LEMMA SendingTypes ==
  ASSUME SenderTypes, NEW n \in Nat
  PROVE  /\ frame.number \in Nat
         /\ OverUDP(n) => /\ sent' \in Seq(Nat) /\ afterPause' \in Nat
                          /\ UNCHANGED <<tunnelled, backlog>>
         /\ OverTCP(n) => /\ tunnelled' \in Seq(Nat) /\ afterPause' \in Nat
                          /\ UNCHANGED <<sent, backlog>>
         /\ UNCHANGED <<sent, history>> =>
              /\ sent' \in Seq(Nat) /\ tunnelled' \in Seq(Nat) /\ afterPause' \in Nat
              /\ UNCHANGED <<sent, tunnelled, backlog>>
<1>1. /\ frame.number \in Nat /\ afterPause \in Nat
      /\ sent \in Seq(Nat) /\ tunnelled \in Seq(Nat)
  BY DEF SenderTypes
<1>2. Append(sent, n) \in Seq(Nat) /\ Append(tunnelled, n) \in Seq(Nat)
  BY <1>1, NumberSeqs
<1>3. Counted => afterPause' \in Nat
  BY <1>1 DEF Counted
<1> QED BY <1>1, <1>2, <1>3 DEF OverUDP, OverTCP, history

LEMMA RunTypes ==
  ASSUME TypeOK, RunNext \/ Leave
  PROVE  TypeOK'
<1>1. JitterTypes' /\ now' \in Nat
  <2>1. CASE Mix /\ run' = "encode"
    BY <2>1, MixPlays
  <2>2. CASE Mix /\ run' # "encode"
    BY <2>2, TypesStay DEF Mix, TypeOK
  <2>3. CASE Tick
    BY <2>3, TypesStay, ClockTypes DEF Tick, TypeOK
  <2>4. CASE Leave \/ Check
    BY <2>4, TypesStay DEF Leave, Check, TypeOK
  <2>5. CASE Encode \/ SendUDP \/ Pop \/ Flush \/ Buffer \/ SendTCP
    BY <2>5, TypesStay DEF Encode, SendUDP, Pop, Flush, Buffer, SendTCP, sending, TypeOK
  <2> QED BY <2>1, <2>2, <2>3, <2>4, <2>5 DEF RunNext
<1>2. ReconnTypes'
  <2>1. CASE Buffer
    BY <2>1, ManagerTypes DEF Buffer, TypeOK
  <2>2. CASE Pop
    BY <2>2, ManagerTypes DEF Pop, TypeOK
  <2>3. CASE SendUDP \/ Flush \/ SendTCP
    BY <2>3, ManagerTypes, TypesStay DEF SendUDP, Flush, SendTCP, TypeOK
  <2>4. CASE Tick \/ Leave \/ Check \/ Mix \/ Encode
    BY <2>4, TypesStay DEF Tick, Leave, Check, Mix, Encode
  <2> QED BY <2>1, <2>2, <2>3, <2>4 DEF RunNext
<1>3. SenderTypes'
  <2>0. SenderTypes
    BY TypesAre
  <2> USE <1>1, <2>0 DEF SenderTypes, outside, flags, history
  <2>1. CASE Tick \/ Leave \/ Check
    BY <2>1 DEF Tick, Leave, Check
  <2>2. CASE Mix /\ run' = "encode"
    BY <2>2, MixPlays DEF Mix
  <2>3. CASE Mix /\ run' # "encode"
    BY <2>3 DEF Mix
  <2>4. CASE Encode
    <3>1. frame' = [frame EXCEPT !.number = @ + 1] \/ frame' = frame
      BY <2>4 DEF Encode
    <3>2. frame' \in [number : Nat, pcm : Nat]
      BY <3>1
    <3> QED BY <2>4, <3>2 DEF Encode, sending
  <2>5. CASE SendUDP
    <3>1. /\ sent' \in Seq(Nat) /\ afterPause' \in Nat
          /\ UNCHANGED <<tunnelled, backlog>>
      BY <2>5, SendingTypes DEF SendUDP, SenderTypes
    <3> QED BY <2>5, <3>1 DEF SendUDP, sending
  <2>6. CASE Pop
    BY <2>6 DEF Pop, PopBuffered, sending, TypeOK, ReconnTypes
  <2>7. CASE Flush
    <3>1. /\ sent' \in Seq(Nat) /\ afterPause' \in Nat
          /\ UNCHANGED <<tunnelled, backlog>>
      BY <2>7, NumberSeqs, SendingTypes DEF Flush
    <3>2. flushing' \in Seq(Nat)
      BY <2>7, NumberSeqs DEF Flush
    <3>3. /\ run' \in {"select", "flush"} /\ frame' = frame
          /\ now' = now /\ outside
      BY <2>7 DEF Flush, sending
    <3> QED BY <3>1, <3>2, <3>3
  <2>8. CASE Buffer
    BY <2>8 DEF Buffer, sending
  <2>9. CASE SendTCP
    <3>1. /\ tunnelled' \in Seq(Nat) /\ afterPause' \in Nat
          /\ UNCHANGED <<sent, backlog>>
      BY <2>9, SendingTypes DEF SendTCP
    <3> QED BY <2>9, <3>1 DEF SendTCP, sending
  <2> QED BY <2>1, <2>2, <2>3, <2>4, <2>5, <2>6, <2>7, <2>8, <2>9 DEF RunNext
<1> QED BY <1>1, <1>2, <1>3 DEF TypeOK, SenderTypes

\* The type invariant, which says that the slice of the frames kept is within
\* its capacity and that every delay computed is a time to come.
THEOREM TypeCorrect == Spec => []TypeOK
<1>1. Init => TypeOK
  <2> SUFFICES ASSUME Init PROVE TypeOK
    OBVIOUS
  <2> USE JitterConstants, ReconnectConstants, StreamConstants
  <2>1. JitterTypes
    BY NumberSeqs DEF Init, JitterInit, JitterTypes
  <2>2. ReconnTypes
    <3>1. /\ closed = FALSE /\ attempts = 0 /\ timer = 0 /\ pending = 0
          /\ audioBuffer = <<>> /\ capacity = ReconnectBufferSize
      BY DEF Init, ReconnInit
    <3>2. audioBuffer \in Seq(Nat) /\ Len(audioBuffer) = 0
      BY <3>1, NumberSeqs
    <3>3. timer \in Nat /\ capacity \in Nat /\ pending \in 0..MaxPending /\ attempts \in Nat
      BY <3>1
    <3>4. Len(audioBuffer) <= capacity
      BY <3>2, <3>3
    <3> QED BY <3>1, <3>2, <3>3, <3>4 DEF ReconnTypes
  <2>3. SenderTypes
    <3>1. sent \in Seq(Nat) /\ tunnelled \in Seq(Nat) /\ flushing \in Seq(Nat)
      BY NumberSeqs DEF Init
    <3>2. frame \in [number : Nat, pcm : Nat]
      BY DEF Init, Silence
    <3>3. stopper \in [Stoppers -> {"idle", "waiting", "telling", "done", "early"}]
      BY DEF Init
    <3>4. /\ now \in Nat /\ disconnects \in Nat /\ backlog \in Nat /\ afterPause \in Nat
          /\ calls \in 0..MaxCalls
      BY DEF Init
    <3>5. /\ run = "off" /\ ctx = "none"
          /\ active \in BOOLEAN /\ paused \in BOOLEAN /\ stopped \in BOOLEAN
      BY DEF Init
    <3> QED BY <3>1, <3>2, <3>3, <3>4, <3>5 DEF SenderTypes
  <2> QED BY <2>1, <2>2, <2>3, TypesAre
<1>2. TypeOK /\ [Next]_vars => TypeOK'
  <2> SUFFICES ASSUME TypeOK, [Next]_vars PROVE TypeOK'
    OBVIOUS
  <2>1. CASE UNCHANGED vars
    <3>1. JitterTypes' /\ ReconnTypes'
      BY <2>1, TypesStay DEF vars
    <3> QED BY <2>1, <3>1 DEF TypeOK, vars, progress, flags, history
  <2> QED BY <2>1, ApplicationTypes, StopTypes, ClockStepTypes, RunTypes DEF Next
<1> QED BY <1>1, <1>2, PTL DEF Spec

-----------------------------------------------------------------------------
(* Frames on time.                                                          *)

\* The jitter buffer and the manager are closed by the Stop that has waited for
\* the goroutine, so a goroutine at work finds them open.
OnTimeInv ==
  /\ AudioOnTime
  /\ jitterClosed \/ closed => \E c \in Stoppers : stopper[c] \in {"telling", "done"}

LEMMA OpenAtWork ==
  ASSUME SenderInv, OnTimeInv, run \notin {"off", "done"}
  PROVE  ~jitterClosed /\ ~closed
BY DEF SenderInv, EndedInv, OnTimeInv

\* Of the manager's methods only Close closes it.
LEMMA OnlyCloseCloses ==
  /\ OnDisconnect(now) \/ OnReconnectFailure(now) \/ OnReconnectSuccess
       \/ PopBuffered \/ TimerFires(now) \/ TimerCallsBack => closed' = closed
  /\ BufferFrame(frame.number) => closed' = closed
  /\ UNCHANGED reconnVars => closed' = closed
BY DEF OnDisconnect, OnReconnectFailure, OnReconnectSuccess, PopBuffered, BufferFrame,
       TimerFires, TimerCallsBack, reconnVars

LEMMA OnTimeInductive ==
  ASSUME TypeOK, SenderInv, OnTimeInv, [Next]_vars
  PROVE  OnTimeInv'
<1>1. jitterClosed' \/ closed' => \E c \in Stoppers : stopper'[c] \in {"telling", "done"}
  <2> USE DEF OnTimeInv, SenderInv, KindInv
  <2>1. CASE UNCHANGED vars
    BY <2>1 DEF vars, jitterVars, reconnVars
  <2>2. CASE Start \/ Cancel \/ Pause \/ Resume \/ Report
    BY <2>2, OnlyCloseCloses DEF Start, Cancel, Pause, Resume, Report, appUnchanged, jitterVars
  <2>3. ASSUME NEW c \in Stoppers, StopCall(c) \/ StopClose(c) \/ StopTell(c)
        PROVE  jitterClosed' \/ closed' => \E d \in Stoppers : stopper'[d] \in {"telling", "done"}
    <3>1. CASE StopCall(c)
      <4>1. jitterClosed' = jitterClosed /\ closed' = closed /\ stopper[c] = "idle"
            /\ \A d \in Stoppers \ {c} : stopper'[d] = stopper[d]
        BY <3>1 DEF StopCall, jitterVars, reconnVars
      <4> QED BY <4>1
    <3>2. CASE StopClose(c) \/ StopTell(c)
      BY <3>2 DEF StopClose, StopTell
    <3> QED BY <2>3, <3>1, <3>2
  <2>4. CASE TimePasses \/ Timer
    BY <2>4, OnlyCloseCloses DEF TimePasses, Timer, outside, jitterVars
  <2>5. CASE RunNext \/ Leave
    <3>1. jitterClosed' = jitterClosed /\ closed' = closed /\ stopper' = stopper
      BY <2>5, OnlyCloseCloses DEF RunNext, Leave, Tick, Check, Mix, Encode, SendUDP, Pop, Flush, Buffer,
                  SendTCP, sending, outside, jitterVars
    <3> QED BY <3>1
  <2> QED BY <2>1, <2>2, <2>3, <2>4, <2>5 DEF Next
<1>2. AudioOnTime'
  <2>1. CASE Mix /\ run' = "encode"
    <3>1. ~jitterClosed
      BY <2>1, OpenAtWork DEF Mix
    <3> QED BY <2>1, <3>1, MixPlays DEF AudioOnTime
  <2>2. CASE run' # "encode"
    BY <2>2 DEF AudioOnTime
  <2>3. CASE run = "encode" /\ UNCHANGED <<run, frame, now>>
    BY <2>3 DEF AudioOnTime, OnTimeInv
  <2>4. Mix \/ run' # "encode" \/ (run = "encode" /\ UNCHANGED <<run, frame, now>>)
    <3>1. CASE UNCHANGED vars
      BY <3>1 DEF vars, progress
    <3>2. CASE Start \/ Cancel \/ Pause \/ Resume \/ Report
      BY <3>2 DEF Start, Cancel, Pause, Resume, Report, progress
    <3>3. ASSUME NEW c \in Stoppers, StopCall(c) \/ StopClose(c) \/ StopTell(c)
          PROVE  run' # "encode" \/ (run = "encode" /\ UNCHANGED <<run, frame, now>>)
      BY <3>3 DEF StopCall, StopClose, StopTell, progress
    <3>4. CASE TimePasses \/ Timer
      BY <3>4 DEF TimePasses, Timer, progress
    <3>5. CASE RunNext \/ Leave
      BY <3>5 DEF RunNext, Leave, Tick, Check, Encode, SendUDP, Pop, Flush, Buffer, SendTCP
    <3> QED BY <3>1, <3>2, <3>3, <3>4, <3>5 DEF Next
  <2> QED BY <2>1, <2>2, <2>3, <2>4
<1> QED BY <1>1, <1>2 DEF OnTimeInv

\* Its inductive invariant, in every state.
THEOREM OnTimeInvariant == Spec => []OnTimeInv
<1>1. Init => OnTimeInv
  BY DEF Init, JitterInit, ReconnInit, OnTimeInv, AudioOnTime
<1>2. TypeOK /\ SenderInv /\ OnTimeInv /\ [Next]_vars => OnTimeInv'
  BY OnTimeInductive
<1> QED BY <1>1, <1>2, TypeCorrect, SenderInvariant, PTL DEF Spec

\* What is played is due and was read Depth periods before, to within the
\* slack, through any pauses, late ticks, silences and stops.
THEOREM PlayedOnTime == Spec => []AudioOnTime
<1>1. OnTimeInv => AudioOnTime
  BY DEF OnTimeInv
<1> QED BY <1>1, OnTimeInvariant, PTL

-----------------------------------------------------------------------------
(* Each frame once, and in order.                                           *)

\* Numbers in the order they were given.
Increasing(s) == \A i, j \in DOMAIN s : i < j => s[i] < s[j]
\* None is newer than the frame being sent.
Made(s) == \A i \in DOMAIN s : s[i] <= frame.number
\* What waits in s has not been sent, and is newer than all that was sent after
\* a newer frame.
Waits(s) ==
  \A w \in DOMAIN s, i \in DOMAIN sent :
    sent[i] # s[w] /\ (Overtaken(sent, i) => sent[i] < s[w])

\* The frame being sent is the newest as long as it is neither sent nor kept.
NewestInv ==
  run \in {"send", "buffer"} =>
    /\ \A i \in DOMAIN sent : sent[i] < frame.number
    /\ \A i \in DOMAIN audioBuffer : audioBuffer[i] < frame.number

\* While the frames that were kept go out none is kept; and the sender runs
\* from Start on.
FlushInv ==
  /\ run # "flush" => flushing = <<>>
  /\ run = "flush" => audioBuffer = <<>>
  /\ active \/ stopped \/ run = "off"

MailInv ==
  /\ UDPOnce /\ FlushedInOrder
  /\ Increasing(audioBuffer) /\ Increasing(flushing)
  /\ Made(sent) /\ Made(audioBuffer) /\ Made(flushing)
  /\ Waits(audioBuffer) /\ Waits(flushing)
  /\ NewestInv /\ FlushInv

\* A number that is sent was not sent before and is newer than all that were
\* overtaken.
LEMMA SentGrows ==
  ASSUME TypeOK, UDPOnce, FlushedInOrder, NEW x \in Nat, sent' = Append(sent, x),
         \A i \in DOMAIN sent : sent[i] # x /\ (Overtaken(sent, i) => sent[i] < x)
  PROVE  /\ UDPOnce' /\ FlushedInOrder'
         /\ DOMAIN sent = 1..Len(sent) /\ Len(sent) \in Nat
         /\ DOMAIN sent' = 1..(Len(sent) + 1) /\ sent'[Len(sent) + 1] = x
         /\ \A i \in DOMAIN sent : sent'[i] = sent[i] /\ (Overtaken(sent', i) => Overtaken(sent, i))
<1>1. /\ sent \in Seq(Nat) /\ DOMAIN sent = 1..Len(sent) /\ Len(sent) \in Nat
      /\ \A i \in 1..Len(sent) : sent[i] \in Nat
  BY DEF TypeOK
<1>2. /\ DOMAIN sent' = 1..(Len(sent) + 1) /\ sent'[Len(sent) + 1] = x
      /\ \A i \in DOMAIN sent : sent'[i] = sent[i]
  BY <1>1
<1>3. \A i \in DOMAIN sent : Overtaken(sent', i) => Overtaken(sent, i)
  BY <1>1, <1>2 DEF Overtaken
<1>4. UDPOnce'
  BY <1>1, <1>2 DEF UDPOnce
<1>5. FlushedInOrder'
  <2> SUFFICES ASSUME NEW i \in DOMAIN sent', NEW j \in DOMAIN sent', i < j,
                      Overtaken(sent', i), Overtaken(sent', j)
               PROVE  sent'[i] < sent'[j]
    BY DEF FlushedInOrder
  <2>1. i \in DOMAIN sent /\ Overtaken(sent, i) /\ sent'[i] = sent[i]
    BY <1>1, <1>2, <1>3
  <2>2. CASE j \in DOMAIN sent
    BY <1>2, <1>3, <2>1, <2>2 DEF FlushedInOrder
  <2>3. CASE j \notin DOMAIN sent
    BY <1>1, <1>2, <2>1, <2>3
  <2> QED BY <2>2, <2>3
<1> QED BY <1>1, <1>2, <1>3, <1>4, <1>5

\* Steps that send and keep nothing; they may drop what was kept.
LEMMA MailStays ==
  ASSUME TypeOK, MailInv, UNCHANGED <<sent, flushing>>, frame'.number = frame.number,
         audioBuffer' = audioBuffer \/ audioBuffer' = <<>>,
         run' \in {"send", "buffer"} => run \in {"send", "buffer"},
         run' = "flush" <=> run = "flush",
         active' \/ stopped' \/ run' = "off"
  PROVE  MailInv'
<1> USE DEF MailInv
<1>1. UDPOnce' /\ FlushedInOrder' /\ \A i \in DOMAIN sent : Overtaken(sent', i) = Overtaken(sent, i)
  BY DEF UDPOnce, FlushedInOrder, Overtaken
<1>2. Increasing(audioBuffer)' /\ Increasing(flushing)'
  BY DEF Increasing
<1>3. Made(sent)' /\ Made(audioBuffer)' /\ Made(flushing)'
  BY DEF Made
<1>4. Waits(audioBuffer)' /\ Waits(flushing)'
  BY <1>1 DEF Waits
<1>5. NewestInv' /\ FlushInv'
  BY DEF NewestInv, FlushInv
<1> QED BY <1>1, <1>2, <1>3, <1>4, <1>5

\* What the manager's methods leave of the frames that it keeps.
LEMMA ManagerKeeps ==
  /\ OnDisconnect(now) \/ OnReconnectFailure(now) \/ TimerFires(now) \/ TimerCallsBack
       => audioBuffer' = audioBuffer
  /\ OnReconnectSuccess \/ CloseReconn => audioBuffer' = <<>>
  /\ PopBuffered => audioBuffer' = <<>>
  /\ UNCHANGED reconnVars => audioBuffer' = audioBuffer
BY DEF OnDisconnect, OnReconnectFailure, OnReconnectSuccess, TimerFires, TimerCallsBack,
       CloseReconn, PopBuffered, reconnVars, buffer

\* The application, the callers of Stop, the clock and the timer.
LEMMA MailOthers ==
  ASSUME TypeOK, MailInv,
         \/ Start \/ Cancel \/ Pause \/ Resume \/ Report
         \/ \E c \in Stoppers : StopCall(c) \/ StopClose(c) \/ StopTell(c)
         \/ TimePasses \/ Timer
  PROVE  MailInv'
<1>1. UNCHANGED <<sent, flushing>> /\ frame'.number = frame.number
  BY DEF Start, Cancel, Pause, Resume, Report, StopCall, StopClose, StopTell, TimePasses,
         Timer, progress
<1>2. audioBuffer' = audioBuffer \/ audioBuffer' = <<>>
  BY ManagerKeeps DEF Start, Cancel, Pause, Resume, Report, StopCall, StopClose, StopTell,
                      TimePasses, Timer
<1>3. run' = run \/ (run = "off" /\ run' = "select")
  BY DEF Start, Cancel, Pause, Resume, Report, StopCall, StopClose, StopTell, TimePasses,
         Timer, progress, MailInv, FlushInv
<1>4. active' \/ stopped' \/ run' = "off"
  BY DEF Start, Cancel, Pause, Resume, Report, StopCall, StopClose, StopTell, TimePasses,
         Timer, outside, progress, flags, MailInv, FlushInv
<1> QED BY <1>1, <1>2, <1>3, <1>4, MailStays

\* The sending goroutine, where no number is given, sent or kept.
LEMMA MailRunStays ==
  ASSUME TypeOK, MailInv,
         \/ Tick \/ Leave \/ Check \/ Mix \/ SendTCP
         \/ (Encode \/ SendUDP) /\ frame' = frame /\ sent' = sent
  PROVE  MailInv'
<1>1. UNCHANGED <<sent, flushing>> /\ frame'.number = frame.number
  <2>1. frame' = frame \/ frame' = [frame EXCEPT !.pcm = frame'.pcm]
    BY MixPlays DEF Tick, Leave, Check, Mix, SendTCP
  <2> QED BY <2>1 DEF Tick, Leave, Check, Mix, SendTCP, OverTCP, Encode, SendUDP, TypeOK
<1>2. audioBuffer' = audioBuffer
  BY ManagerKeeps DEF Tick, Leave, Check, Mix, SendTCP, Encode, SendUDP
<1>3. /\ run # "flush" /\ run' # "flush"
      /\ run' \in {"send", "buffer"} => run \in {"send", "buffer"}
  <2>1. CASE Encode
    <3>1. frame.number \in Nat /\ frame' = frame
      BY <2>1 DEF TypeOK, Encode, Tick, Leave, Check, Mix, SendTCP
    <3>2. ASSUME frame' = [frame EXCEPT !.number = @ + 1] PROVE FALSE
      <4>1. frame'.number = frame.number + 1
        BY <3>2 DEF TypeOK
      <4> QED BY <3>1, <4>1
    <3> QED BY <2>1, <3>1, <3>2 DEF Encode
  <2>2. CASE SendUDP
    BY <2>2 DEF SendUDP
  <2>3. CASE Tick \/ Leave \/ Check \/ Mix \/ SendTCP
    BY <2>3 DEF Tick, Leave, Check, Mix, SendTCP
  <2> QED BY <2>1, <2>2, <2>3
<1>4. active' \/ stopped' \/ run' = "off"
  BY DEF Tick, Leave, Check, Mix, SendTCP, Encode, SendUDP, sending, outside, flags,
         MailInv, FlushInv
<1> QED BY <1>1, <1>2, <1>3, <1>4, MailStays

\* A new number is greater than all that are sent, kept or waiting.
LEMMA MailEncode ==
  ASSUME TypeOK, MailInv, Encode, frame' # frame
  PROVE  MailInv'
<1>1. /\ frame.number \in Nat /\ frame'.number = frame.number + 1
      /\ run = "encode" /\ run' = "send" /\ UNCHANGED <<reconnVars, flushing, sent, flags>>
  <2>1. /\ frame' = [frame EXCEPT !.number = @ + 1]
        /\ run = "encode" /\ run' = "send"
        /\ UNCHANGED <<reconnVars, flushing, sent, flags>>
    BY DEF Encode, sending, outside
  <2>2. frame \in [number : Nat, pcm : Nat]
    BY DEF TypeOK
  <2> QED BY <2>1, <2>2
<1>2. UNCHANGED <<audioBuffer, sent, flushing, active, stopped>>
  BY <1>1, ManagerKeeps DEF flags
<1>3. /\ \A i \in DOMAIN sent : sent[i] \in Nat
      /\ \A i \in DOMAIN audioBuffer : audioBuffer[i] \in Nat
      /\ \A i \in DOMAIN flushing : flushing[i] \in Nat
  <2>1. sent \in Seq(Nat) /\ audioBuffer \in Seq(Nat) /\ flushing \in Seq(Nat)
    BY DEF TypeOK, ReconnTypes
  <2> QED BY <2>1
<1> USE <1>1, <1>2 DEF MailInv
<1>4. UDPOnce' /\ FlushedInOrder' /\ \A i \in DOMAIN sent : Overtaken(sent', i) = Overtaken(sent, i)
  BY DEF UDPOnce, FlushedInOrder, Overtaken
<1>5. Increasing(audioBuffer)' /\ Increasing(flushing)'
  BY DEF Increasing
<1>6. Made(sent)' /\ Made(audioBuffer)' /\ Made(flushing)'
  BY <1>3 DEF Made
<1>7. Waits(audioBuffer)' /\ Waits(flushing)'
  BY <1>4 DEF Waits
<1>8. NewestInv' /\ FlushInv'
  BY <1>3 DEF NewestInv, FlushInv, Made
<1> QED BY <1>4, <1>5, <1>6, <1>7, <1>8

\* The newest frame goes out.
LEMMA MailSend ==
  ASSUME TypeOK, MailInv, SendUDP, sent' # sent
  PROVE  MailInv'
<1>0. frame.number \in Nat /\ sent' = Append(sent, frame.number)
  BY DEF SendUDP, OverUDP, TypeOK
<1>1. /\ frame.number \in Nat /\ frame' = frame
      /\ run = "send" /\ run' = "pop" /\ UNCHANGED <<reconnVars, flushing, flags>>
  BY DEF SendUDP, TypeOK, sending, outside
<1>2. UNCHANGED <<audioBuffer, flushing, active, stopped>> /\ flushing = <<>>
  BY <1>1, ManagerKeeps DEF flags, MailInv, FlushInv
<1>3. \A i \in DOMAIN sent : sent[i] \in Nat /\ sent[i] < frame.number
  BY <1>1 DEF MailInv, NewestInv, TypeOK
<1>4. /\ UDPOnce' /\ FlushedInOrder'
      /\ DOMAIN sent = 1..Len(sent) /\ Len(sent) \in Nat
      /\ DOMAIN sent' = 1..(Len(sent) + 1) /\ sent'[Len(sent) + 1] = frame.number
      /\ \A i \in DOMAIN sent : sent'[i] = sent[i] /\ (Overtaken(sent', i) => Overtaken(sent, i))
  BY <1>0, <1>3, SentGrows DEF MailInv
<1>5. \A i \in DOMAIN audioBuffer : audioBuffer[i] \in Nat /\ audioBuffer[i] < frame.number
  BY <1>1 DEF MailInv, NewestInv, TypeOK, ReconnTypes
<1>6. ~Overtaken(sent', Len(sent) + 1)
  <2>1. \A j \in 1..Len(sent) : ~(sent'[j] > sent'[Len(sent) + 1])
    BY <1>1, <1>3, <1>4
  <2> QED BY <1>4, <2>1 DEF Overtaken
<1>7. Increasing(audioBuffer)' /\ Increasing(flushing)'
  BY <1>2 DEF MailInv, Increasing
<1>8. Made(sent)' /\ Made(audioBuffer)' /\ Made(flushing)'
  <2>1. \A i \in DOMAIN sent' : sent'[i] <= frame.number
    <3> SUFFICES ASSUME NEW i \in DOMAIN sent' PROVE sent'[i] <= frame.number
      OBVIOUS
    <3>1. CASE i \in DOMAIN sent
      BY <1>1, <1>3, <1>4, <3>1
    <3>2. CASE i = Len(sent) + 1
      BY <1>1, <1>4, <3>2
    <3> QED BY <1>4, <3>1, <3>2
  <2> QED BY <1>1, <1>2, <2>1 DEF MailInv, Made
<1>9. Waits(audioBuffer)'
  <2> SUFFICES ASSUME NEW w \in DOMAIN audioBuffer, NEW i \in DOMAIN sent'
               PROVE  sent'[i] # audioBuffer[w] /\ (Overtaken(sent', i) => sent'[i] < audioBuffer[w])
    BY <1>2 DEF Waits
  <2>1. CASE i \in DOMAIN sent
    <3>1. sent[i] # audioBuffer[w] /\ (Overtaken(sent, i) => sent[i] < audioBuffer[w])
      BY <2>1 DEF MailInv, Waits
    <3> QED BY <1>4, <2>1, <3>1
  <2>2. CASE i = Len(sent) + 1
    BY <1>1, <1>4, <1>5, <1>6, <2>2
  <2> QED BY <1>4, <2>1, <2>2
<1>10. Waits(flushing)'
  BY <1>2 DEF Waits
<1>11. NewestInv' /\ FlushInv'
  BY <1>1, <1>2 DEF NewestInv, FlushInv, MailInv
<1> QED BY <1>4, <1>7, <1>8, <1>9, <1>10, <1>11 DEF MailInv

\* The frames kept are taken out to be sent: none that was sent is among them.
LEMMA MailPop ==
  ASSUME TypeOK, MailInv, Pop
  PROVE  MailInv'
<1>1. /\ UNCHANGED <<frame, sent, active, stopped>>
      /\ run' = "flush" /\ flushing' = audioBuffer /\ audioBuffer' = <<>>
  BY ManagerKeeps DEF Pop, sending, outside, flags
<1> USE <1>1 DEF MailInv
<1>2. UDPOnce' /\ FlushedInOrder' /\ \A i \in DOMAIN sent : Overtaken(sent', i) = Overtaken(sent, i)
  BY DEF UDPOnce, FlushedInOrder, Overtaken
<1>3. Increasing(audioBuffer)' /\ Increasing(flushing)'
  BY DEF Increasing
<1>4. Made(sent)' /\ Made(audioBuffer)' /\ Made(flushing)'
  BY DEF Made
<1>5. Waits(audioBuffer)' /\ Waits(flushing)'
  BY <1>2 DEF Waits
<1>6. NewestInv' /\ FlushInv'
  BY DEF NewestInv, FlushInv, Pop
<1> QED BY <1>2, <1>3, <1>4, <1>5, <1>6

\* One of them goes out, before those that wait behind it.
LEMMA MailFlushOne ==
  ASSUME TypeOK, MailInv, flushing # <<>>, flushing' = Tail(flushing),
         sent' = Append(sent, Head(flushing)), run = "flush",
         UNCHANGED <<frame, audioBuffer, run, active, stopped>>
  PROVE  MailInv'
<1> DEFINE x == Head(flushing)
<1>1. /\ flushing \in Seq(Nat) /\ x \in Nat /\ x = flushing[1]
      /\ Len(flushing) \in Nat \ {0} /\ DOMAIN flushing = 1..Len(flushing)
      /\ DOMAIN flushing' = 1..(Len(flushing) - 1)
      /\ \A w \in DOMAIN flushing' : flushing'[w] = flushing[w + 1] /\ w + 1 \in DOMAIN flushing
      /\ 1 \in DOMAIN flushing
      /\ \A w \in DOMAIN flushing : flushing[w] \in Nat
  BY DEF TypeOK
<1>2. \A i \in DOMAIN sent : sent[i] # x /\ (Overtaken(sent, i) => sent[i] < x)
  BY <1>1 DEF MailInv, Waits
<1> HIDE DEF x
<1>3. /\ UDPOnce' /\ FlushedInOrder'
      /\ DOMAIN sent = 1..Len(sent) /\ Len(sent) \in Nat
      /\ DOMAIN sent' = 1..(Len(sent) + 1) /\ sent'[Len(sent) + 1] = x
      /\ \A i \in DOMAIN sent : sent'[i] = sent[i] /\ (Overtaken(sent', i) => Overtaken(sent, i))
  BY <1>1, <1>2, SentGrows DEF MailInv, x
<1>4. audioBuffer' = <<>>
  BY DEF MailInv, FlushInv
<1>5. \A w \in DOMAIN flushing' : x < flushing'[w]
  <2> SUFFICES ASSUME NEW w \in DOMAIN flushing' PROVE x < flushing'[w]
    OBVIOUS
  <2>1. flushing[1] < flushing[w + 1]
    <3>1. w + 1 \in DOMAIN flushing /\ 1 < w + 1
      BY <1>1
    <3> QED BY <1>1, <3>1 DEF MailInv, Increasing
  <2> QED BY <1>1, <2>1
<1>6. Increasing(flushing')
  <2> SUFFICES ASSUME NEW v \in DOMAIN flushing', NEW w \in DOMAIN flushing', v < w
               PROVE  flushing'[v] < flushing'[w]
    BY DEF Increasing
  <2>1. v + 1 < w + 1 /\ v + 1 \in DOMAIN flushing /\ w + 1 \in DOMAIN flushing
    BY <1>1
  <2> QED BY <1>1, <2>1 DEF MailInv, Increasing
<1>7. Made(sent)'
  <2> SUFFICES ASSUME NEW i \in DOMAIN sent' PROVE sent'[i] <= frame.number
    BY DEF Made
  <2>1. CASE i \in DOMAIN sent
    BY <1>3, <2>1 DEF MailInv, Made
  <2>2. CASE i = Len(sent) + 1
    BY <1>1, <1>3, <2>2 DEF MailInv, Made
  <2> QED BY <1>3, <2>1, <2>2
<1>8. Made(audioBuffer)' /\ Made(flushing)'
  BY <1>1 DEF MailInv, Made
<1>9. Waits(flushing)'
  <2> SUFFICES ASSUME NEW w \in DOMAIN flushing', NEW i \in DOMAIN sent'
               PROVE  /\ sent'[i] # flushing'[w]
                      /\ Overtaken(sent', i) => sent'[i] < flushing'[w]
    BY DEF Waits
  <2>1. CASE i \in DOMAIN sent
    <3>1. /\ sent[i] # flushing[w + 1]
          /\ Overtaken(sent, i) => sent[i] < flushing[w + 1]
      BY <1>1, <2>1 DEF MailInv, Waits
    <3> QED BY <1>1, <1>3, <2>1, <3>1
  <2>2. CASE i = Len(sent) + 1
    BY <1>1, <1>3, <1>5, <2>2
  <2> QED BY <1>3, <2>1, <2>2
<1>10. Increasing(audioBuffer)' /\ Waits(audioBuffer)'
  BY <1>4 DEF Increasing, Waits
<1>11. NewestInv' /\ FlushInv'
  BY <1>4 DEF NewestInv, FlushInv, MailInv
<1> QED BY <1>3, <1>6, <1>7, <1>8, <1>9, <1>10, <1>11 DEF MailInv, Increasing

LEMMA MailFlush ==
  ASSUME TypeOK, MailInv, Flush
  PROVE  MailInv'
<1>1. run = "flush" /\ UNCHANGED <<frame, active, stopped>>
  BY DEF Flush, sending, outside, flags
<1>2. CASE flushing # <<>> /\ flushing' = Tail(flushing) /\ sent' = Append(sent, Head(flushing))
           /\ UNCHANGED <<run, reconnVars>>
  BY <1>1, <1>2, ManagerKeeps, MailFlushOne
<1>3. CASE flushing' = <<>> /\ audioBuffer' = <<>> /\ run' = "select" /\ UNCHANGED sent
  <2> USE <1>1, <1>3 DEF MailInv
  <2>1. UDPOnce' /\ FlushedInOrder'
    BY DEF UDPOnce, FlushedInOrder, Overtaken
  <2>2. Increasing(audioBuffer)' /\ Increasing(flushing)'
    BY DEF Increasing
  <2>3. Made(sent)' /\ Made(audioBuffer)' /\ Made(flushing)'
    BY DEF Made
  <2>4. Waits(audioBuffer)' /\ Waits(flushing)'
    BY DEF Waits
  <2>5. NewestInv' /\ FlushInv'
    BY DEF NewestInv, FlushInv
  <2> QED BY <2>1, <2>2, <2>3, <2>4, <2>5
<1>4. audioBuffer = <<>>
  BY <1>1 DEF MailInv, FlushInv
<1> QED BY <1>1, <1>2, <1>3, <1>4, ManagerKeeps DEF Flush, OverUDP

\* The newest frame is kept behind those kept before.
LEMMA MailBuffer ==
  ASSUME TypeOK, MailInv, Buffer
  PROVE  MailInv'
<1>1. /\ UNCHANGED <<frame, flushing, sent, active, stopped>> /\ frame.number \in Nat
      /\ run = "buffer" /\ run' = "tcp" /\ BufferFrame(frame.number)
  BY DEF Buffer, sending, outside, flags, TypeOK
<1> DEFINE n == frame.number
           kept == IF Len(audioBuffer) >= capacity /\ audioBuffer # <<>>
                   THEN Tail(audioBuffer) ELSE audioBuffer
<1>2. audioBuffer' = audioBuffer \/ audioBuffer' = Append(kept, n)
  BY <1>1 DEF BufferFrame, buffer
<1>3. audioBuffer \in Seq(Nat) /\ \A w \in DOMAIN audioBuffer : audioBuffer[w] \in Nat
  BY DEF TypeOK, ReconnTypes
<1>4. /\ kept \in Seq(Nat) /\ Len(kept) \in Nat /\ DOMAIN kept = 1..Len(kept)
      /\ \E d \in {0, 1} : \A w \in DOMAIN kept :
           w + d \in DOMAIN audioBuffer /\ kept[w] = audioBuffer[w + d]
  <2>1. CASE kept = audioBuffer
    BY <1>3, <2>1
  <2>2. CASE audioBuffer # <<>> /\ kept = Tail(audioBuffer)
    BY <1>3, <2>2
  <2> QED BY <2>1, <2>2
<1> HIDE DEF kept
<1>5. PICK d \in {0, 1} : \A w \in DOMAIN kept :
           w + d \in DOMAIN audioBuffer /\ kept[w] = audioBuffer[w + d]
  BY <1>4
<1>6. /\ Increasing(kept)
      /\ \A w \in DOMAIN kept : kept[w] \in Nat /\ kept[w] < n
      /\ \A w \in DOMAIN kept, i \in DOMAIN sent :
           sent[i] # kept[w] /\ (Overtaken(sent, i) => sent[i] < kept[w])
  <2>1. \A w \in DOMAIN audioBuffer : audioBuffer[w] < n
    BY <1>1 DEF MailInv, NewestInv
  <2>2. Increasing(kept)
    BY <1>4, <1>5 DEF MailInv, Increasing
  <2>3. \A w \in DOMAIN kept : kept[w] \in Nat /\ kept[w] < n
    BY <1>3, <1>5, <2>1
  <2>4. \A w \in DOMAIN kept, i \in DOMAIN sent :
           sent[i] # kept[w] /\ (Overtaken(sent, i) => sent[i] < kept[w])
    BY <1>5 DEF MailInv, Waits
  <2> QED BY <2>2, <2>3, <2>4
<1>7. \A i \in DOMAIN sent : sent[i] \in Nat /\ sent[i] < n
  BY <1>1 DEF MailInv, NewestInv, TypeOK
<1>8. Increasing(audioBuffer') /\ Made(audioBuffer)' /\ Waits(audioBuffer)'
  <2>1. CASE audioBuffer' = audioBuffer
    BY <1>1, <2>1 DEF MailInv, Increasing, Made, Waits, Overtaken
  <2>2. CASE audioBuffer' = Append(kept, n)
    <3>1. /\ DOMAIN audioBuffer' = 1..(Len(kept) + 1) /\ audioBuffer'[Len(kept) + 1] = n
          /\ \A w \in DOMAIN kept : audioBuffer'[w] = kept[w]
          /\ n \in Nat
      BY <1>1, <1>4, <2>2
    <3> HIDE DEF n
    <3>2. \A w \in DOMAIN audioBuffer' : w \in DOMAIN kept \/ w = Len(kept) + 1
      BY <1>4, <3>1
    <3>3. Increasing(audioBuffer')
      <4> SUFFICES ASSUME NEW v \in DOMAIN audioBuffer', NEW w \in DOMAIN audioBuffer', v < w
                   PROVE  audioBuffer'[v] < audioBuffer'[w]
        BY DEF Increasing
      <4>1. v \in DOMAIN kept
        BY <1>4, <3>1
      <4>2. CASE w \in DOMAIN kept
        BY <1>6, <3>1, <4>1, <4>2 DEF Increasing
      <4>3. CASE w = Len(kept) + 1
        BY <1>6, <3>1, <4>1, <4>3
      <4> QED BY <3>2, <4>2, <4>3
    <3>4. \A w \in DOMAIN audioBuffer' : audioBuffer'[w] <= n
      <4> SUFFICES ASSUME NEW w \in DOMAIN audioBuffer' PROVE audioBuffer'[w] <= n
        OBVIOUS
      <4>1. CASE w \in DOMAIN kept
        BY <1>6, <3>1, <4>1
      <4>2. CASE w = Len(kept) + 1
        BY <3>1, <4>2
      <4> QED BY <3>2, <4>1, <4>2
    <3>5. \A w \in DOMAIN audioBuffer', i \in DOMAIN sent :
            sent[i] # audioBuffer'[w] /\ (Overtaken(sent, i) => sent[i] < audioBuffer'[w])
      <4> SUFFICES ASSUME NEW w \in DOMAIN audioBuffer', NEW i \in DOMAIN sent
                   PROVE  /\ sent[i] # audioBuffer'[w]
                          /\ Overtaken(sent, i) => sent[i] < audioBuffer'[w]
        OBVIOUS
      <4>1. CASE w \in DOMAIN kept
        BY <1>6, <3>1, <4>1
      <4>2. CASE w = Len(kept) + 1
        BY <1>7, <3>1, <4>2
      <4> QED BY <3>2, <4>1, <4>2
    <3> QED BY <1>1, <3>3, <3>4, <3>5 DEF Made, Waits, n
  <2> QED BY <1>2, <2>1, <2>2
<1>9. /\ UDPOnce' /\ FlushedInOrder' /\ Increasing(flushing)'
      /\ Made(sent)' /\ Made(flushing)' /\ Waits(flushing)'
  BY <1>1 DEF MailInv, UDPOnce, FlushedInOrder, Overtaken, Increasing, Made, Waits
<1>10. NewestInv' /\ FlushInv'
  BY <1>1 DEF NewestInv, FlushInv, MailInv
<1> QED BY <1>8, <1>9, <1>10 DEF MailInv, Increasing

LEMMA MailInductive ==
  ASSUME TypeOK, MailInv, [Next]_vars
  PROVE  MailInv'
<1>1. CASE UNCHANGED vars
  <2>1. /\ UNCHANGED <<sent, flushing, audioBuffer, active, stopped, run>>
        /\ frame'.number = frame.number
    BY <1>1 DEF vars, progress, flags, reconnVars, buffer
  <2>2. active' \/ stopped' \/ run' = "off"
    BY <2>1 DEF MailInv, FlushInv
  <2> QED BY <2>1, <2>2, MailStays
<1>2. CASE Encode
  <2>1. frame' # frame \/ (frame' = frame /\ sent' = sent)
    BY <1>2 DEF Encode
  <2> QED BY <1>2, <2>1, MailEncode, MailRunStays
<1>3. CASE SendUDP
  <2>1. sent' # sent \/ (frame' = frame /\ sent' = sent)
    BY <1>3 DEF SendUDP
  <2> QED BY <1>3, <2>1, MailSend, MailRunStays
<1> QED BY <1>1, <1>2, <1>3, MailOthers, MailRunStays, MailPop, MailFlush, MailBuffer
        DEF Next, RunNext

LEMMA MailInit == Init => MailInv
<1> SUFFICES ASSUME Init PROVE MailInv
  OBVIOUS
<1>1. sent = <<>> /\ flushing = <<>> /\ audioBuffer = <<>> /\ run = "off"
  BY DEF Init, ReconnInit
<1> QED BY <1>1 DEF MailInv, UDPOnce, FlushedInOrder, Increasing, Made, Waits, NewestInv,
                    FlushInv

\* What is sent, kept and being flushed is apart and in order, in every state.
THEOREM MailInvariant == Spec => []MailInv
<1>1. TypeOK /\ MailInv /\ [Next]_vars => MailInv'
  BY MailInductive
<1> QED BY <1>1, MailInit, TypeCorrect, PTL DEF Spec

\* Frames that were kept come out in the order they were made, over any number
\* of outages.
THEOREM KeptInOrder == Spec => []FlushedInOrder
<1>1. MailInv => FlushedInOrder
  BY DEF MailInv
<1> QED BY <1>1, MailInvariant, PTL

-----------------------------------------------------------------------------
(* Both transports.                                                         *)

\* While the frame being sent goes out over TCP it is newer than all that UDP
\* took, and before that newer than all that TCP took too.
OnWay ==
  /\ run \in {"send", "buffer", "tcp"} => \A j \in DOMAIN tunnelled : tunnelled[j] < frame.number
  /\ run = "tcp" => \A i \in DOMAIN sent : sent[i] < frame.number
\* While the frames that were kept are sent, a newer one has gone before them.
Restored == run \in {"pop", "flush"} => \E i \in DOMAIN sent : sent[i] = frame.number

BothInv ==
  /\ TCPOnce /\ CopiesLate
  /\ \A j \in DOMAIN tunnelled : tunnelled[j] <= frame.number
  /\ OnWay /\ Restored

\* Steps that send nothing.
LEMMA BothStays ==
  ASSUME BothInv, UNCHANGED <<sent, tunnelled>>, frame'.number = frame.number,
         run' \in {"send", "buffer", "tcp"} => run \in {"send", "buffer", "tcp"},
         run' = "tcp" => \A i \in DOMAIN sent : sent[i] < frame.number,
         run' \in {"pop", "flush"} => run \in {"pop", "flush"}
  PROVE  BothInv'
<1> USE DEF BothInv
<1>1. TCPOnce' /\ CopiesLate'
  BY DEF TCPOnce, CopiesLate, Overtaken
<1>2. \A j \in DOMAIN tunnelled' : tunnelled'[j] <= frame'.number
  OBVIOUS
<1>3. OnWay'
  BY DEF OnWay
<1>4. Restored'
  BY DEF Restored
<1> QED BY <1>1, <1>2, <1>3, <1>4

\* The application, the callers of Stop, the clock and the timer.
LEMMA BothOthers ==
  ASSUME BothInv, MailInv,
         \/ Start \/ Cancel \/ Pause \/ Resume \/ Report
         \/ \E c \in Stoppers : StopCall(c) \/ StopClose(c) \/ StopTell(c)
         \/ TimePasses \/ Timer
  PROVE  BothInv'
<1>1. UNCHANGED <<sent, tunnelled>> /\ frame'.number = frame.number
  BY DEF Start, Cancel, Pause, Resume, Report, StopCall, StopClose, StopTell, TimePasses,
         Timer, progress, history
<1>2. run' = run \/ run' = "select"
  BY DEF Start, Cancel, Pause, Resume, Report, StopCall, StopClose, StopTell, TimePasses,
         Timer, progress
<1>3. run' = "tcp" => \A i \in DOMAIN sent : sent[i] < frame.number
  BY <1>2 DEF BothInv, OnWay
<1> QED BY <1>1, <1>2, <1>3, BothStays

\* The sending goroutine, where it sends nothing.
LEMMA BothRunStays ==
  ASSUME TypeOK, BothInv, MailInv,
         \/ Tick \/ Leave \/ Check \/ Mix \/ Pop \/ Buffer
         \/ Encode /\ frame' = frame /\ run' = "select"
         \/ (SendUDP \/ Flush \/ SendTCP) /\ UNCHANGED <<sent, tunnelled>>
  PROVE  BothInv'
<1>1. UNCHANGED <<sent, tunnelled>> /\ frame'.number = frame.number
  <2>1. CASE Mix
    <3>1. frame' = frame \/ \E d : frame' = [frame EXCEPT !.pcm = d]
      BY <2>1 DEF Mix
    <3> QED BY <2>1, <3>1 DEF Mix, TypeOK, history
  <2> QED BY <2>1 DEF Tick, Leave, Check, Pop, Buffer, Encode, SendUDP, Flush, SendTCP, history
<1>2. /\ run' \in {"send", "buffer", "tcp"} => run \in {"send", "buffer", "tcp"}
      /\ run' \in {"pop", "flush"} => run \in {"pop", "flush"}
      /\ run' = "tcp" => run = "buffer"
  <2>1. CASE SendUDP /\ UNCHANGED <<sent, tunnelled>>
    <3>1. sent \in Seq(Nat) /\ frame.number \in Nat
      BY DEF TypeOK
    <3>2. Append(sent, frame.number) # sent
      BY <3>1
    <3> QED BY <2>1, <3>2 DEF SendUDP, OverUDP
  <2> QED BY <2>1 DEF Tick, Leave, Check, Mix, Pop, Buffer, Encode, Flush, SendTCP
<1>3. run' = "tcp" => \A i \in DOMAIN sent : sent[i] < frame.number
  BY <1>2 DEF MailInv, NewestInv
<1> QED BY <1>1, <1>2, <1>3, BothStays

\* A new number is greater than all that went out.
LEMMA BothEncode ==
  ASSUME TypeOK, BothInv, Encode, run' = "send"
  PROVE  BothInv'
<1>1. /\ frame.number \in Nat /\ frame'.number = frame.number + 1
      /\ UNCHANGED <<sent, tunnelled>>
  <2>1. frame' = [frame EXCEPT !.number = @ + 1] /\ UNCHANGED <<sent, tunnelled>>
    BY DEF Encode, history
  <2>2. frame \in [number : Nat, pcm : Nat]
    BY DEF TypeOK
  <2> QED BY <2>1, <2>2
<1>2. \A j \in DOMAIN tunnelled : tunnelled[j] \in Nat
  BY DEF TypeOK
<1> USE <1>1 DEF BothInv
<1>3. TCPOnce' /\ CopiesLate'
  BY DEF TCPOnce, CopiesLate, Overtaken
<1>4. \A j \in DOMAIN tunnelled' : tunnelled'[j] < frame'.number
  BY <1>2
<1>5. \A j \in DOMAIN tunnelled' : tunnelled'[j] <= frame'.number
  BY <1>2
<1>6. OnWay' /\ Restored'
  BY <1>4 DEF OnWay, Restored
<1> QED BY <1>3, <1>5, <1>6

\* A number goes out over UDP that TCP did not take, or that a newer one has
\* overtaken.
LEMMA BothUDP ==
  ASSUME TypeOK, BothInv, NEW x \in Nat, sent' = Append(sent, x), tunnelled' = tunnelled,
         \/ \A j \in DOMAIN tunnelled : tunnelled[j] # x
         \/ \E i \in DOMAIN sent : sent[i] > x
  PROVE  CopiesLate'
<1>1. /\ sent \in Seq(Nat) /\ DOMAIN sent = 1..Len(sent) /\ Len(sent) \in Nat
      /\ DOMAIN sent' = 1..(Len(sent) + 1) /\ sent'[Len(sent) + 1] = x
      /\ \A i \in DOMAIN sent : sent'[i] = sent[i]
  BY DEF TypeOK
<1> SUFFICES ASSUME NEW i \in DOMAIN sent', NEW j \in DOMAIN tunnelled, sent'[i] = tunnelled[j]
             PROVE  Overtaken(sent', i)
  BY DEF CopiesLate
<1>2. CASE i \in DOMAIN sent
  <2>1. Overtaken(sent, i)
    BY <1>1, <1>2 DEF BothInv, CopiesLate
  <2> QED BY <1>1, <1>2, <2>1 DEF Overtaken
<1>3. CASE i = Len(sent) + 1
  <2>1. PICK k \in DOMAIN sent : sent[k] > x
    BY <1>1, <1>3
  <2>2. k \in 1..(i - 1) /\ sent'[k] > sent'[i]
    BY <1>1, <1>3, <2>1
  <2> QED BY <2>2 DEF Overtaken
<1> QED BY <1>1, <1>2, <1>3

LEMMA BothSend ==
  ASSUME TypeOK, BothInv, MailInv, SendUDP, sent' # sent
  PROVE  BothInv'
<1>1. /\ frame.number \in Nat /\ frame' = frame /\ run = "send" /\ run' = "pop"
      /\ sent' = Append(sent, frame.number) /\ tunnelled' = tunnelled
  BY DEF SendUDP, OverUDP, TypeOK
<1>2. \A j \in DOMAIN tunnelled : tunnelled[j] \in Nat /\ tunnelled[j] < frame.number
  BY <1>1 DEF TypeOK, BothInv, OnWay
<1>3. CopiesLate'
  <2>1. \A j \in DOMAIN tunnelled : tunnelled[j] # frame.number
    BY <1>1, <1>2
  <2> QED BY <1>1, <2>1, BothUDP
<1>4. Restored'
  <2>1. sent \in Seq(Nat)
    BY DEF TypeOK
  <2>2. Len(sent) + 1 \in DOMAIN sent' /\ sent'[Len(sent) + 1] = frame.number
    BY <1>1, <2>1
  <2> QED BY <1>1, <2>2 DEF Restored
<1>5. TCPOnce' /\ OnWay' /\ \A j \in DOMAIN tunnelled' : tunnelled'[j] <= frame'.number
  BY <1>1 DEF BothInv, TCPOnce, OnWay
<1> QED BY <1>3, <1>4, <1>5 DEF BothInv

LEMMA BothFlush ==
  ASSUME TypeOK, BothInv, MailInv, Flush, sent' # sent
  PROVE  BothInv'
<1> DEFINE x == Head(flushing)
<1>1. /\ flushing # <<>> /\ frame' = frame /\ run = "flush" /\ run' = "flush"
      /\ sent' = Append(sent, x) /\ tunnelled' = tunnelled
  BY DEF Flush, OverUDP
<1>2. x \in Nat /\ x = flushing[1] /\ 1 \in DOMAIN flushing
  BY <1>1 DEF TypeOK
<1>3. PICK i \in DOMAIN sent : sent[i] = frame.number
  BY <1>1 DEF BothInv, Restored
<1>4. sent[i] > x
  <2>1. sent[i] # x /\ x <= frame.number
    BY <1>2 DEF MailInv, Waits, Made
  <2>2. frame.number \in Nat
    BY DEF TypeOK
  <2> HIDE DEF x
  <2> QED BY <1>2, <1>3, <2>1, <2>2
<1> HIDE DEF x
<1>5. CopiesLate'
  BY <1>1, <1>2, <1>4, BothUDP
<1>6. Restored'
  <2>1. sent \in Seq(Nat)
    BY DEF TypeOK
  <2>2. i \in DOMAIN sent' /\ sent'[i] = sent[i]
    BY <1>1, <1>2, <2>1
  <2> QED BY <1>1, <1>3, <2>2 DEF Restored
<1>7. TCPOnce' /\ OnWay' /\ \A j \in DOMAIN tunnelled' : tunnelled'[j] <= frame'.number
  BY <1>1 DEF BothInv, TCPOnce, OnWay
<1> QED BY <1>5, <1>6, <1>7 DEF BothInv

LEMMA Appended ==
  ASSUME NEW s \in Seq(Nat), NEW x \in Nat
  PROVE  /\ DOMAIN Append(s, x) = 1..(Len(s) + 1) /\ Append(s, x)[Len(s) + 1] = x
         /\ \A j \in DOMAIN s : Append(s, x)[j] = s[j]
         /\ DOMAIN s = 1..Len(s) /\ Len(s) \in Nat
         /\ \A j \in DOMAIN s : s[j] \in Nat
OBVIOUS

LEMMA Apart ==
  ASSUME NEW x \in Nat, NEW y \in Nat, y < x
  PROVE  y # x
OBVIOUS

\* TCP takes a frame that neither took before.
LEMMA BothTCP ==
  ASSUME TypeOK, BothInv, SendTCP, tunnelled' # tunnelled
  PROVE  BothInv'
<1> DEFINE n == frame.number
<1>1. /\ n \in Nat /\ frame' = frame /\ run = "tcp" /\ run' = "select"
      /\ tunnelled' = Append(tunnelled, n) /\ sent' = sent
  BY DEF SendTCP, OverTCP, TypeOK, history
<1>2. /\ tunnelled \in Seq(Nat) /\ DOMAIN tunnelled = 1..Len(tunnelled)
      /\ Len(tunnelled) \in Nat
      /\ \A j \in DOMAIN tunnelled : tunnelled[j] \in Nat
      /\ \A i \in DOMAIN sent : sent[i] \in Nat
  BY DEF TypeOK
<1> HIDE DEF n
<1>3. /\ DOMAIN tunnelled' = 1..(Len(tunnelled) + 1) /\ tunnelled'[Len(tunnelled) + 1] = n
      /\ \A j \in DOMAIN tunnelled : tunnelled'[j] = tunnelled[j]
  BY <1>1, <1>2, Appended, Zenon
<1>4. /\ \A j \in DOMAIN tunnelled : tunnelled[j] < n
      /\ \A i \in DOMAIN sent : sent[i] < n
  BY <1>1 DEF BothInv, OnWay, n
<1>4a. /\ \A j \in DOMAIN tunnelled : tunnelled'[j] # n
       /\ \A i \in DOMAIN sent : sent[i] # n
  BY <1>1, <1>2, <1>3, <1>4, Apart, Zenon
<1>5. \A j \in DOMAIN tunnelled' : j \in DOMAIN tunnelled \/ j = Len(tunnelled) + 1
  BY <1>2, <1>3
<1>6. TCPOnce'
  <2> SUFFICES ASSUME NEW j \in DOMAIN tunnelled', NEW k \in DOMAIN tunnelled',
                      tunnelled'[j] = tunnelled'[k]
               PROVE  j = k
    BY DEF TCPOnce
  <2>1. CASE j \in DOMAIN tunnelled /\ k \in DOMAIN tunnelled
    BY <1>3, <2>1 DEF BothInv, TCPOnce
  <2>2. CASE j = Len(tunnelled) + 1 /\ k \in DOMAIN tunnelled
    BY <1>3, <1>4a, <2>2
  <2>3. CASE j \in DOMAIN tunnelled /\ k = Len(tunnelled) + 1
    BY <1>3, <1>4a, <2>3
  <2>4. CASE j = Len(tunnelled) + 1 /\ k = Len(tunnelled) + 1
    BY <2>4
  <2> QED BY <1>5, <2>1, <2>2, <2>3, <2>4
<1>7. CopiesLate'
  <2> SUFFICES ASSUME NEW i \in DOMAIN sent, NEW j \in DOMAIN tunnelled',
                      sent[i] = tunnelled'[j]
               PROVE  Overtaken(sent, i)
    BY <1>1 DEF CopiesLate
  <2>1. j \in DOMAIN tunnelled
    BY <1>3, <1>4a, <1>5
  <2> QED BY <1>3, <2>1 DEF BothInv, CopiesLate
<1>8. \A j \in DOMAIN tunnelled' : tunnelled'[j] <= frame'.number
  <2> SUFFICES ASSUME NEW j \in DOMAIN tunnelled' PROVE tunnelled'[j] <= n
    BY <1>1 DEF n
  <2>1. CASE j \in DOMAIN tunnelled
    <3>1. tunnelled'[j] \in Nat /\ tunnelled'[j] < n
      BY <1>2, <1>3, <1>4, <2>1
    <3> QED BY <1>1, <3>1
  <2>2. CASE j = Len(tunnelled) + 1
    BY <1>1, <1>3, <2>2
  <2> QED BY <1>5, <2>1, <2>2
<1>9. OnWay' /\ Restored'
  BY <1>1 DEF OnWay, Restored
<1> QED BY <1>6, <1>7, <1>8, <1>9 DEF BothInv

LEMMA BothInductive ==
  ASSUME TypeOK, MailInv, BothInv, [Next]_vars
  PROVE  BothInv'
<1>1. CASE UNCHANGED vars
  <2>1. UNCHANGED <<sent, tunnelled, frame, run>>
    BY <1>1 DEF vars, progress, history
  <2>2. run' = "tcp" => \A i \in DOMAIN sent : sent[i] < frame.number
    BY <2>1 DEF BothInv, OnWay
  <2> QED BY <2>1, <2>2, BothStays
<1>2. CASE Encode
  <2>1. run' = "send" \/ (frame' = frame /\ run' = "select")
    BY <1>2 DEF Encode
  <2> QED BY <1>2, <2>1, BothEncode, BothRunStays
<1>3. CASE SendUDP \/ Flush
  <2>1. tunnelled' = tunnelled
    BY <1>3 DEF SendUDP, Flush, OverUDP, history
  <2> QED BY <1>3, <2>1, BothSend, BothFlush, BothRunStays
<1>4. CASE SendTCP
  <2>1. sent' = sent
    BY <1>4 DEF SendTCP, OverTCP, history
  <2> QED BY <1>4, <2>1, BothTCP, BothRunStays
<1> QED BY <1>1, <1>2, <1>3, <1>4, BothOthers, BothRunStays DEF Next, RunNext

LEMMA BothInit == Init => BothInv
<1> SUFFICES ASSUME Init PROVE BothInv
  OBVIOUS
<1>1. sent = <<>> /\ tunnelled = <<>> /\ run = "off"
  BY DEF Init
<1> QED BY <1>1 DEF BothInv, TCPOnce, CopiesLate, OnWay, Restored

\* What went out over UDP and over TCP, and what is on its way, in every state.
THEOREM BothInvariant == Spec => []BothInv
<1>1. TypeOK /\ MailInv /\ BothInv /\ [Next]_vars => BothInv'
  BY BothInductive
<1> QED BY <1>1, BothInit, TypeCorrect, MailInvariant, PTL DEF Spec

\* No frame goes out twice over UDP or twice over TCP, and one that goes out over
\* both does so over UDP after a newer one: through failures, keeping, flushing
\* that fails half way, and any calls of the application in between.
THEOREM NoFrameTwice == Spec => []SentOnce
<1>1. MailInv /\ BothInv => SentOnce
  BY DEF MailInv, BothInv, SentOnce
<1> QED BY <1>1, MailInvariant, BothInvariant, PTL

-----------------------------------------------------------------------------
(* Pause.                                                                   *)

\* What can go out from here although the sender is paused: the frame past the
\* test of paused, and the frames kept.
StillToGo ==
  IF run \in {"mix", "encode", "send"} THEN 1 + Len(audioBuffer)
  ELSE IF run = "pop" THEN Len(audioBuffer)
  ELSE IF run = "flush" THEN Len(flushing)
  ELSE IF run \in {"buffer", "tcp"} THEN 1 ELSE 0

PauseInv == paused => afterPause + StillToGo <= 1 + backlog

LEMMA PauseTypes ==
  ASSUME TypeOK
  PROVE  /\ afterPause \in Nat /\ backlog \in Nat
         /\ Len(audioBuffer) \in Nat /\ Len(flushing) \in Nat
         /\ StillToGo \in Nat
         /\ StillToGo <= 1 + Len(audioBuffer) + Len(flushing)
BY DEF TypeOK, ReconnTypes, StillToGo

LEMMA PauseTypesNext ==
  ASSUME TypeOK'
  PROVE  /\ afterPause' \in Nat /\ backlog' \in Nat
         /\ Len(audioBuffer') \in Nat /\ StillToGo' \in Nat
<1>1. /\ afterPause' \in Nat /\ backlog' \in Nat
      /\ audioBuffer' \in Seq(Nat) /\ flushing' \in Seq(Nat)
  BY DEF TypeOK, ReconnTypes
<1>2. Len(audioBuffer') \in Nat /\ Len(flushing') \in Nat
  BY <1>1
<1> QED BY <1>1, <1>2 DEF StillToGo

\* Steps that add nothing to what is to go out.
LEMMA PauseStays ==
  ASSUME TypeOK, TypeOK', PauseInv, UNCHANGED <<afterPause, backlog>>,
         paused' => paused, StillToGo' <= StillToGo
  PROVE  PauseInv'
BY PauseTypes, PauseTypesNext DEF PauseInv

\* One that goes out was among those to go.
LEMMA OneOut ==
  ASSUME NEW a \in Nat, NEW b \in Nat, NEW t \in Nat, NEW u \in Nat,
         a + t <= 1 + b, u + 1 <= t
  PROVE  (a + 1) + u <= 1 + b
OBVIOUS

LEMMA PauseOthers ==
  ASSUME TypeOK, TypeOK', PauseInv, MailInv,
         \/ Start \/ Cancel \/ Pause \/ Resume \/ Report
         \/ \E c \in Stoppers : StopCall(c) \/ StopClose(c) \/ StopTell(c)
         \/ TimePasses \/ Timer
  PROVE  PauseInv'
<1>1. /\ run' = run \/ run' = "select"
      /\ flushing' = flushing
  BY DEF Start, Cancel, Pause, Resume, Report, StopCall, StopClose, StopTell, TimePasses,
         Timer, progress
<1>2. audioBuffer' = audioBuffer \/ audioBuffer' = <<>>
  BY ManagerKeeps DEF Start, Cancel, Pause, Resume, Report, StopCall, StopClose, StopTell,
                      TimePasses, Timer
<1>3. StillToGo' <= StillToGo
  <2>1. Len(audioBuffer') <= Len(audioBuffer) /\ Len(audioBuffer') \in Nat
    BY <1>2, NumberSeqs, PauseTypes, PauseTypesNext
  <2>2. CASE run' = "select"
    <3>1. StillToGo' = 0
      BY <2>2 DEF StillToGo
    <3> QED BY <3>1, PauseTypes
  <2>3. CASE run' = run
    BY <1>1, <2>1, <2>3, PauseTypes DEF StillToGo
  <2> QED BY <1>1, <2>2, <2>3
<1>4. CASE Pause
  <2>1. paused \/ (backlog' = Len(audioBuffer) + Len(flushing) /\ afterPause' = 0)
    BY <1>4 DEF Pause
  <2>2. CASE paused
    BY <1>3, <1>4, <2>2, PauseStays DEF Pause
  <2>3. CASE backlog' = Len(audioBuffer) + Len(flushing) /\ afterPause' = 0
    <3>1. StillToGo' \in Nat /\ StillToGo' <= 1 + backlog'
      BY <1>3, <2>3, PauseTypes, PauseTypesNext
    <3> QED BY <2>3, <3>1, PauseTypesNext DEF PauseInv
  <2> QED BY <2>1, <2>2, <2>3
<1>5. CASE ~Pause
  <2>1. UNCHANGED <<afterPause, backlog>> /\ (paused' => paused)
    BY <1>5 DEF Start, Cancel, Resume, Report, StopCall, StopClose, StopTell, TimePasses,
                Timer, outside, history
  <2> QED BY <1>3, <2>1, PauseStays
<1> QED BY <1>4, <1>5

LEMMA PauseRun ==
  ASSUME TypeOK, TypeOK', PauseInv, MailInv, RunNext \/ Leave
  PROVE  PauseInv'
<1>1. paused' = paused
  BY DEF RunNext, Leave, Tick, Check, Mix, Encode, SendUDP, Pop, Flush, Buffer,
         SendTCP, sending, outside
<1>2. CASE Tick \/ Leave \/ Encode \/ Pop \/ Buffer
  <2>1. UNCHANGED <<afterPause, backlog>>
    BY <1>2 DEF Tick, Leave, Encode, Pop, Buffer, history
  <2>2. StillToGo' <= StillToGo
    <3>1. CASE Encode
      <4>1. audioBuffer' = audioBuffer
        BY <3>1, ManagerKeeps DEF Encode
      <4> QED BY <3>1, <4>1, PauseTypes DEF Encode, StillToGo
    <3>2. CASE Tick \/ Leave
      BY <3>2, PauseTypes DEF Tick, Leave, StillToGo
    <3>3. CASE Pop
      BY <3>3, PauseTypes DEF Pop, StillToGo
    <3>4. CASE Buffer
      BY <3>4, PauseTypes DEF Buffer, StillToGo
    <3> QED BY <1>2, <3>1, <3>2, <3>3, <3>4
  <2> QED BY <1>1, <2>1, <2>2, PauseStays
<1>3. CASE Check
  <2>1. UNCHANGED <<afterPause, backlog>> /\ (paused => run' = "select")
    BY <1>3 DEF Check, history
  <2>2. paused => StillToGo' = 0
    BY <2>1 DEF StillToGo
  <2>3. afterPause' \in Nat /\ (paused => afterPause <= 1 + backlog)
    BY <2>1, PauseTypes DEF PauseInv
  <2> QED BY <1>1, <2>1, <2>2, <2>3 DEF PauseInv
<1>4. CASE Mix
  <2>1. audioBuffer' = audioBuffer /\ UNCHANGED <<afterPause, backlog>>
    BY <1>4, ManagerKeeps DEF Mix, history
  <2>2. run = "mix" /\ run' \in {"select", "encode"}
    BY <1>4 DEF Mix
  <2>3. StillToGo' <= StillToGo
    BY <2>1, <2>2, PauseTypes DEF StillToGo
  <2> QED BY <1>1, <2>1, <2>3, PauseStays
<1>5. CASE SendUDP \/ SendTCP \/ Flush
  <2>1. \/ UNCHANGED <<afterPause, backlog>> /\ StillToGo' <= StillToGo
        \/ Counted /\ backlog' = backlog /\ StillToGo' + 1 <= StillToGo
    <3>1. CASE SendUDP
      <4>1. audioBuffer' = audioBuffer
        BY <3>1, ManagerKeeps DEF SendUDP
      <4>2. CASE OverUDP(frame.number) /\ run' = "pop"
        <5>1. StillToGo = 1 + Len(audioBuffer) /\ StillToGo' = Len(audioBuffer)
          BY <3>1, <4>1, <4>2 DEF SendUDP, StillToGo
        <5> QED BY <4>2, <5>1, PauseTypes DEF OverUDP
      <4>3. CASE run' = "buffer" /\ UNCHANGED history
        <5>1. StillToGo = 1 + Len(audioBuffer) /\ StillToGo' = 1
          BY <3>1, <4>3 DEF SendUDP, StillToGo
        <5> QED BY <4>3, <5>1, PauseTypes DEF history
      <4> QED BY <3>1, <4>2, <4>3 DEF SendUDP
    <3>2. CASE SendTCP
      <4>1. StillToGo = 1 /\ StillToGo' = 0
        BY <3>2 DEF SendTCP, StillToGo
      <4> QED BY <3>2, <4>1 DEF SendTCP, OverTCP, history
    <3>3. CASE Flush
      <4>1. run = "flush" /\ StillToGo = Len(flushing)
        BY <3>3 DEF Flush, StillToGo
      <4>2. CASE run' = "select" /\ UNCHANGED history
        <5>1. StillToGo' = 0
          BY <4>2 DEF StillToGo
        <5> QED BY <4>2, <5>1, PauseTypes DEF history
      <4>3. CASE flushing # <<>> /\ flushing' = Tail(flushing) /\ run' = run
                 /\ OverUDP(Head(flushing))
        <5>1. flushing \in Seq(Nat)
          BY DEF TypeOK
        <5>2. Len(flushing') + 1 = Len(flushing)
          BY <4>3, <5>1
        <5>3. StillToGo' = Len(flushing')
          BY <4>1, <4>3 DEF StillToGo
        <5>4. StillToGo' + 1 <= StillToGo
          BY <4>1, <5>2, <5>3, PauseTypes
        <5> QED BY <4>3, <5>4 DEF OverUDP
      <4> QED BY <3>3, <4>2, <4>3 DEF Flush
    <3> QED BY <1>5, <3>1, <3>2, <3>3
  <2>2. CASE UNCHANGED <<afterPause, backlog>> /\ StillToGo' <= StillToGo
    BY <1>1, <2>2, PauseStays
  <2>3. CASE Counted /\ backlog' = backlog /\ StillToGo' + 1 <= StillToGo
    <3>1. /\ StillToGo \in Nat /\ StillToGo' \in Nat /\ backlog \in Nat /\ afterPause \in Nat
          /\ paused => afterPause' = afterPause + 1
      BY <2>3, PauseTypes, PauseTypesNext DEF Counted
    <3>2. CASE paused
      <4>1. afterPause + StillToGo <= 1 + backlog
        BY <3>2 DEF PauseInv
      <4>2. afterPause' + StillToGo' <= 1 + backlog'
        BY <2>3, <3>1, <3>2, <4>1, OneOut, Zenon
      <4> QED BY <4>2 DEF PauseInv
    <3>3. CASE ~paused
      BY <1>1, <3>3 DEF PauseInv
    <3> QED BY <3>2, <3>3
  <2> QED BY <2>1, <2>2, <2>3
<1> QED BY <1>2, <1>3, <1>4, <1>5 DEF RunNext

LEMMA PauseInductive ==
  ASSUME TypeOK, TypeOK', MailInv, PauseInv, [Next]_vars
  PROVE  PauseInv'
<1>1. CASE UNCHANGED vars
  <2>1. UNCHANGED <<paused, afterPause, backlog, run, audioBuffer, flushing>>
    BY <1>1 DEF vars, progress, history, reconnVars, buffer
  <2>2. StillToGo' = StillToGo
    BY <2>1 DEF StillToGo
  <2> QED BY <2>1, <2>2 DEF PauseInv
<1> QED BY <1>1, PauseOthers, PauseRun DEF Next

\* After Pause no more goes out, over UDP and TCP together, than the frame that was
\* on its way and the frames that were kept before Pause: however Pause, Resume,
\* ticks, outages and the application's reports interleave.
THEOREM PauseIsObeyed == Spec => []PauseSettles
<1>1. Init => PauseInv
  BY DEF Init, PauseInv
<1>2. TypeOK /\ TypeOK' /\ MailInv /\ PauseInv /\ [Next]_vars => PauseInv'
  BY PauseInductive
<1>3. TypeOK /\ PauseInv => PauseSettles
  BY PauseTypes DEF PauseInv, PauseSettles
<1> QED BY <1>1, <1>2, <1>3, TypeCorrect, MailInvariant, PTL DEF Spec

-----------------------------------------------------------------------------
(* The sender is a Mailbox.                                                 *)

mailVars == <<frame.number, Newest, flushing \o audioBuffer, sent>>

LEMMA Joined ==
  ASSUME NEW s \in Seq(Nat)
  PROVE  s \o <<>> = s /\ <<>> \o s = s
OBVIOUS

\* Steps that send and keep nothing: they leave the mailbox alone or forget.
LEMMA MailRests ==
  ASSUME TypeOK, MailInv, UNCHANGED <<sent, flushing>>, frame'.number = frame.number,
         audioBuffer' = audioBuffer \/ audioBuffer' = <<>>,
         run' \in {"send", "buffer"} <=> run \in {"send", "buffer"}
  PROVE  Mail!Forget \/ UNCHANGED mailVars
<1>1. Newest' = Newest
  BY DEF Newest
<1>2. CASE audioBuffer' = audioBuffer
  BY <1>1, <1>2 DEF mailVars
<1>3. CASE audioBuffer' = <<>> /\ flushing = <<>>
  <2>1. flushing' \o audioBuffer' = <<>>
    BY <1>3
  <2> QED BY <1>1, <2>1 DEF Mail!Forget
<1>4. CASE audioBuffer' = <<>> /\ flushing # <<>>
  <2>1. audioBuffer = <<>>
    BY <1>4 DEF MailInv, FlushInv
  <2> QED BY <1>1, <1>4, <2>1 DEF mailVars
<1> QED BY <1>2, <1>3, <1>4

\* The application, the callers of Stop, the clock and the timer.
LEMMA MailOthersRest ==
  ASSUME TypeOK, MailInv,
         \/ Start \/ Cancel \/ Pause \/ Resume \/ Report
         \/ \E c \in Stoppers : StopCall(c) \/ StopClose(c) \/ StopTell(c)
         \/ TimePasses \/ Timer
  PROVE  Mail!Forget \/ UNCHANGED mailVars
<1>1. UNCHANGED <<sent, flushing>> /\ frame'.number = frame.number
  BY DEF Start, Cancel, Pause, Resume, Report, StopCall, StopClose, StopTell, TimePasses,
         Timer, progress
<1>2. audioBuffer' = audioBuffer \/ audioBuffer' = <<>>
  BY ManagerKeeps DEF Start, Cancel, Pause, Resume, Report, StopCall, StopClose, StopTell,
                      TimePasses, Timer
<1>3. run' = run \/ (run = "off" /\ run' = "select")
  BY DEF Start, Cancel, Pause, Resume, Report, StopCall, StopClose, StopTell, TimePasses,
         Timer, progress, MailInv, FlushInv
<1> QED BY <1>1, <1>2, <1>3, MailRests

\* The sending goroutine, where no number is given, sent or kept.
LEMMA MailRunRests ==
  ASSUME TypeOK, MailInv,
         \/ Tick \/ Leave \/ Check \/ Mix \/ SendTCP
         \/ Encode /\ run' = "select"
         \/ SendUDP /\ run' = "buffer"
  PROVE  Mail!Forget \/ UNCHANGED mailVars
<1>1. UNCHANGED <<sent, flushing>> /\ frame'.number = frame.number
  <2>1. CASE Mix
    <3>1. frame' = frame \/ \E d : frame' = [frame EXCEPT !.pcm = d]
      BY <2>1 DEF Mix
    <3> QED BY <2>1, <3>1 DEF Mix, TypeOK
  <2> QED BY <2>1 DEF Tick, Leave, Check, SendTCP, OverTCP, Encode, SendUDP
<1>2. audioBuffer' = audioBuffer
  BY ManagerKeeps DEF Tick, Leave, Check, Mix, SendTCP, Encode, SendUDP
<1>3. run' \in {"send", "buffer"} <=> run \in {"send", "buffer"}
  BY DEF Tick, Leave, Check, Mix, SendTCP, Encode, SendUDP
<1> QED BY <1>1, <1>2, <1>3, MailRests

\* Each of the other steps is one of the mailbox, or moves what is kept from the
\* buffer to where it is sent from.
LEMMA MailRunMoves ==
  ASSUME TypeOK, MailInv, SenderInv, OnTimeInv,
         \/ Encode /\ run' = "send"
         \/ SendUDP /\ run' = "pop"
         \/ Pop \/ Flush \/ Buffer
  PROVE  Mail!Next \/ UNCHANGED mailVars
<1>0. /\ flushing \in Seq(Nat) /\ audioBuffer \in Seq(Nat) /\ frame.number \in Nat
      /\ run # "flush" => flushing = <<>>
      /\ run = "flush" => audioBuffer = <<>>
  BY DEF TypeOK, ReconnTypes, MailInv, FlushInv
<1>1. CASE Encode /\ run' = "send"
  <2>1. /\ frame'.number = frame.number + 1 /\ run = "encode"
        /\ UNCHANGED <<flushing, sent, audioBuffer>>
    BY <1>1, ManagerKeeps DEF Encode, TypeOK
  <2>2. Mail!Make
    BY <1>1, <2>1 DEF Mail!Make, Newest
  <2> QED BY <2>2 DEF Mail!Next
<1>2. CASE SendUDP /\ run' = "pop"
  <2>1. /\ frame' = frame /\ run = "send" /\ sent' = Append(sent, frame.number)
        /\ UNCHANGED <<flushing, audioBuffer>>
    BY <1>2, ManagerKeeps DEF SendUDP, OverUDP
  <2>2. Mail!Send
    BY <1>2, <2>1 DEF Mail!Send, Newest
  <2> QED BY <2>2 DEF Mail!Next
<1>3. CASE Pop
  <2>1. /\ run = "pop" /\ run' = "flush" /\ UNCHANGED <<frame, sent>>
        /\ flushing' = audioBuffer /\ audioBuffer' = <<>>
    BY <1>3, ManagerKeeps DEF Pop
  <2>2. flushing' \o audioBuffer' = flushing \o audioBuffer
    BY <1>0, <2>1
  <2> QED BY <2>1, <2>2 DEF mailVars, Newest
<1>4. CASE Flush
  <2>1. /\ run = "flush" /\ run' \in {"flush", "select"} /\ frame' = frame
        /\ audioBuffer = <<>> /\ audioBuffer' = <<>>
    BY <1>0, <1>4, ManagerKeeps DEF Flush
  <2>2. Newest = "settled" /\ Newest' = "settled"
    BY <2>1 DEF Newest
  <2>3. /\ flushing \o audioBuffer = flushing
        /\ flushing' \in Seq(Nat) => flushing' \o audioBuffer' = flushing'
    BY <1>0, <2>1, Joined
  <2>4. CASE flushing' = <<>> /\ sent' = sent
    BY <2>1, <2>2, <2>3, <2>4 DEF Mail!Next, Mail!Forget
  <2>5. CASE flushing # <<>> /\ flushing' = Tail(flushing) /\ sent' = Append(sent, Head(flushing))
    <3>1. flushing' \in Seq(Nat)
      BY <1>0, <2>5
    <3> QED BY <2>1, <2>2, <2>3, <2>5, <3>1 DEF Mail!Next, Mail!SendKept
  <2> QED BY <1>4, <2>4, <2>5 DEF Flush, OverUDP
<1>5. CASE Buffer
  <2>1. /\ run = "buffer" /\ run' = "tcp" /\ UNCHANGED <<frame, flushing, sent>>
        /\ flushing = <<>> /\ BufferFrame(frame.number)
    BY <1>0, <1>5 DEF Buffer
  <2>2. ~closed
    BY <2>1, OpenAtWork
  <2>3. \/ audioBuffer' = Append(audioBuffer, frame.number)
        \/ audioBuffer # <<>> /\ audioBuffer' = Append(Tail(audioBuffer), frame.number)
    BY <2>1, <2>2 DEF BufferFrame
  <2>4. audioBuffer' \in Seq(Nat)
    <3>1. CASE audioBuffer' = Append(audioBuffer, frame.number)
      BY <1>0, <3>1
    <3>2. CASE audioBuffer # <<>> /\ audioBuffer' = Append(Tail(audioBuffer), frame.number)
      <4>1. Tail(audioBuffer) \in Seq(Nat)
        BY <1>0, <3>2
      <4> QED BY <1>0, <3>2, <4>1
    <3> QED BY <2>3, <3>1, <3>2
  <2>5. flushing \o audioBuffer = audioBuffer /\ flushing' \o audioBuffer' = audioBuffer'
    BY <1>0, <2>1, <2>4, Joined
  <2>6. Mail!Keep
    BY <2>1, <2>3, <2>5 DEF Mail!Keep, Newest
  <2> QED BY <2>6 DEF Mail!Next
<1> QED BY <1>1, <1>2, <1>3, <1>4, <1>5

\* Every step of the sender is a step of the mailbox, or none.
LEMMA MailMoves ==
  ASSUME TypeOK, MailInv, SenderInv, OnTimeInv, [Next]_vars
  PROVE  [Mail!Next]_mailVars
<1>1. CASE UNCHANGED vars
  BY <1>1 DEF vars, progress, reconnVars, buffer, mailVars, Newest
<1>2. CASE \/ Start \/ Cancel \/ Pause \/ Resume \/ Report
           \/ \E c \in Stoppers : StopCall(c) \/ StopClose(c) \/ StopTell(c)
           \/ TimePasses \/ Timer
  BY <1>2, MailOthersRest DEF Mail!Next
<1>3. CASE Tick \/ Leave \/ Check \/ Mix \/ SendTCP
  BY <1>3, MailRunRests DEF Mail!Next
<1>4. CASE Encode \/ SendUDP
  <2>1. \/ Encode /\ run' = "select"
        \/ Encode /\ run' = "send"
        \/ SendUDP /\ run' = "buffer"
        \/ SendUDP /\ run' = "pop"
    BY <1>4 DEF Encode, SendUDP
  <2> QED BY <2>1, MailRunRests, MailRunMoves DEF Mail!Next
<1>5. CASE Pop \/ Flush \/ Buffer
  BY <1>5, MailRunMoves
<1> QED BY <1>1, <1>2, <1>3, <1>4, <1>5 DEF Next, RunNext

\* Through outages, recoveries, failed flushes, a full buffer, Stop and the calls of
\* the application, a frame that was made is sent at once or kept, what is kept
\* is sent in order or forgotten, and nothing is sent twice.
THEOREM ImplementsMailbox == Spec => FramesHandled
<1>1. Init => Mail!Init
  BY DEF Init, ReconnInit, Mail!Init, Newest
<1>2. TypeOK /\ MailInv /\ SenderInv /\ OnTimeInv /\ [Next]_vars => [Mail!Next]_mailVars
  BY MailMoves
<1> QED BY <1>1, <1>2, TypeCorrect, MailInvariant, SenderInvariant, OnTimeInvariant, PTL
        DEF Spec, FramesHandled, Mail!Spec, mailVars
=============================================================================
