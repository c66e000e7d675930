----------------------------- MODULE JitterBuffer -----------------------------
(***************************************************************************)
(* JitterBuffer of sdk/stream/jitter.go.  Times are integers.  One frame   *)
(* is pushed per period, so a frame is identified by its deadline; a frame *)
(* of silence has none.  Push and Pop read the clock for themselves.       *)
(***************************************************************************)
EXTENDS Integers, Sequences, SequencesExt

CONSTANTS
  Depth,   \* frames to hold, StreamConfig.BufferDepth
  Period   \* the duration of a frame

ASSUME JitterConstants == Depth \in 1..20 /\ Period \in Nat \ {0}

VARIABLES
  frames,        \* the deadlines of the frames held, the next to play first
  jitterClosed

jitterVars == <<frames, jitterClosed>>

JitterInit == frames = <<>> /\ jitterClosed = FALSE
JitterTypes == frames \in Seq(Nat) /\ jitterClosed \in BOOLEAN

Silence == 0
maxDelay == (Depth + 1) * Period

\* A bug: what is due already is kept.
UndueKeepsAll(fs, now) == fs

\* What Push keeps of the frames held: those not due yet.
Undue(fs, now) ==
  LET valid[i \in 0..Len(fs)] ==
        IF i = 0 THEN <<>>
        ELSE IF fs[i] > now THEN Append(valid[i - 1], fs[i]) ELSE valid[i - 1]
  IN  valid[Len(fs)]

\* The frame goes before the first with a later deadline.
Inserted(fs, d) ==
  LET later == {i \in DOMAIN fs : d < fs[i]}
  IN  InsertAt(fs, IF later = {} THEN Len(fs) + 1 ELSE Min(later), d)

\* More than twice the depth is cut down to the depth, the oldest first.
Limited(fs) ==
  IF Len(fs) > 2 * Depth THEN SubSeq(fs, Len(fs) - Depth + 1, Len(fs)) ELSE fs

\* The buffer after Push(d) at time now.
Pushed(fs, d, now) ==
  IF d + maxDelay < now THEN fs ELSE Limited(Inserted(Undue(fs, now), d))

\* Pop at time now.  A frame that is not due stays, and silence is returned
\* as if it were one.
PoppedFrame(fs, now) == IF fs = <<>> \/ Head(fs) > now THEN Silence ELSE Head(fs)
PoppedOk(fs) == fs # <<>>
AfterPop(fs, now) == IF fs = <<>> \/ Head(fs) > now THEN fs ELSE Tail(fs)

CloseJitter == frames' = <<>> /\ jitterClosed' = TRUE
=============================================================================
