----------------------------- MODULE AudioOutput -----------------------------
(***************************************************************************)
(* audio/output.go: the frames waiting to be encoded, the numbers they are *)
(* given, and the packet they leave in; and what Input.ProcessPacket of    *)
(* the listener's client makes of that packet once the server has passed   *)
(* it on.  Each operation holds o.mu from its first line to its last.      *)
(*                                                                         *)
(* Time is in ms.  sequence is 32 bits wide and counts 10 ms, so it does   *)
(* not wrap within any bound used here.  A frame is the number of the 20   *)
(* ms it is in what has been spoken.                                       *)
(***************************************************************************)
EXTENDS Integers, Sequences, FiniteSets

CONSTANTS
  Gaps,        \* the times that may pass between two batches
  MaxFrames,   \* bound: frames spoken
  MaxElapsed   \* bound: time without a long pause

ASSUME OutputConstants ==
  Gaps \subseteq Nat /\ MaxFrames \in Nat /\ MaxElapsed \in Nat

FrameDurationMs == 20
SequenceDuration == 10
PerFrame == FrameDurationMs \div SequenceDuration
LongPause == 5000

VARIABLES
  pcmBuffer,  \* the frames not yet encoded
  spoken,     \* how many were added
  sequence,   \* the number of the last batch
  started,    \* sequenceStart is set
  elapsed,    \* lastSend - sequenceStart
  batch       \* how many frames the last batch has

outputVars == <<pcmBuffer, spoken, sequence, started, elapsed, batch>>
clockVars == <<sequence, started, elapsed, batch>>

Frame == 1..MaxFrames

OutputInit ==
  /\ pcmBuffer = <<>> /\ spoken = 0
  /\ sequence = 0 /\ started = FALSE /\ elapsed = 0 /\ batch = 0

-----------------------------------------------------------------------------

\* PCM for n frames, the last one filled up with silence.
AddPCM(n) ==
  /\ spoken + n <= MaxFrames
  /\ pcmBuffer' = pcmBuffer \o [i \in 1..n |-> spoken + i]
  /\ spoken' = spoken + n
  /\ UNCHANGED clockVars

\* advanceSequenceLocked: n frames leave d ms after the last ones.
Advance(n, d) ==
  LET reset == ~started \/ d > LongPause IN
  /\ started' = TRUE /\ batch' = n
  /\ elapsed' = IF reset THEN 0 ELSE elapsed + d
  /\ elapsed' <= MaxElapsed
  /\ sequence' = IF reset THEN 0
                 ELSE IF d > 2 * FrameDurationMs THEN elapsed' \div SequenceDuration
                 ELSE sequence + n * PerFrame

\* A batch that is what was spoken since the last one, and not a smaller one.
OnPace(n, d) == started => n >= batch /\ d >= n * FrameDurationMs

\* Which of the buffer's frames the encoder can do, in order, and those frames;
\* the others are left out.
Picks ==
  LET n == Len(pcmBuffer) IN
  UNION {{ok \in [1..m -> 1..n] : \A i, j \in 1..m : i < j => ok[i] < ok[j]} : m \in 0..n}

Encoded(frames, ok) == [i \in DOMAIN ok |-> frames[ok[i]]]

\* A bug: the frames encoded stay.
EncodeFramesKeeps ==
  UNCHANGED outputVars

\* EncodeFrames takes the whole buffer.
EncodeFrames ==
  /\ pcmBuffer' = <<>>
  /\ UNCHANGED <<spoken, clockVars>>

ClearBuffer ==
  /\ pcmBuffer # <<>> /\ pcmBuffer' = <<>>
  /\ UNCHANGED <<spoken, clockVars>>

-----------------------------------------------------------------------------
(* The packet that goes through the tunnel.                                 *)

\* The terminator is on the last frame of the buffer, if it is encoded.
Terminator(frames, f) == f = frames[Len(frames)]

\* buildPacket.
Packet(seq, frames, ok) ==
  LET coded == Encoded(frames, ok)
  IN  [sequence |-> seq,
       frames |-> [i \in 1..Len(coded) |->
                     [frame |-> coded[i], terminator |-> Terminator(frames, coded[i])]]]

\* ProcessPacket: the frames up to a terminator, each numbered as the 20 ms
\* after the one before.
Heard(packet) ==
  LET n == Len(packet.frames)
      before(i) == {j \in 1..(i - 1) : packet.frames[j].terminator}
  IN  [i \in {j \in 1..n : before(j) = {}} |->
         [frame |-> packet.frames[i].frame,
          number |-> packet.sequence + (i - 1) * PerFrame]]
=============================================================================
