----------------------------- MODULE CryptState ------------------------------
(***************************************************************************)
(* CryptStateOCB2 of audio/crypto.go: the sealing end and the opening end  *)
(* of one direction of encrypted voice, with a datagram service between    *)
(* them that loses, repeats, reorders and garbles.                         *)
(*                                                                         *)
(* An IV is an integer.  The code keeps it as 16 bytes, lowest first, puts *)
(* the lowest in the datagram and remembers the second per value of the    *)
(* lowest; the others only matter for equality, so their width does not.   *)
(* A tag agrees exactly when both ends use the same IV.                    *)
(***************************************************************************)
EXTENDS Integers, FiniteSets

CONSTANTS
  B,           \* values of a byte: 256
  Half,        \* how far ahead an IV byte is looked for: 128
  LateWindow,  \* how far behind, exclusive: 30
  Nonces,      \* initial IVs
  MaxSealed    \* bound: packets sealed

ASSUME CryptConstants ==
  /\ B \in Nat /\ Half \in Nat /\ LateWindow \in Nat
  /\ B = 2 * Half /\ 1 < LateWindow /\ LateWindow <= Half
  /\ Nonces \subseteq Nat /\ MaxSealed \in Nat

VARIABLES
  nonce,           \* the IV both ends were given by SetKey
  encryptIV,       \* of the sealing end
  decryptIV,       \* of the opening end, as are the next four
  decryptHistory,
  uiGood, uiLate, uiLost,
  sent,            \* the IVs of the datagrams that went out
  delivered        \* the IVs of the plaintexts Decrypt returned

keys == <<nonce, encryptIV>>
stats == <<uiGood, uiLate, uiLost>>
vars == <<keys, decryptIV, decryptHistory, stats, sent, delivered>>

\* SetKey, on a new CryptStateOCB2 at each end.
Init ==
  /\ nonce \in Nonces /\ encryptIV = nonce /\ decryptIV = nonce
  /\ decryptHistory = [b \in 0..B-1 |-> 0]
  /\ uiGood = 0 /\ uiLate = 0 /\ uiLost = 0
  /\ sent = {} /\ delivered = {}

-----------------------------------------------------------------------------
(* From the byte in the datagram to the IV.                                 *)

Low(iv) == iv % B
Mid(iv) == (iv \div B) % B

\* How far the byte b is from the IV's, the short way round.
Diff(iv, b) ==
  LET raw == b - Low(iv)
  IN  IF raw > Half THEN raw - B ELSE IF raw < -Half THEN raw + B ELSE raw

InOrder(iv, b) == b = (Low(iv) + 1) % B
Ahead(iv, b) == InOrder(iv, b) \/ Diff(iv, b) > 0
Late(iv, b) == ~InOrder(iv, b) /\ -LateWindow < Diff(iv, b) /\ Diff(iv, b) < 0

\* The lowest byte is replaced; the others are incremented or decremented
\* when that byte passed its end on the way.
Div(iv, b) ==
  iv - Low(iv) + b +
    (IF b < Low(iv) /\ Ahead(iv, b) THEN B
     ELSE IF b > Low(iv) /\ Late(iv, b) THEN -B ELSE 0)

\* A bug: a byte that wraps is not counted.
LostFlat(iv, b) == IF Late(iv, b) THEN -1
                   ELSE IF InOrder(iv, b) \/ b < Low(iv) THEN 0
                   ELSE b - Low(iv) - 1

\* What the packet adds to uiLost.  A late one was counted as lost before.
Lost(iv, b) == IF Late(iv, b) THEN -1
               ELSE IF InOrder(iv, b) THEN 0
               ELSE b - Low(iv) - 1 + (IF b < Low(iv) THEN B ELSE 0)

\* A bug: no look into the history.
AcceptsTwice(b, q) ==
  /\ Ahead(decryptIV, b) \/ Late(decryptIV, b)
  /\ Div(decryptIV, b) = q

\* A bug: a packet may not be as late as the code allows.
AcceptsFewer(b, q) ==
  /\ Ahead(decryptIV, b)
  /\ ~InOrder(decryptIV, b) =>
       decryptHistory[Low(Div(decryptIV, b))] # Mid(Div(decryptIV, b))
  /\ Div(decryptIV, b) = q

\* Decrypt opens a datagram with byte b in front that was sealed under q: b is
\* in the window, the IV it stands for is not in the history, which is not
\* looked at for a packet in order, and the tag agrees.
Accepts(b, q) ==
  /\ Ahead(decryptIV, b) \/ Late(decryptIV, b)
  /\ ~InOrder(decryptIV, b) =>
       decryptHistory[Low(Div(decryptIV, b))] # Mid(Div(decryptIV, b))
  /\ Div(decryptIV, b) = q

-----------------------------------------------------------------------------
(* The two ends.                                                            *)

\* Encrypt.  The IV is spent even when ocbEncrypt refuses the block.
Encrypt ==
  /\ encryptIV < nonce + MaxSealed
  /\ encryptIV' = encryptIV + 1
  /\ sent' = sent \cup {encryptIV'} \/ UNCHANGED sent
  /\ UNCHANGED <<nonce, decryptIV, decryptHistory, stats, delivered>>

\* A bug: decryptIV moves before the tag is looked at.
DecryptMovesFirst(b, q) ==
  /\ decryptIV' = IF Ahead(decryptIV, b) THEN Div(decryptIV, b) ELSE decryptIV
  /\ IF Accepts(b, q)
     THEN /\ delivered' = delivered \cup {q}
          /\ decryptHistory' = [decryptHistory EXCEPT ![Low(q)] = Mid(q)]
          /\ uiLate' = IF Late(decryptIV, b) THEN uiLate + 1 ELSE uiLate
          /\ uiGood' = uiGood + 1
          /\ uiLost' = uiLost + Lost(decryptIV, b)
     ELSE UNCHANGED <<decryptHistory, stats, delivered>>
  /\ UNCHANGED <<keys, sent>>

\* Decrypt.  A datagram it refuses leaves no trace.
Decrypt(b, q) ==
  /\ IF Accepts(b, q)
     THEN /\ delivered' = delivered \cup {q}
          /\ decryptHistory' = [decryptHistory EXCEPT ![Low(q)] = Mid(q)]
          /\ decryptIV' = IF Late(decryptIV, b) THEN decryptIV ELSE q
          /\ uiLate' = IF Late(decryptIV, b) THEN uiLate + 1 ELSE uiLate
          /\ uiGood' = uiGood + 1
          /\ uiLost' = uiLost + Lost(decryptIV, b)
     ELSE UNCHANGED <<decryptIV, decryptHistory, stats, delivered>>
  /\ UNCHANGED <<keys, sent>>

\* Any datagram that went out arrives, now or again, or the front byte of one
\* arrives garbled.
Next ==
  \/ Encrypt
  \/ \E q \in sent : Decrypt(Low(q), q) \/ \E b \in 0..B-1 : Decrypt(b, q)

Spec == Init /\ [][Next]_vars

-----------------------------------------------------------------------------
(* Properties.                                                              *)

\* The type invariant.
TypeOK ==
  /\ nonce \in Nat /\ encryptIV \in Nat /\ decryptIV \in Nat
  /\ decryptHistory \in [0..B-1 -> 0..B-1]
  /\ uiGood \in Nat /\ uiLate \in 0..uiGood /\ uiLost \in Int
  /\ sent \subseteq Nat /\ delivered \subseteq sent

\* Each datagram is opened at most once however often it arrives.  The
\* history is one byte per slot and is overwritten: it only needs to reach
\* as far back as a packet may be late.
Guard == INSTANCE ReplayGuard WITH good <- uiGood
OpenedOnce == Guard!Spec

\* decryptIV is the newest IV opened.  No datagram that is refused, late or
\* garbled takes it elsewhere: from there a garbled byte could put every
\* later packet out of the window.
NewestOpened ==
  /\ decryptIV \in delivered \cup {nonce}
  /\ \A p \in delivered : p <= decryptIV

\* uiLost is what is missing so far: the IVs up to the newest under which
\* nothing has been opened.
LossCounted == uiLost = Cardinality((nonce + 1 .. decryptIV) \ delivered)

\* A packet not opened yet that arrives within the window is opened, unless
\* it is out of order and its slot in the history holds its second byte
\* already: from a packet B * B earlier, or because nothing was written there
\* and the byte is 0.
Mistaken(q) ==
  \/ Mid(q) = 0 /\ \A p \in delivered : Low(p) # Low(q)
  \/ \E p \in delivered : Low(p) = Low(q) /\ Mid(p) = Mid(q)

FreshOpened ==
  \A q \in sent \ delivered :
    decryptIV - LateWindow < q /\ q < decryptIV + Half
      => Accepts(Low(q), q) \/ (q # decryptIV + 1 /\ Mistaken(q))

-----------------------------------------------------------------------------
(* What a comment says and the code does not do.                            *)

\* audio/crypto.go:109: "Check if packet arrived in order, out of order, or
\* duplicate".  What is taken for a duplicate has been opened before.
OnlyDuplicatesRefused ==
  \A q \in sent \ delivered :
    decryptIV - LateWindow < q /\ q < decryptIV + Half => Accepts(Low(q), q)
=============================================================================
