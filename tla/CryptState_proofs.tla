-------------------------- MODULE CryptState_proofs --------------------------
(***************************************************************************)
(* Theorems about CryptState, for every size of byte and window, any       *)
(* initial IV and any number of packets.                                   *)
(***************************************************************************)
EXTENDS CryptState, FiniteSetTheorems, TLAPS

\* Bytes and quotients.
LEMMA Bytes ==
  ASSUME NEW iv \in Int
  PROVE  /\ Low(iv) \in 0..B-1 /\ Mid(iv) \in 0..B-1
         /\ iv \div B \in Int /\ iv = B * (iv \div B) + Low(iv)
<1>1. B \in Nat /\ B > 0
  BY CryptConstants
<1>2. \A n \in Int : n % B \in 0..B-1 /\ n \div B \in Int /\ n = B * (n \div B) + (n % B)
  BY <1>1
<1>3. QED
  BY <1>2 DEF Low, Mid

\* A multiple of B that is less than B from 0 is 0.
LEMMA SmallMultiple ==
  ASSUME NEW k \in Int, -B < B * k, B * k < B
  PROVE  k = 0
<1>1. B \in Nat /\ B > 0
  BY CryptConstants
<1>2. k >= 1 => B * k >= B
  BY <1>1
<1>3. k <= -1 => B * k <= -B
  BY <1>1
<1>4. QED
  BY <1>1, <1>2, <1>3

\* IVs less than B apart differ in their lowest byte.
LEMMA NearDiffer ==
  ASSUME NEW p \in Int, NEW q \in Int, -B < p - q, p - q < B, Low(p) = Low(q)
  PROVE  p = q
<1>1. PICK m \in Int, n \in Int, r \in Int : p = B * m + r /\ q = B * n + r
  <2>1. Low(p) \in Int
    BY Bytes
  <2>2. p \div B \in Int /\ p = B * (p \div B) + Low(p)
    BY Bytes
  <2>3. q \div B \in Int /\ q = B * (q \div B) + Low(p)
    BY Bytes
  <2>4. QED
    BY <2>1, <2>2, <2>3
<1>2. p - q = B * (m - n) /\ m - n \in Int
  <2>1. B \in Int
    BY CryptConstants
  <2>2. B * m - B * n = B * (m - n)
    BY <2>1
  <2>3. B * m \in Int /\ B * n \in Int
    BY <2>1
  <2>4. QED
    BY <1>1, <2>2, <2>3
<1>3. m - n = 0
  BY <1>2, SmallMultiple
<1>4. QED
  BY <1>2, <1>3, CryptConstants

\* Where Div leads: forward by 1 + Lost, or back by less than LateWindow.
LEMMA DivMoves ==
  ASSUME NEW d \in Nat, NEW b \in 0..B-1, Ahead(d, b) \/ Late(d, b)
  PROVE  /\ Late(d, b) <=> ~Ahead(d, b)
         /\ Lost(d, b) \in Int
         /\ Ahead(d, b) => Div(d, b) = d + 1 + Lost(d, b) /\ Div(d, b) > d
         /\ Late(d, b) => /\ Lost(d, b) = -1
                          /\ d - LateWindow < Div(d, b) /\ Div(d, b) < d
         /\ InOrder(d, b) => Div(d, b) = d + 1
<1>1. Low(d) \in 0..B-1
  BY Bytes
<1>2. InOrder(d, b) => b = (IF Low(d) = B - 1 THEN 0 ELSE Low(d) + 1)
  <2> DEFINE l == Low(d)
  <2>1. l + 1 \in 0..B-1 => (l + 1) % B = l + 1
    BY <1>1, CryptConstants
  <2>2. B % B = 0
    BY CryptConstants
  <2>3. QED
    BY <1>1, <2>1, <2>2, CryptConstants DEF InOrder
<1>3. QED
  BY <1>1, <1>2, CryptConstants DEF Ahead, Late, Diff, Div, Lost
-----------------------------------------------------------------------------
(* The inductive invariant.                                                 *)

\* What is sent was sealed, and the opening end is not ahead of the other.
SealedInv == /\ nonce <= decryptIV /\ decryptIV <= encryptIV
             /\ sent \subseteq nonce + 1 .. encryptIV

\* The history reaches a whole byte back: further than a packet may be late.
HistoryReaches ==
  \A p \in delivered : decryptIV < p + B => decryptHistory[Low(p)] = Mid(p)

\* A slot of the history is of a packet opened, or as it was made.
HistoryWritten ==
  \A b \in 0..B-1 :
    \/ decryptHistory[b] = 0 /\ \A p \in delivered : Low(p) # b
    \/ \E p \in delivered : Low(p) = b /\ Mid(p) = decryptHistory[b]

\* Every IV passed is good or lost.
CountInv == /\ uiGood + uiLost = decryptIV - nonce
            /\ IsFiniteSet(delivered) /\ uiGood = Cardinality(delivered)

CryptInv ==
  TypeOK /\ SealedInv /\ NewestOpened /\ HistoryReaches /\ HistoryWritten /\ CountInv

\* A packet is accepted once: a late one less than a byte back is remembered,
\* and any other lies ahead of all that was opened.
LEMMA AcceptedIsFresh ==
  ASSUME CryptInv, NEW q \in sent, NEW b \in 0..B-1, Accepts(b, q)
  PROVE  q \notin delivered
<1> SUFFICES ASSUME q \in delivered
             PROVE  FALSE
  OBVIOUS
<1>1. decryptIV \in Nat /\ q \in Nat /\ q <= decryptIV
  BY DEF CryptInv, TypeOK, NewestOpened
<1>2. Late(decryptIV, b) /\ ~InOrder(decryptIV, b) /\ decryptIV - LateWindow < q
  BY <1>1, DivMoves DEF Accepts, Late
<1>3. decryptIV < q + B
  BY <1>1, <1>2, CryptConstants
<1>4. decryptHistory[Low(q)] = Mid(q)
  BY <1>3 DEF CryptInv, HistoryReaches
<1>5. QED
  BY <1>2, <1>4 DEF Accepts

LEMMA CryptInit == Init => CryptInv
<1> SUFFICES ASSUME Init
             PROVE  CryptInv
  OBVIOUS
<1>1. B \in Nat /\ B > 0 /\ nonce \in Nat
  BY CryptConstants DEF Init
<1>2. IsFiniteSet({}) /\ Cardinality({}) = 0
  BY FS_EmptySet
<1>3. QED
  BY <1>1, <1>2 DEF Init, CryptInv, TypeOK, SealedInv, NewestOpened, HistoryReaches,
                    HistoryWritten, CountInv

LEMMA EncryptKeeps == CryptInv /\ Encrypt => CryptInv'
<1> SUFFICES ASSUME CryptInv, Encrypt
             PROVE  CryptInv'
  OBVIOUS
<1> USE DEF CryptInv, Encrypt, stats
<1>1. TypeOK' /\ SealedInv'
  <2>1. /\ encryptIV' \in Nat /\ encryptIV' = encryptIV + 1
        /\ decryptIV' = decryptIV /\ nonce' = nonce
        /\ nonce \in Nat /\ decryptIV \in Nat /\ encryptIV \in Nat
        /\ nonce <= decryptIV /\ decryptIV <= encryptIV
    BY DEF TypeOK, SealedInv
  <2>2. encryptIV' \in nonce + 1 .. encryptIV'
    BY <2>1
  <2>3. nonce + 1 .. encryptIV \subseteq nonce + 1 .. encryptIV'
    BY <2>1
  <2>4. sent \subseteq sent' /\ sent' \subseteq nonce + 1 .. encryptIV'
    BY <2>2, <2>3 DEF SealedInv
  <2>5. sent' \subseteq Nat /\ delivered' = delivered /\ delivered' \subseteq sent'
    BY <2>1, <2>4 DEF TypeOK
  <2>6. QED
    BY <2>1, <2>4, <2>5 DEF TypeOK, SealedInv
<1>2. NewestOpened' /\ CountInv'
  BY DEF NewestOpened, CountInv
<1>3. HistoryReaches' /\ HistoryWritten'
  BY DEF HistoryReaches, HistoryWritten, Low, Mid
<1>4. QED
  BY <1>1, <1>2, <1>3

LEMMA DecryptKeeps ==
  ASSUME CryptInv, NEW q \in sent, NEW b \in 0..B-1, Decrypt(b, q)
  PROVE  CryptInv'
<1> USE DEF CryptInv
<1>1. CASE ~Accepts(b, q)
  <2>1. UNCHANGED vars
    BY <1>1 DEF Decrypt, vars
  <2>2. QED
    BY <2>1 DEF vars, keys, stats, TypeOK, SealedInv, NewestOpened, HistoryReaches,
                HistoryWritten, CountInv, Low, Mid
<1>2. CASE Accepts(b, q)
  <2> DEFINE d == decryptIV
  <2>1. /\ q \in Nat /\ d \in Nat /\ nonce \in Nat /\ q <= encryptIV /\ nonce < q
        /\ encryptIV \in Nat /\ delivered \subseteq Nat
    BY DEF TypeOK, SealedInv
  <2>2. q \notin delivered
    BY <1>2, AcceptedIsFresh
  <2>3. Ahead(d, b) \/ Late(d, b)
    BY <1>2 DEF Accepts
  <2>4. /\ Late(d, b) <=> ~Ahead(d, b)
        /\ Lost(d, b) \in Int
        /\ Ahead(d, b) => q = d + 1 + Lost(d, b) /\ q > d
        /\ Late(d, b) => Lost(d, b) = -1 /\ d - LateWindow < q /\ q < d
    BY <1>2, <2>1, <2>3, DivMoves DEF Accepts
  <2>5. decryptIV' = IF Late(d, b) THEN d ELSE q
    BY <1>2 DEF Decrypt
  <2>6. decryptIV' \in Nat /\ d <= decryptIV' /\ q <= decryptIV' /\ decryptIV' <= encryptIV
    BY <2>1, <2>4, <2>5 DEF SealedInv
  <2>7. /\ nonce' = nonce /\ encryptIV' = encryptIV /\ sent' = sent
        /\ delivered' = delivered \cup {q}
        /\ decryptHistory' = [decryptHistory EXCEPT ![Low(q)] = Mid(q)]
        /\ uiGood' = uiGood + 1 /\ uiLost' = uiLost + Lost(d, b)
        /\ uiLate' \in {uiLate, uiLate + 1}
    BY <1>2 DEF Decrypt, keys
  <2>8. Low(q) \in 0..B-1 /\ Mid(q) \in 0..B-1
    BY <2>1, Bytes
  <2>9. TypeOK'
    BY <2>1, <2>4, <2>6, <2>7, <2>8 DEF TypeOK
  <2>10. SealedInv'
    BY <2>1, <2>6, <2>7 DEF SealedInv
  <2>11. NewestOpened'
    BY <2>1, <2>4, <2>5, <2>6, <2>7 DEF NewestOpened
  <2>12. HistoryReaches'
    <3> SUFFICES ASSUME NEW p \in delivered \cup {q}, decryptIV' < p + B
                 PROVE  decryptHistory'[Low(p)] = Mid(p)
      BY <2>7 DEF HistoryReaches, Low, Mid
    <3>1. CASE p = q
      BY <2>7, <2>8, <3>1 DEF TypeOK
    <3>2. CASE p # q
      <4>1. p \in delivered /\ p \in Nat /\ p <= d /\ d < p + B
        BY <2>1, <2>6, <3>2, CryptConstants DEF NewestOpened
      <4>2. -B < p - q /\ p - q < B
        BY <2>1, <2>4, <2>5, <2>6, <4>1, CryptConstants
      <4>3. Low(p) # Low(q)
        BY <2>1, <3>2, <4>1, <4>2, NearDiffer
      <4>4. Low(p) \in 0..B-1
        BY <4>1, Bytes
      <4>5. QED
        BY <2>7, <4>1, <4>3, <4>4 DEF HistoryReaches, TypeOK
    <3>3. QED
      BY <3>1, <3>2
  <2>13. HistoryWritten'
    <3> SUFFICES ASSUME NEW c \in 0..B-1
                 PROVE  \/ /\ decryptHistory'[c] = 0
                           /\ \A p \in delivered' : Low(p) # c
                        \/ \E p \in delivered' : Low(p) = c /\ Mid(p) = decryptHistory'[c]
      BY DEF HistoryWritten, Low, Mid
    <3>1. CASE c = Low(q)
      BY <2>7, <2>8, <3>1 DEF TypeOK
    <3>2. CASE c # Low(q)
      BY <2>7, <3>2 DEF HistoryWritten, TypeOK
    <3>3. QED
      BY <3>1, <3>2
  <2>14. CountInv'
    <3>1. IsFiniteSet(delivered') /\ Cardinality(delivered') = Cardinality(delivered) + 1
      BY <2>2, <2>7, FS_AddElement DEF CountInv
    <3>2. uiGood' + uiLost' = decryptIV' - nonce'
      <4>1. uiGood \in Int /\ uiLost \in Int /\ uiGood + uiLost = d - nonce
        BY DEF CountInv, TypeOK
      <4>2. decryptIV' = d + 1 + Lost(d, b)
        BY <2>1, <2>4, <2>5
      <4>3. QED
        BY <2>1, <2>4, <2>7, <4>1, <4>2
    <3>3. QED
      BY <2>7, <3>1, <3>2 DEF CountInv
  <2>15. QED
    BY <2>9, <2>10, <2>11, <2>12, <2>13, <2>14
<1>3. QED
  BY <1>1, <1>2

LEMMA CryptInductive == CryptInv /\ [Next]_vars => CryptInv'
<1> SUFFICES ASSUME CryptInv, [Next]_vars
             PROVE  CryptInv'
  OBVIOUS
<1>1. CASE Encrypt
  BY <1>1, EncryptKeeps
<1>2. ASSUME NEW q \in sent, Decrypt(Low(q), q) \/ \E b \in 0..B-1 : Decrypt(b, q)
      PROVE  CryptInv'
  <2>1. Low(q) \in 0..B-1
    BY Bytes DEF CryptInv, TypeOK
  <2>2. QED
    BY <1>2, <2>1, DecryptKeeps
<1>3. CASE UNCHANGED vars
  BY <1>3 DEF CryptInv, vars, keys, stats, TypeOK, SealedInv, NewestOpened,
              HistoryReaches, HistoryWritten, CountInv, Low, Mid
<1>4. QED
  BY <1>1, <1>2, <1>3 DEF Next

\* What the history and the counters remember, after any datagrams.
THEOREM CryptInvariant == Spec => []CryptInv
  BY CryptInit, CryptInductive, PTL DEF Spec
-----------------------------------------------------------------------------
(* What the runs check, proved.                                             *)

\* Decrypt hands a caller each packet once at most: CryptState implements
\* ReplayGuard.
THEOREM ImplementsGuard == Spec => OpenedOnce
<1>1. Init => Guard!Init
  BY DEF Init, Guard!Init
<1>2. CryptInv /\ [Next]_vars => [Guard!Seal \/ Guard!Open]_<<sent, delivered, uiGood>>
  <2> SUFFICES ASSUME CryptInv, [Next]_vars
               PROVE  [Guard!Seal \/ Guard!Open]_<<sent, delivered, uiGood>>
    OBVIOUS
  <2>1. CASE Encrypt
    BY <2>1 DEF Encrypt, stats, Guard!Seal
  <2>2. ASSUME NEW q \in sent, NEW b \in 0..B-1, Decrypt(b, q)
        PROVE  Guard!Open \/ UNCHANGED <<sent, delivered, uiGood>>
    <3>1. CASE Accepts(b, q)
      <4>1. q \in sent \ delivered
        BY <3>1, AcceptedIsFresh
      <4>2. delivered' = delivered \cup {q} /\ uiGood' = uiGood + 1 /\ sent' = sent
        BY <2>2, <3>1 DEF Decrypt
      <4>3. QED
        BY <4>1, <4>2 DEF Guard!Open
    <3>2. CASE ~Accepts(b, q)
      BY <2>2, <3>2 DEF Decrypt, stats
    <3>3. QED
      BY <3>1, <3>2
  <2>3. \A q \in sent : Low(q) \in 0..B-1
    BY Bytes DEF CryptInv, TypeOK
  <2>4. CASE UNCHANGED vars
    BY <2>4 DEF vars, stats
  <2>5. QED
    BY <2>1, <2>2, <2>3, <2>4 DEF Next
<1>3. QED
  BY <1>1, <1>2, CryptInvariant, PTL DEF Spec, OpenedOnce, Guard!Spec

\* decryptIV is the newest IV opened.
THEOREM NewestIsOpened == Spec => []NewestOpened
<1>1. CryptInv => NewestOpened
  BY DEF CryptInv
<1>2. QED
  BY <1>1, CryptInvariant, PTL

\* uiLost is exactly the number of packets missing up to the newest.
THEOREM LossIsCounted == Spec => []LossCounted
<1>1. ASSUME CryptInv
      PROVE  LossCounted
  <2> DEFINE passed == nonce + 1 .. decryptIV
  <2>1. nonce \in Nat /\ decryptIV \in Nat /\ uiLost \in Int /\ nonce <= decryptIV
    BY <1>1 DEF CryptInv, TypeOK, SealedInv
  <2>2. IsFiniteSet(passed) /\ Cardinality(passed) = decryptIV - nonce
    <3>1. nonce + 1 \in Int /\ decryptIV \in Int
      BY <2>1
    <3>2. /\ IsFiniteSet(passed)
          /\ Cardinality(passed) = IF nonce + 1 > decryptIV THEN 0
                                   ELSE decryptIV - (nonce + 1) + 1
      BY <3>1, FS_Interval
    <3>3. QED
      BY <2>1, <3>2
  <2>3. delivered \subseteq passed
    BY <1>1 DEF CryptInv, TypeOK, SealedInv, NewestOpened
  <2>4. passed \cap delivered = delivered
    BY <2>3
  <2>5. Cardinality(passed \ delivered) = Cardinality(passed) - Cardinality(delivered)
    <3> HIDE DEF passed
    <3>1. Cardinality(passed \ delivered)
            = Cardinality(passed) - Cardinality(passed \cap delivered)
      BY <2>2, FS_Difference
    <3>2. QED
      BY <2>4, <3>1
  <2>6. QED
    BY <1>1, <2>1, <2>2, <2>5 DEF CryptInv, CountInv, LossCounted, TypeOK
<1>2. QED
  BY <1>1, CryptInvariant, PTL

\* Low brings Div back to the IV it was taken from, anywhere in the window.
LEMMA DivFinds ==
  ASSUME NEW d \in Nat, NEW q \in Nat, q # d, d - LateWindow < q, q < d + Half
  PROVE  /\ Div(d, Low(q)) = q /\ (Ahead(d, Low(q)) \/ Late(d, Low(q)))
         /\ InOrder(d, Low(q)) => q = d + 1
<1> DEFINE b == Low(q)
           l == Low(d)
<1>1. PICK m \in Int, n \in Int : d = B * m + l /\ q = B * n + b
  BY Bytes
<1>2. b \in 0..B-1 /\ l \in 0..B-1
  BY Bytes
<1>3. B \in Nat /\ B > 0 /\ Half \in Nat /\ LateWindow \in Nat
      /\ B = 2 * Half /\ LateWindow <= Half /\ 1 < LateWindow
  BY CryptConstants
<1>4. n - m \in {-1, 0, 1}
  <2>1. n - m >= 2 => B * n >= B * m + 2 * B
    BY <1>3
  <2>2. n - m <= -2 => B * n <= B * m - 2 * B
    BY <1>3
  <2>3. QED
    BY <1>1, <1>2, <1>3, <2>1, <2>2
<1>5. B * n = B * m + (IF n = m THEN 0 ELSE IF n = m + 1 THEN B ELSE -B)
  BY <1>3, <1>4
<1>6. q - d = b - l + (IF n = m THEN 0 ELSE IF n = m + 1 THEN B ELSE -B)
  BY <1>1, <1>2, <1>3, <1>5
<1>7. InOrder(d, b) <=> b = (IF l = B - 1 THEN 0 ELSE l + 1)
  <2>1. l + 1 \in 0..B-1 => (l + 1) % B = l + 1
    BY <1>2, <1>3
  <2>2. B % B = 0
    BY <1>3
  <2>3. QED
    BY <1>2, <1>3, <2>1, <2>2 DEF InOrder
<1>8. QED
  BY <1>2, <1>3, <1>4, <1>6, <1>7 DEF Ahead, Late, Diff, Div

\* A fresh packet in the window is opened, but for the two mistakes named.
THEOREM FreshIsOpened == Spec => []FreshOpened
<1>1. ASSUME CryptInv, NEW q \in sent \ delivered,
             decryptIV - LateWindow < q, q < decryptIV + Half
      PROVE  Accepts(Low(q), q) \/ (q # decryptIV + 1 /\ Mistaken(q))
  <2>1. decryptIV \in Nat /\ q \in Nat /\ q # decryptIV
    BY <1>1 DEF CryptInv, TypeOK, SealedInv, NewestOpened
  <2>2. /\ Div(decryptIV, Low(q)) = q
        /\ Ahead(decryptIV, Low(q)) \/ Late(decryptIV, Low(q))
        /\ InOrder(decryptIV, Low(q)) => q = decryptIV + 1
    BY <1>1, <2>1, DivFinds
  <2>3. q = decryptIV + 1 => InOrder(decryptIV, Low(q))
    BY <2>1, CryptConstants DEF InOrder, Low
  <2>4. decryptHistory[Low(q)] = Mid(q) => Mistaken(q)
    <3>1. Low(q) \in 0..B-1
      BY <2>1, Bytes
    <3>2. QED
      BY <1>1, <3>1 DEF CryptInv, HistoryWritten, Mistaken
  <2>5. QED
    BY <2>2, <2>3, <2>4 DEF Accepts
<1>2. CryptInv => FreshOpened
  BY <1>1 DEF FreshOpened
<1>3. QED
  BY <1>2, CryptInvariant, PTL
=============================================================================
