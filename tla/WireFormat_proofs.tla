-------------------------- MODULE WireFormat_proofs --------------------------
(***************************************************************************)
(* Unmarshal ends, whatever the bytes, at their end or in a panic over a   *)
(* length that no int holds, and what Marshal or a server wrote is read as *)
(* it was meant, for every message type and every message; what Marshal    *)
(* wrote, by a standard protobuf reader too.                               *)
(*                                                                         *)
(* The argument for the second goes from the small to the large.           *)
(* Varint and VarintValue are recursive functions: RecursionExists shows   *)
(* that such a function exists, so that its definition may be unfolded,    *)
(* and induction over a set of numbers (AllNumbers) that the second        *)
(* undoes the first.  A value of a field is read in one turn of the loop   *)
(* from wherever it stands (ChunkIsRead).  A script lists the parts of     *)
(* some bytes, the values of a field each; the loop is always between two  *)
(* values of it (Boundary), and a turn takes it from one to the next       *)
(* (ATurn).  What Marshal writes, and what a server writes, is a script    *)
(* (MarshalScript, ServerScript).                                          *)
(*                                                                         *)
(* All this is said of two readers: who = "standard" is a standard         *)
(* protobuf reader, anything else (the proofs say "library") Unmarshal.    *)
(* They differ in a turn (Turn), in the fields they can read (Reads), and  *)
(* in what they make of an empty text (TakenBy); the argument is the same. *)
(***************************************************************************)
EXTENDS WireFormat, WellFoundedInduction, TLAPS

-----------------------------------------------------------------------------
(* Numbers.                                                                 *)

\* A set of numbers that is not empty has a least member.
LEMMA LeastMember ==
  ASSUME NEW S \in SUBSET Nat, S # {}
  PROVE  \E j \in S : \A k \in S : j <= k
<1>1. PICK x \in S : \A y \in S : ~(<<y, x>> \in OpToRel(<, Nat))
  BY NatLessThanWellFounded, WFMin
<1>2. \A y \in S : ~(y < x)
  BY <1>1 DEF OpToRel
<1> QED BY <1>2

\* Induction, for a set of numbers: what holds of a number if it holds of all
\* smaller ones holds of all.
LEMMA AllNumbers ==
  ASSUME NEW S, \A n \in Nat : (\A k \in 0..(n - 1) : k \in S) => n \in S
  PROVE  Nat \subseteq S
<1> SUFFICES ASSUME Nat \ S # {} PROVE FALSE
  OBVIOUS
<1>1. PICK x \in Nat \ S : \A y \in Nat \ S : x <= y
  BY LeastMember
<1>2. \A k \in 0..(x - 1) : k \in S
  BY <1>1
<1> QED BY <1>1, <1>2

\* Induction up to a bound.
LEMMA AllUpTo ==
  ASSUME NEW n \in Nat, NEW S, 0 \in S, \A i \in 1..n : i - 1 \in S => i \in S
  PROVE  0..n \subseteq S
<1> DEFINE T == {i \in Nat : i \in 0..n => i \in S}
<1>1. ASSUME NEW i \in Nat, \A k \in 0..(i - 1) : k \in T PROVE i \in T
  <2> SUFFICES ASSUME i \in 0..n, i # 0 PROVE i \in S
    OBVIOUS
  <2>1. i \in 1..n /\ i - 1 \in 0..(i - 1) /\ i - 1 \in 0..n
    OBVIOUS
  <2> QED BY <1>1, <2>1
<1>2. Nat \subseteq T
  <2> HIDE DEF T
  <2> QED BY <1>1, AllNumbers
<1> QED BY <1>2

-----------------------------------------------------------------------------
(* Recursive functions.                                                     *)

\* What a recursive definition makes of an argument d and the function itself.
Steps(D, X) == [D -> [[D -> X] -> X]]

\* f obeys step at the arguments of measure less than n.
Obeys(f, D, r, step, n) == \A d \in D : r[d] < n => f[d] = step[d][f]

\* step looks at the arguments of a smaller measure only.
Looks(D, X, r, step) ==
  \A d \in D, f, g \in [D -> X] :
    (\A e \in D : r[e] < r[d] => f[e] = g[e]) => step[d][f] = step[d][g]

\* Two functions that obey the same step agree as far as both do.
LEMMA ObeyAgree ==
  ASSUME NEW D, NEW X, NEW r \in [D -> Nat], NEW step \in Steps(D, X),
         Looks(D, X, r, step), NEW n \in Nat, NEW m \in Nat,
         NEW f \in [D -> X], NEW g \in [D -> X],
         Obeys(f, D, r, step, n), Obeys(g, D, r, step, m)
  PROVE  \A d \in D : r[d] < n /\ r[d] < m => f[d] = g[d]
<1> DEFINE S == {k \in Nat : \A d \in D : r[d] = k /\ k < n /\ k < m => f[d] = g[d]}
<1>1. ASSUME NEW k \in Nat, \A j \in 0..(k - 1) : j \in S PROVE k \in S
  <2> SUFFICES ASSUME NEW d \in D, r[d] = k, k < n, k < m PROVE f[d] = g[d]
    OBVIOUS
  <2>1. \A e \in D : r[e] < r[d] => f[e] = g[e]
    <3> SUFFICES ASSUME NEW e \in D, r[e] < r[d] PROVE f[e] = g[e]
      OBVIOUS
    <3>1. r[e] \in 0..(k - 1) /\ r[e] < n /\ r[e] < m
      OBVIOUS
    <3> QED BY <1>1, <3>1
  <2>2. step[d][f] = step[d][g]
    BY <2>1 DEF Looks
  <2> QED BY <2>2 DEF Obeys
<1>2. Nat \subseteq S
  <2> HIDE DEF S
  <2> QED BY <1>1, AllNumbers
<1> QED BY <1>2

\* A recursive definition that looks at smaller arguments only has a solution.
LEMMA RecursionExists ==
  ASSUME NEW D, NEW X, NEW r \in [D -> Nat], NEW step \in Steps(D, X),
         Looks(D, X, r, step), X # {}
  PROVE  \E f \in [D -> X] : \A d \in D : f[d] = step[d][f]
<1>0. \A n, m \in Nat, f, g \in [D -> X] :
         Obeys(f, D, r, step, n) /\ Obeys(g, D, r, step, m)
           => \A d \in D : r[d] < n /\ r[d] < m => f[d] = g[d]
  BY ObeyAgree
<1> DEFINE S == {n \in Nat : \E f \in [D -> X] : Obeys(f, D, r, step, n)}
<1>1. ASSUME NEW n \in Nat, \A k \in 0..(n - 1) : k \in S PROVE n \in S
  <2>1. CASE n = 0
    <3>1. PICK x \in X : TRUE
      OBVIOUS
    <3>2. [d \in D |-> x] \in [D -> X]
      OBVIOUS
    <3>3. Obeys([d \in D |-> x], D, r, step, 0)
      BY DEF Obeys
    <3> QED BY <2>1, <3>2, <3>3
  <2>2. CASE n # 0
    <3>1. n - 1 \in 0..(n - 1)
      BY <2>2
    <3>2. PICK f \in [D -> X] : Obeys(f, D, r, step, n - 1)
      BY <1>1, <3>1
    <3> DEFINE g == [d \in D |-> IF r[d] < n THEN step[d][f] ELSE f[d]]
    <3>3. g \in [D -> X]
      BY DEF Steps
    <3>4. \A e \in D : r[e] < n - 1 => g[e] = f[e]
      <4> SUFFICES ASSUME NEW e \in D, r[e] < n - 1 PROVE g[e] = f[e]
        OBVIOUS
      <4>1. r[e] < n
        OBVIOUS
      <4> QED BY <3>2, <4>1 DEF Obeys
    <3>5. ASSUME NEW d \in D, r[d] < n PROVE g[d] = step[d][g]
      <4>1. \A e \in D : r[e] < r[d] => f[e] = g[e]
        <5> SUFFICES ASSUME NEW e \in D, r[e] < r[d] PROVE f[e] = g[e]
          OBVIOUS
        <5>1. r[e] < n - 1
          BY <3>5
        <5> QED BY <3>4, <5>1
      <4>2. g[d] = step[d][f]
        BY <3>5
      <4> HIDE DEF g
      <4> QED BY <3>3, <4>1, <4>2 DEF Looks
    <3>6. Obeys(g, D, r, step, n)
      <4> HIDE DEF g
      <4> QED BY <3>5 DEF Obeys
    <3> HIDE DEF g
    <3> QED BY <3>3, <3>6
  <2> QED BY <2>1, <2>2
<1>2. Nat \subseteq S
  <2> HIDE DEF S
  <2> QED BY <1>1, AllNumbers
<1> DEFINE Upto(n) == CHOOSE f \in [D -> X] : Obeys(f, D, r, step, n)
           All == [d \in D |-> Upto(r[d] + 1)[d]]
<1>3. \A n \in Nat : Upto(n) \in [D -> X] /\ Obeys(Upto(n), D, r, step, n)
  BY <1>2
<1> HIDE DEF Upto, S
<1>4. All \in [D -> X]
  <2>1. \A d \in D : r[d] + 1 \in Nat
    OBVIOUS
  <2> QED BY <1>3, <2>1
<1>5. ASSUME NEW d \in D PROVE All[d] = step[d][All]
  <2> DEFINE f == Upto(r[d] + 1)
  <2>1. r[d] + 1 \in Nat
    OBVIOUS
  <2>2. f \in [D -> X] /\ Obeys(f, D, r, step, r[d] + 1)
    BY <1>3, <2>1
  <2>3. ASSUME NEW e \in D, r[e] < r[d] PROVE f[e] = All[e]
    <3> DEFINE g == Upto(r[e] + 1)
    <3>1. r[e] + 1 \in Nat /\ r[e] < r[e] + 1 /\ r[e] < r[d] + 1
      BY <2>3
    <3>2. g \in [D -> X] /\ Obeys(g, D, r, step, r[e] + 1)
      BY <1>3, <3>1
    <3>3. All[e] = g[e]
      OBVIOUS
    <3> HIDE DEF f, g, All
    <3>4. \A k \in D : r[k] < r[d] + 1 /\ r[k] < r[e] + 1 => f[k] = g[k]
      BY <1>0, <2>1, <2>2, <3>1, <3>2
    <3> QED BY <3>1, <3>3, <3>4
  <2>4. f[d] = step[d][f]
    BY <2>2 DEF Obeys
  <2>5. All[d] = f[d]
    OBVIOUS
  <2> HIDE DEF f, All
  <2>6. step[d][f] = step[d][All]
    BY <1>4, <2>2, <2>3 DEF Looks
  <2> QED BY <2>4, <2>5, <2>6
<1> HIDE DEF All
<1> QED BY <1>4, <1>5

-----------------------------------------------------------------------------
(* Varints.                                                                 *)

Byte == 0..255
Bytes == Seq(Byte)

\* A byte is a number below 256; said so, the provers do not try all 256.
LEMMA ByteIs == \A x : x \in Byte <=> x \in Nat /\ x < 256
BY DEF Byte

\* A number is its lowest seven bits and the rest.
LEMMA Septets ==
  ASSUME NEW v \in Nat
  PROVE  /\ v \div 128 \in Nat /\ v % 128 \in 0..127
         /\ v = (v % 128) + 128 * (v \div 128)
         /\ v >= 128 => v \div 128 < v /\ v \div 128 >= 1
OBVIOUS

\* One byte; the first byte of several, and the rest.
Single(v) == <<v>>
More(v, rest) == <<128 + (v % 128)>> \o rest

\* A septet with its mark before other bytes.
LEMMA MoreBytes ==
  ASSUME NEW v \in Nat, NEW rest \in Bytes
  PROVE  /\ More(v, rest) \in Bytes /\ Len(More(v, rest)) = Len(rest) + 1
         /\ More(v, rest)[1] = 128 + (v % 128) /\ Tail(More(v, rest)) = rest
         /\ \A k \in 1..Len(rest) : More(v, rest)[k + 1] = rest[k]
<1>1. 128 + (v % 128) \in Byte
  BY Septets, ByteIs
<1>2. <<128 + (v % 128)>> \in Bytes /\ Len(<<128 + (v % 128)>>) = 1
  BY <1>1 DEF Bytes
<1> QED BY <1>2 DEF More, Bytes

\* w is the marked septet of v, and then rest.
IsMore(w, v, rest) ==
  /\ w \in Bytes /\ Len(w) = Len(rest) + 1 /\ w[1] = 128 + (v % 128)
  /\ \A k \in 1..Len(rest) : w[k + 1] = rest[k]

\* The same in one piece: what a septet with its mark before other bytes is.
LEMMA MoreIs ==
  ASSUME NEW v \in Nat, NEW rest \in Bytes
  PROVE  IsMore(More(v, rest), v, rest)
<1>1. 128 + (v % 128) \in Byte
  BY Septets, ByteIs
<1>2. <<128 + (v % 128)>> \in Bytes /\ Len(<<128 + (v % 128)>>) = 1
  BY <1>1 DEF Bytes
<1> QED BY <1>2 DEF More, Bytes, IsMore

\* The same, as a set membership.
LEMMA MoreIn == \A v \in Nat, rest \in Bytes : More(v, rest) \in Bytes
BY MoreBytes

\* One byte alone.
LEMMA SingleByte ==
  ASSUME NEW v \in Byte
  PROVE  Single(v) \in Bytes /\ Len(Single(v)) = 1 /\ Single(v)[1] = v
BY DEF Single, Bytes

\* The function of appendVarint exists, and is what its definition says.
LEMMA VarintIs ==
  /\ Varint \in [Nat -> Bytes]
  /\ \A v \in Nat : IF v < 128 THEN Varint[v] = Single(v)
                               ELSE Varint[v] = More(v, Varint[v \div 128])
<1> DEFINE X == Bytes
           Step(f, v) == IF v < 128 THEN Single(v) ELSE More(v, f[v \div 128])
           step == [v \in Nat |-> [f \in [Nat -> X] |-> Step(f, v)]]
           r == [v \in Nat |-> v]
           IsAll(f) == f = [v \in Nat |-> Step(f, v)]
<1>1. ASSUME NEW v \in Nat, NEW f \in [Nat -> X] PROVE Step(f, v) \in X
  <2>1. CASE v < 128
    <3>1. Step(f, v) = Single(v) /\ v \in Byte
      BY <2>1, ByteIs
    <3> QED BY <3>1, SingleByte
  <2>2. CASE v >= 128
    <3>1. f[v \div 128] \in X
      BY Septets
    <3>2. Step(f, v) = More(v, f[v \div 128])
      BY <2>2
    <3> QED BY <3>1, <3>2, MoreIn
  <2> QED BY <2>1, <2>2
<1>2. ASSUME NEW v \in Nat, NEW f \in [Nat -> X], NEW g \in [Nat -> X],
             \A e \in Nat : e < v => f[e] = g[e]
      PROVE  Step(f, v) = Step(g, v)
  <2>1. v >= 128 => f[v \div 128] = g[v \div 128]
    BY <1>2, Septets
  <2> QED BY <2>1
<1>3. X # {}
  <2>1. <<>> \in X
    BY DEF Bytes
  <2> QED BY <2>1
<1> HIDE DEF X, Step
<1>4. PICK f \in [Nat -> X] : \A v \in Nat : f[v] = Step(f, v)
  <2>1. r \in [Nat -> Nat] /\ \A v \in Nat : r[v] = v
    OBVIOUS
  <2>2. step \in [Nat -> [[Nat -> X] -> X]]
    BY <1>1
  <2>3. \A v \in Nat, f \in [Nat -> X] : step[v][f] = Step(f, v)
    OBVIOUS
  <2> HIDE DEF r, step
  <2>4. Looks(Nat, X, r, step)
    BY <1>2, <2>1, <2>3 DEF Looks
  <2> DEFINE D == Nat
  <2>5. r \in [D -> Nat] /\ step \in Steps(D, X) /\ Looks(D, X, r, step)
    BY <2>1, <2>2, <2>4 DEF Steps
  <2>6. PICK f \in [D -> X] : \A v \in D : f[v] = step[v][f]
    <3> HIDE DEF D
    <3> QED BY <1>3, <2>5, RecursionExists
  <2> QED BY <2>3, <2>6
<1>5. IsAll(f)
  BY <1>4
<1>6. Varint = CHOOSE g : IsAll(g)
  BY DEF Varint, Step, More, Single
<1>7. IsAll(Varint)
  <2> HIDE DEF IsAll
  <2> QED BY <1>5, <1>6
<1>8. \A v \in Nat : Varint[v] = Step(Varint, v)
  BY <1>7
<1>9. \A v \in Nat : Varint[v] \in X
  <2> DEFINE S == {v \in Nat : Varint[v] \in X}
  <2>1. ASSUME NEW v \in Nat, \A k \in 0..(v - 1) : k \in S PROVE v \in S
    <3>0. Varint[v] = Step(Varint, v)
      BY <1>8
    <3>1. CASE v < 128
      <4>1. Varint[v] = Single(v) /\ v \in Byte
        BY <3>0, <3>1, ByteIs DEF Step
      <4> QED BY <4>1, SingleByte DEF X
    <3>2. CASE v >= 128
      <4>1. v \div 128 \in 0..(v - 1)
        BY <3>2, Septets
      <4>2. Varint[v \div 128] \in X
        BY <2>1, <4>1
      <4>3. Varint[v] = More(v, Varint[v \div 128])
        BY <3>0, <3>2 DEF Step
      <4> QED BY <4>2, <4>3, MoreIn DEF X
    <3> QED BY <3>1, <3>2
  <2>2. Nat \subseteq S
    <3> HIDE DEF S
    <3> QED BY <2>1, AllNumbers
  <2> QED BY <2>2
<1>10. Varint \in [Nat -> X]
  BY <1>7, <1>9
<1> QED BY <1>8, <1>10 DEF X, Step

\* What VarintValue makes of the first byte and the value of the rest.
Shifted(b, val) == ((b % 128) + 128 * val) % U64

\* That is a value of 64 bits.
LEMMA ShiftedIs ==
  ASSUME NEW b \in Nat, NEW val \in Nat
  PROVE  Shifted(b, val) \in Nat /\ Shifted(b, val) < U64
<1>1. U64 \in Nat /\ U64 > 0
  BY WireConstants
<1>2. (b % 128) + 128 * val \in Nat
  OBVIOUS
<1> QED BY <1>1, <1>2 DEF Shifted

\* What is in a sequence.
LEMMA InSeq ==
  ASSUME NEW S, NEW s \in Seq(S)
  PROVE  Len(s) \in Nat /\ \A k \in 1..Len(s) : s[k] \in S
OBVIOUS

\* The first byte and the rest of some bytes.
LEMMA FirstByte ==
  \A s \in Bytes : s # <<>> => s[1] \in Nat /\ Tail(s) \in Bytes /\ Len(Tail(s)) < Len(s)
<1>1. ASSUME NEW s \in Bytes, s # <<>>
      PROVE  s[1] \in Byte /\ Tail(s) \in Bytes /\ Len(Tail(s)) < Len(s)
  <2>1. Len(s) \in Nat /\ Len(s) # 0
    BY <1>1
  <2>2. \A k \in 1..Len(s) : s[k] \in Byte
    BY InSeq DEF Bytes
  <2>3. 1 \in 1..Len(s)
    BY <2>1
  <2>4. Tail(s) \in Bytes /\ Len(Tail(s)) = Len(s) - 1
    BY <1>1 DEF Bytes
  <2> QED BY <2>1, <2>2, <2>3, <2>4
<1>2. Byte \subseteq Nat
  BY ByteIs
<1> QED BY <1>1, <1>2 DEF Bytes

\* The function of readVarintSafe exists, and is what its definition says.
LEMMA ValueIs ==
  /\ VarintValue[<<>>] = 0
  /\ \A s \in Bytes : VarintValue[s] \in Nat
  /\ \A s \in Bytes : s # <<>> => VarintValue[s] = Shifted(s[1], VarintValue[Tail(s)])
<1> DEFINE Step(f, s) == IF s = <<>> THEN 0 ELSE Shifted(s[1], f[Tail(s)])
           step == [s \in Bytes |-> [f \in [Bytes -> Nat] |-> Step(f, s)]]
           r == [s \in Bytes |-> Len(s)]
           IsAll(f) == f = [s \in Bytes |-> Step(f, s)]
<1>0. \A s \in Bytes : s # <<>> => s[1] \in Nat /\ Tail(s) \in Bytes /\ Len(Tail(s)) < Len(s)
  BY FirstByte
<1>1. ASSUME NEW s \in Bytes, NEW f \in [Bytes -> Nat] PROVE Step(f, s) \in Nat
  <2>1. CASE s = <<>>
    BY <2>1
  <2>2. CASE s # <<>>
    <3>1. f[Tail(s)] \in Nat
      BY <1>0, <2>2
    <3> QED BY <1>0, <2>2, <3>1, ShiftedIs
  <2> QED BY <2>1, <2>2
<1>2. ASSUME NEW s \in Bytes, NEW f \in [Bytes -> Nat], NEW g \in [Bytes -> Nat],
             \A e \in Bytes : Len(e) < Len(s) => f[e] = g[e]
      PROVE  Step(f, s) = Step(g, s)
  BY <1>0, <1>2
<1>3. Nat # {} /\ <<>> \in Bytes
  BY DEF Bytes
<1> HIDE DEF Step
<1>4. PICK f \in [Bytes -> Nat] : \A s \in Bytes : f[s] = Step(f, s)
  <2>1. r \in [Bytes -> Nat] /\ \A s \in Bytes : r[s] = Len(s)
    BY DEF Bytes
  <2>2. step \in Steps(Bytes, Nat)
    BY <1>1 DEF Steps
  <2>3. \A s \in Bytes, f \in [Bytes -> Nat] : step[s][f] = Step(f, s)
    OBVIOUS
  <2> HIDE DEF r, step
  <2>4. ASSUME NEW s \in Bytes, NEW g \in [Bytes -> Nat], NEW h \in [Bytes -> Nat],
               \A e \in Bytes : r[e] < r[s] => g[e] = h[e]
        PROVE  step[s][g] = step[s][h]
    <3>1. \A e \in Bytes : Len(e) < Len(s) => g[e] = h[e]
      BY <2>1, <2>4
    <3>2. Step(g, s) = Step(h, s)
      BY <1>2, <3>1
    <3> QED BY <2>3, <3>2
  <2> DEFINE X == Nat
  <2>5. r \in [Bytes -> Nat] /\ step \in Steps(Bytes, X) /\ Looks(Bytes, X, r, step) /\ X # {}
    BY <1>3, <2>1, <2>2, <2>4 DEF Looks
  <2>6. PICK f \in [Bytes -> X] : \A s \in Bytes : f[s] = step[s][f]
    <3> HIDE DEF X
    <3> QED BY <2>5, RecursionExists
  <2> QED BY <2>3, <2>6
<1>5. IsAll(f)
  BY <1>4
<1>6. VarintValue = CHOOSE g : IsAll(g)
  BY DEF VarintValue, Step, Shifted, Bytes, Byte
<1>7. IsAll(VarintValue)
  <2> HIDE DEF IsAll
  <2> QED BY <1>5, <1>6
<1>8. \A s \in Bytes : VarintValue[s] = Step(VarintValue, s)
  BY <1>7
<1>9. \A s \in Bytes : VarintValue[s] \in Nat
  <2> DEFINE S == {n \in Nat : \A s \in Bytes : Len(s) = n => VarintValue[s] \in Nat}
  <2>1. ASSUME NEW n \in Nat, \A k \in 0..(n - 1) : k \in S PROVE n \in S
    <3> SUFFICES ASSUME NEW s \in Bytes, Len(s) = n PROVE VarintValue[s] \in Nat
      OBVIOUS
    <3>1. CASE s = <<>>
      BY <1>8, <3>1 DEF Step
    <3>2. CASE s # <<>>
      <4>1. Tail(s) \in Bytes /\ Len(Tail(s)) \in 0..(n - 1) /\ s[1] \in Nat
        BY <1>0, <3>2 DEF Bytes
      <4>2. VarintValue[Tail(s)] \in Nat
        BY <2>1, <4>1
      <4>3. VarintValue[s] = Shifted(s[1], VarintValue[Tail(s)])
        BY <1>8, <3>2 DEF Step
      <4> QED BY <4>1, <4>2, <4>3, ShiftedIs
    <3> QED BY <3>1, <3>2
  <2>2. Nat \subseteq S
    <3> HIDE DEF S
    <3> QED BY <2>1, AllNumbers
  <2>3. \A s \in Bytes : Len(s) \in Nat
    BY DEF Bytes
  <2> QED BY <2>2, <2>3
<1>10. VarintValue[<<>>] = 0
  BY <1>3, <1>8 DEF Step
<1>11. \A s \in Bytes : s # <<>> => VarintValue[s] = Shifted(s[1], VarintValue[Tail(s)])
  BY <1>8 DEF Step
<1> QED BY <1>9, <1>10, <1>11

\* appendVarint writes septets, of which the last is marked; their value is the
\* number.
IsCode(w) ==
  /\ w \in Bytes /\ Len(w) >= 1 /\ w[Len(w)] < 128
  /\ \A k \in 1..(Len(w) - 1) : w[k] >= 128

\* What appendVarint writes is such a code.
LEMMA VarintCodes == \A v \in Nat : IsCode(Varint[v])
<1> DEFINE S == {v \in Nat : IsCode(Varint[v])}
<1>1. ASSUME NEW v \in Nat, \A k \in 0..(v - 1) : k \in S PROVE v \in S
  <2>1. CASE v < 128
    <3>1. Varint[v] = Single(v) /\ v \in Byte
      BY <2>1, VarintIs, ByteIs
    <3>2. Single(v) \in Bytes /\ Len(Single(v)) = 1 /\ Single(v)[1] = v
      BY <3>1, SingleByte DEF Bytes
    <3>3. IsCode(Single(v))
      BY <2>1, <3>2 DEF IsCode
    <3> QED BY <3>1, <3>3
  <2>2. CASE v >= 128
    <3> DEFINE rest == Varint[v \div 128]
    <3>1. v \div 128 \in 0..(v - 1)
      BY <2>2, Septets
    <3>2. IsCode(rest) /\ Varint[v] = More(v, rest)
      <4>1. v \div 128 \in S
        BY <1>1, <3>1
      <4>2. Varint[v] = More(v, rest)
        BY <2>2, VarintIs
      <4> QED BY <4>1, <4>2
    <3> HIDE DEF rest
    <3>3. rest \in Bytes /\ Len(rest) \in Nat
      BY <3>2 DEF IsCode, Bytes
    <3> DEFINE w == More(v, rest)
    <3>4. /\ w \in Bytes /\ Len(w) = Len(rest) + 1 /\ w[1] = 128 + (v % 128)
          /\ \A k \in 1..Len(rest) : w[k + 1] = rest[k]
      <4>1. IsMore(w, v, rest)
        BY <3>3, MoreIs
      <4> QED BY <4>1 DEF IsMore
    <3>5. w[1] >= 128
      BY <3>4, Septets
    <3> HIDE DEF w
    <3>6. ASSUME NEW k \in 2..Len(w) PROVE w[k] = rest[k - 1] /\ k - 1 \in 1..Len(rest)
      <4>1. k - 1 \in 1..Len(rest) /\ (k - 1) + 1 = k
        BY <3>3, <3>4
      <4>2. w[(k - 1) + 1] = rest[k - 1]
        BY <3>4, <4>1
      <4> QED BY <4>1, <4>2
    <3>7. Len(w) >= 1 /\ w[Len(w)] < 128
      <4>1. Len(w) \in 2..Len(w) /\ Len(w) - 1 = Len(rest)
        BY <3>2, <3>3, <3>4 DEF IsCode
      <4> QED BY <3>2, <3>6, <4>1 DEF IsCode
    <3>8. ASSUME NEW k \in 1..(Len(w) - 1) PROVE w[k] >= 128
      <4>1. CASE k = 1
        BY <3>5, <4>1
      <4>2. CASE k # 1
        <5>1. k \in 2..Len(w) /\ k - 1 \in 1..(Len(rest) - 1)
          BY <3>3, <3>4, <4>2
        <5> QED BY <3>2, <3>6, <5>1 DEF IsCode
      <4> QED BY <4>1, <4>2
    <3>9. IsCode(w)
      BY <3>4, <3>7, <3>8 DEF IsCode
    <3> QED BY <3>2, <3>9 DEF w
  <2> QED BY <2>1, <2>2
<1>2. Nat \subseteq S
  <2> HIDE DEF S
  <2> QED BY <1>1, AllNumbers
<1> QED BY <1>2

\* The value of what appendVarint wrote of a number is the number.
LEMMA ValueOfVarint == \A v \in 0..(U64 - 1) : VarintValue[Varint[v]] = v
<1> DEFINE S == {v \in Nat : v < U64 => VarintValue[Varint[v]] = v}
<1>0. U64 \in Nat
  BY WireConstants
<1>1. ASSUME NEW v \in Nat, \A k \in 0..(v - 1) : k \in S PROVE v \in S
  <2> SUFFICES ASSUME v < U64 PROVE VarintValue[Varint[v]] = v
    OBVIOUS
  <2>1. CASE v < 128
    <3>1. Varint[v] = Single(v) /\ v \in Byte
      BY <2>1, VarintIs, ByteIs
    <3>2. /\ Single(v) \in Bytes /\ Single(v) # <<>> /\ Single(v)[1] = v
          /\ Tail(Single(v)) = <<>>
      BY <3>1 DEF Single, Bytes
    <3>3. VarintValue[Single(v)] = Shifted(v, 0)
      BY <3>2, ValueIs
    <3>4. Shifted(v, 0) = v
      BY <1>0, <2>1 DEF Shifted
    <3> QED BY <3>1, <3>3, <3>4
  <2>2. CASE v >= 128
    <3> DEFINE q == v \div 128
               rest == Varint[q]
    <3>1. q \in 0..(v - 1) /\ q < U64
      BY <1>0, <2>2, Septets
    <3>2. VarintValue[rest] = q
      BY <1>1, <3>1
    <3>3. Varint[v] = More(v, rest) /\ rest \in Bytes
      BY <2>2, <3>1, VarintIs
    <3>4. /\ More(v, rest) \in Bytes /\ More(v, rest) # <<>>
          /\ More(v, rest)[1] = 128 + (v % 128) /\ Tail(More(v, rest)) = rest
      <4> HIDE DEF rest
      <4>1. Len(rest) \in Nat
        BY <3>3, InSeq DEF Bytes
      <4>2. /\ More(v, rest) \in Bytes /\ Len(More(v, rest)) = Len(rest) + 1
            /\ More(v, rest)[1] = 128 + (v % 128) /\ Tail(More(v, rest)) = rest
        BY <3>3, MoreBytes
      <4>3. Len(<<>>) = 0
        OBVIOUS
      <4> QED BY <4>1, <4>2, <4>3
    <3>5. VarintValue[Varint[v]] = Shifted(128 + (v % 128), q)
      <4> DEFINE w == More(v, rest)
      <4>1. /\ Varint[v] = w /\ w \in Bytes /\ w # <<>>
            /\ w[1] = 128 + (v % 128) /\ VarintValue[Tail(w)] = q
        BY <3>2, <3>3, <3>4
      <4> HIDE DEF q, rest, w
      <4>2. VarintValue[w] = Shifted(w[1], VarintValue[Tail(w)])
        BY <4>1, ValueIs
      <4> QED BY <4>1, <4>2
    <3>6. ((128 + (v % 128)) % 128) + 128 * q = v
      BY Septets
    <3>7. Shifted(128 + (v % 128), q) = v % U64
      BY <3>6 DEF Shifted
    <3> QED BY <1>0, <3>5, <3>7
  <2> QED BY <2>1, <2>2
<1>2. Nat \subseteq S
  <2> HIDE DEF S
  <2> QED BY <1>1, AllNumbers
<1> QED BY <1>0, <1>2

-----------------------------------------------------------------------------
(* Bytes within bytes.                                                      *)

\* b has the bytes w from i on.
Holds(b, i, w) == i + Len(w) - 1 <= Len(b) /\ \A k \in 1..Len(w) : b[i + k - 1] = w[k]

\* Two pieces of bytes joined.
LEMMA ConcatIs ==
  ASSUME NEW u \in Bytes, NEW w \in Bytes
  PROVE  /\ u \o w \in Bytes /\ Len(u \o w) = Len(u) + Len(w)
         /\ Len(u) \in Nat /\ Len(w) \in Nat
         /\ \A k \in 1..Len(u) : (u \o w)[k] = u[k]
         /\ \A k \in 1..Len(w) : (u \o w)[Len(u) + k] = w[k]
BY DEF Bytes

\* Both are in there, the one at the beginning and the other behind it.
LEMMA ConcatHolds ==
  ASSUME NEW u \in Bytes, NEW w \in Bytes
  PROVE  /\ Holds(u \o w, 1, u) /\ Holds(u \o w, Len(u) + 1, w)
         /\ \A s \in Bytes, i \in Nat \ {0} : Holds(u, i, s) => Holds(u \o w, i, s)
<1> DEFINE c == u \o w
<1>1. /\ c \in Bytes /\ Len(c) = Len(u) + Len(w)
      /\ Len(u) \in Nat /\ Len(w) \in Nat
      /\ \A k \in 1..Len(u) : c[k] = u[k]
      /\ \A k \in 1..Len(w) : c[Len(u) + k] = w[k]
  BY ConcatIs
<1> HIDE DEF c
<1>2. Holds(c, 1, u)
  BY <1>1 DEF Holds
<1>3. Holds(c, Len(u) + 1, w)
  BY <1>1 DEF Holds
<1>4. ASSUME NEW s \in Bytes, NEW i \in Nat \ {0}, Holds(u, i, s) PROVE Holds(c, i, s)
  <2>1. Len(s) \in Nat
    BY DEF Bytes
  <2>2. \A k \in 1..Len(s) : i + k - 1 \in 1..Len(u)
    BY <1>1, <1>4, <2>1 DEF Holds
  <2>3. i + Len(s) - 1 <= Len(c)
    BY <1>1, <1>4, <2>1 DEF Holds
  <2>4. ASSUME NEW k \in 1..Len(s) PROVE c[i + k - 1] = s[k]
    <3>1. c[i + k - 1] = u[i + k - 1]
      BY <1>1, <2>2
    <3>2. u[i + k - 1] = s[k]
      BY <1>4 DEF Holds
    <3> QED BY <3>1, <3>2
  <2> QED BY <2>3, <2>4 DEF Holds
<1> QED BY <1>2, <1>3, <1>4 DEF c

\* What is in a part is in the whole.
LEMMA PartHolds ==
  ASSUME NEW b \in Bytes, NEW s \in Bytes, NEW w \in Bytes, NEW i \in Nat \ {0},
         NEW j \in Nat \ {0}, Holds(b, i, s), Holds(s, j, w)
  PROVE  Holds(b, i + j - 1, w)
<1>1. Len(s) \in Nat /\ Len(w) \in Nat /\ Len(b) \in Nat
  BY DEF Bytes
<1>2. \A k \in 1..Len(w) : j + k - 1 \in 1..Len(s)
  BY <1>1 DEF Holds
<1>3. ASSUME NEW k \in 1..Len(w) PROVE b[(i + j - 1) + k - 1] = w[k]
  <2>1. j + k - 1 \in 1..Len(s) /\ i + (j + k - 1) - 1 = (i + j - 1) + k - 1
    BY <1>1, <1>2
  <2>2. b[i + (j + k - 1) - 1] = s[j + k - 1] /\ s[j + k - 1] = w[k]
    BY <2>1 DEF Holds
  <2> QED BY <2>1, <2>2
<1>4. (i + j - 1) + Len(w) - 1 <= Len(b)
  BY <1>1 DEF Holds
<1> QED BY <1>3, <1>4 DEF Holds

\* What bytes hold can be cut out of them.
LEMMA HeldSubSeq ==
  ASSUME NEW b \in Bytes, NEW w \in Bytes, NEW i \in Nat \ {0}, Holds(b, i, w)
  PROVE  SubSeq(b, i, i + Len(w) - 1) = w
<1>1. Len(b) \in Nat /\ Len(w) \in Nat
  BY DEF Bytes
<1>2. SubSeq(b, i, i + Len(w) - 1) = [k \in 1..Len(w) |-> b[i + k - 1]]
  BY <1>1
<1>3. w = [k \in 1..Len(w) |-> w[k]]
  BY DEF Bytes
<1>4. \A k \in 1..Len(w) : b[i + k - 1] = w[k]
  BY DEF Holds
<1> QED BY <1>2, <1>3, <1>4

\* readVarintSafe reads what appendVarint wrote, wherever it is.
LEMMA VarintRead ==
  ASSUME NEW b \in Bytes, NEW i \in Nat \ {0}, NEW v \in 0..(U64 - 1),
         Holds(b, i, Varint[v])
  PROVE  ReadVarint(b, i) = [val |-> v, next |-> i + Len(Varint[v])]
<1> DEFINE w == Varint[v]
           ends == {j \in i..Len(b) : b[j] < 128}
           last == CHOOSE j \in ends : \A k \in ends : j <= k
           e == i + Len(w) - 1
<1>0. U64 \in Nat /\ v \in Nat
  BY WireConstants
<1>1. IsCode(w) /\ w \in Bytes /\ VarintValue[w] = v
  BY <1>0, VarintCodes, ValueOfVarint DEF IsCode
<1>2. Len(b) \in Nat /\ Len(w) \in Nat /\ Len(w) >= 1 /\ Holds(b, i, w)
  BY <1>1 DEF Bytes, IsCode
<1> HIDE DEF w
<1>3. e \in ends
  <2>1. Len(w) \in 1..Len(w)
    BY <1>2
  <2>2. b[i + Len(w) - 1] = w[Len(w)]
    BY <1>2, <2>1 DEF Holds
  <2> QED BY <1>1, <1>2, <2>2 DEF Holds, IsCode
<1>4. ASSUME NEW j \in ends PROVE e <= j
  <2> SUFFICES ASSUME j < e PROVE FALSE
    BY <1>2
  <2>1. PICK k \in 1..(Len(w) - 1) : i + k - 1 = j
    <3>1. j - i + 1 \in 1..(Len(w) - 1) /\ i + (j - i + 1) - 1 = j
      BY <1>2
    <3> QED BY <3>1
  <2>2. k \in 1..Len(w)
    BY <1>2
  <2>3. b[j] = w[k]
    BY <1>2, <2>1, <2>2 DEF Holds
  <2>4. w[k] \in Byte
    BY <1>1, <2>2, InSeq DEF Bytes
  <2>5. w[k] >= 128
    BY <1>1 DEF IsCode
  <2>6. b[j] < 128
    OBVIOUS
  <2> QED BY <2>3, <2>4, <2>5, <2>6, ByteIs
<1>5. ends \subseteq Nat
  BY <1>2
<1> HIDE DEF ends
<1>6. last \in ends /\ \A k \in ends : last <= k
  BY <1>3, <1>4
<1>7. last = e
  <2> HIDE DEF last, e
  <2>1. last <= e /\ e <= last /\ last \in Nat /\ e \in Nat
    BY <1>3, <1>4, <1>5, <1>6
  <2> QED BY <2>1
<1>8. ReadVarint(b, i) = [val |-> VarintValue[SubSeq(b, i, last)], next |-> last + 1]
  BY <1>3 DEF ReadVarint, ends
<1>9. SubSeq(b, i, e) = w
  BY <1>1, <1>2, HeldSubSeq
<1>10. e + 1 = i + Len(w)
  BY <1>2
<1> HIDE DEF last, e
<1> QED BY <1>1, <1>7, <1>8, <1>9, <1>10 DEF w

\* Where each of several pieces ends when they are joined.
IsCut(off, segs) ==
  /\ off \in [0..Len(segs) -> Nat] /\ off[0] = 0
  /\ \A k \in 1..Len(segs) : off[k] = off[k - 1] + Len(segs[k])

\* All pieces that are joined are in there, where the cut says.
LEMMA Flattened ==
  ASSUME NEW segs \in Seq(Bytes)
  PROVE  /\ FlattenSeq(segs) \in Bytes
         /\ \E off : /\ IsCut(off, segs) /\ Len(FlattenSeq(segs)) = off[Len(segs)]
                     /\ \A k \in 1..Len(segs) :
                          Holds(FlattenSeq(segs), off[k - 1] + 1, segs[k])
<1> DEFINE n == Len(segs)
           D == 1..n
           Step(f, i) == IF i = 1 THEN segs[i] ELSE f[i - 1] \o segs[i]
           step == [i \in D |-> [f \in [D -> Bytes] |-> Step(f, i)]]
           r == [i \in D |-> i]
           IsFlat(f) == f = [i \in D |-> Step(f, i)]
           flat == CHOOSE f : IsFlat(f)
<1>1. n \in Nat /\ \A i \in D : segs[i] \in Bytes
  BY InSeq
<1>2. CASE n = 0
  <2>1. FlattenSeq(segs) = <<>> /\ segs = <<>>
    BY <1>2 DEF FlattenSeq
  <2>2. <<>> \in Bytes /\ Len(<<>>) = 0
    BY DEF Bytes
  <2>3. IsCut([k \in 0..0 |-> 0], segs)
    BY <1>2 DEF IsCut
  <2>4. [k \in 0..0 |-> 0][0] = 0
    OBVIOUS
  <2> QED BY <1>2, <2>1, <2>2, <2>3, <2>4
<1>3. CASE n # 0
  <2>1. ASSUME NEW i \in D, NEW f \in [D -> Bytes] PROVE Step(f, i) \in Bytes
    <3>1. CASE i = 1
      BY <1>1, <3>1
    <3>2. CASE i # 1
      <4>1. f[i - 1] \in Bytes
        BY <1>1, <3>2
      <4>2. f[i - 1] \o segs[i] \in Bytes
        BY <1>1, <4>1, ConcatIs
      <4> QED BY <3>2, <4>2
    <3> QED BY <3>1, <3>2
  <2>2. ASSUME NEW i \in D, NEW f \in [D -> Bytes], NEW g \in [D -> Bytes],
               \A e \in D : e < i => f[e] = g[e]
        PROVE  Step(f, i) = Step(g, i)
    BY <1>1, <2>2
  <2>3. Bytes # {}
    <3>1. <<>> \in Bytes
      BY DEF Bytes
    <3> QED BY <3>1
  <2> HIDE DEF Step
  <2>4. PICK f \in [D -> Bytes] : \A i \in D : f[i] = Step(f, i)
    <3>1. r \in [D -> Nat] /\ \A i \in D : r[i] = i
      BY <1>1
    <3>2. step \in Steps(D, Bytes)
      BY <2>1 DEF Steps
    <3>3. \A i \in D, f \in [D -> Bytes] : step[i][f] = Step(f, i)
      OBVIOUS
    <3> HIDE DEF r, step, D
    <3>a. ASSUME NEW i \in D, NEW g \in [D -> Bytes], NEW h \in [D -> Bytes],
                 \A e \in D : r[e] < r[i] => g[e] = h[e]
          PROVE  step[i][g] = step[i][h]
      <4>1. \A e \in D : e < i => g[e] = h[e]
        BY <3>1, <3>a
      <4>2. Step(g, i) = Step(h, i)
        BY <2>2, <4>1
      <4> QED BY <3>3, <4>2
    <3>4. Looks(D, Bytes, r, step)
      BY <3>a DEF Looks
    <3>5. PICK f \in [D -> Bytes] : \A i \in D : f[i] = step[i][f]
      BY <2>3, <3>1, <3>2, <3>4, RecursionExists
    <3> QED BY <3>3, <3>5
  <2>5. IsFlat(f)
    BY <2>4
  <2>6. IsFlat(flat)
    <3> HIDE DEF IsFlat
    <3> QED BY <2>5
  <2>7. FlattenSeq(segs) = flat[n]
    BY <1>3 DEF FlattenSeq, Step
  <2> HIDE DEF flat
  <2>8. \A i \in D : flat[i] = Step(flat, i)
    BY <2>6
  <2>9. 1 \in D /\ flat[1] = segs[1]
    BY <1>1, <1>3, <2>8 DEF Step
  <2>10. ASSUME NEW m \in D, m # 1
         PROVE  m - 1 \in D /\ m - 1 # 0 /\ flat[m] = flat[m - 1] \o segs[m]
    <3>1. Step(flat, m) = flat[m - 1] \o segs[m]
      BY <2>10 DEF Step
    <3>2. m - 1 \in D /\ m - 1 # 0
      BY <1>1, <2>10
    <3> QED BY <2>8, <3>1, <3>2
  <2>11. \A m \in D : flat[m] \in Bytes
    <3> DEFINE S == {m \in 0..n : m = 0 \/ flat[m] \in Bytes}
    <3>1. ASSUME NEW m \in 1..n, m - 1 \in S PROVE m \in S
      <4>1. CASE m = 1
        BY <1>1, <2>9, <4>1
      <4>2. CASE m # 1
        <5>0. m - 1 # 0 /\ flat[m] = flat[m - 1] \o segs[m]
          BY <2>10, <4>2
        <5>1. flat[m - 1] \in Bytes /\ segs[m] \in Bytes /\ flat[m] = flat[m - 1] \o segs[m]
          BY <1>1, <3>1, <5>0
        <5>2. flat[m] \in Bytes
          BY <5>1, ConcatIs
        <5> QED BY <1>1, <5>2
      <4> QED BY <4>1, <4>2
    <3>2. 0 \in S
      BY <1>1
    <3>3. 0..n \subseteq S
      <4> HIDE DEF S, n
      <4> QED BY <1>1, <3>1, <3>2, AllUpTo
    <3>4. n \in 0..n
      BY <1>1
    <3> HIDE DEF n
    <3> QED BY <3>3, <3>4
  <2> DEFINE off == [k \in 0..n |-> IF k = 0 THEN 0 ELSE Len(flat[k])]
  <2>12. off[0] = 0 /\ \A m \in D : off[m] = Len(flat[m]) /\ off[m] \in Nat
    <3>1. \A m \in D : Len(flat[m]) \in Nat
      BY <2>11, InSeq DEF Bytes
    <3> QED BY <1>1, <3>1
  <2>13. off \in [0..n -> Nat]
    BY <1>1, <2>12
  <2> HIDE DEF off
  <2>14. ASSUME NEW m \in D PROVE off[m] = off[m - 1] + Len(segs[m])
    <3>1. CASE m = 1
      <4>1. Len(segs[1]) \in Nat
        BY <1>1, <2>9, InSeq DEF Bytes
      <4> QED BY <2>9, <2>12, <3>1, <4>1
    <3>2. CASE m # 1
      <4>1. /\ m - 1 \in D /\ flat[m] = flat[m - 1] \o segs[m]
            /\ flat[m - 1] \in Bytes /\ segs[m] \in Bytes
        BY <1>1, <2>10, <2>11, <3>2
      <4>2. Len(flat[m]) = Len(flat[m - 1]) + Len(segs[m])
        BY <4>1, ConcatIs
      <4> QED BY <2>12, <4>1, <4>2
    <3> QED BY <3>1, <3>2
  <2>15. \A m \in D : \A k \in 1..m : Holds(flat[m], off[k - 1] + 1, segs[k])
    <3> DEFINE S == {m \in 0..n : \A k \in 1..m : Holds(flat[m], off[k - 1] + 1, segs[k])}
    <3>1. ASSUME NEW m \in 1..n, m - 1 \in S PROVE m \in S
      <4>1. CASE m = 1
        <5>1. Holds(segs[1], 1, segs[1])
          <6>1. Len(segs[1]) \in Nat
            BY <1>1, <2>9, InSeq DEF Bytes
          <6> QED BY <6>1 DEF Holds
        <5>2. \A k \in 1..m : k = 1 /\ k - 1 = 0
          BY <4>1
        <5>3. \A k \in 1..m : Holds(flat[m], off[k - 1] + 1, segs[k])
          BY <2>9, <2>12, <4>1, <5>1, <5>2
        <5> QED BY <1>1, <5>3
      <4>2. CASE m # 1
        <5> DEFINE p == m - 1
                   u == flat[p]
        <5>1. p \in D /\ flat[m] = u \o segs[m] /\ segs[m] \in Bytes /\ u \in Bytes
          BY <1>1, <2>10, <2>11, <4>2
        <5>2. \A k \in 1..p : Holds(u, off[k - 1] + 1, segs[k])
          BY <3>1
        <5>3. off[p] = Len(u)
          BY <2>12, <5>1
        <5>4. \A k \in 1..m : k \in 1..p \/ k = m
          BY <4>2
        <5>5. \A k \in 1..p : off[k - 1] + 1 \in Nat \ {0} /\ segs[k] \in Bytes
          <6> SUFFICES ASSUME NEW k \in 1..p PROVE off[k - 1] + 1 \in Nat \ {0} /\ segs[k] \in Bytes
            OBVIOUS
          <6>1. k - 1 \in 0..n /\ k \in 1..n
            BY <1>1, <5>1
          <6>2. off[k - 1] \in Nat
            BY <2>13, <6>1
          <6> QED BY <1>1, <6>1, <6>2
        <5> HIDE DEF u
        <5>6. Holds(flat[m], off[p] + 1, segs[m])
          BY <5>1, <5>3, ConcatHolds
        <5>7. ASSUME NEW k \in 1..p PROVE Holds(flat[m], off[k - 1] + 1, segs[k])
          BY <5>1, <5>2, <5>5, ConcatHolds
        <5>8. \A k \in 1..m : Holds(flat[m], off[k - 1] + 1, segs[k])
          <6>1. Holds(flat[m], off[m - 1] + 1, segs[m])
            BY <5>6
          <6> HIDE DEF p
          <6> QED BY <5>4, <5>7, <6>1
        <5> QED BY <1>1, <5>8
      <4> QED BY <4>1, <4>2
    <3>2. 0 \in S
      BY <1>1
    <3>3. 0..n \subseteq S
      <4> HIDE DEF S, n
      <4> QED BY <1>1, <3>1, <3>2, AllUpTo
    <3>4. ASSUME NEW m \in D PROVE \A k \in 1..m : Holds(flat[m], off[k - 1] + 1, segs[k])
      <4>1. m \in 0..n
        OBVIOUS
      <4>2. m \in S
        BY <3>3, <4>1
      <4> QED BY <4>2
    <3> QED BY <3>4
  <2>16. IsCut(off, segs)
    BY <1>1, <2>12, <2>13, <2>14 DEF IsCut
  <2>17. n \in D
    BY <1>1, <1>3
  <2> HIDE DEF n, D
  <2> QED BY <2>7, <2>11, <2>12, <2>15, <2>16, <2>17 DEF n, D
<1> QED BY <1>2, <1>3

-----------------------------------------------------------------------------
(* The tables of fields, and their values.                                  *)

Flags == {"opt", "include"}
Repeated == {"strings", "numbers", "delimited"}
Kinds == {"uint32", "uint64", "int32", "bool", "float64", "string"} \union Flags \union Repeated

\* One table: the numbers, the names and the flags of its fields are different.
Apart(f, g) ==
  f.num # g.num /\ f.name # g.name /\ (f.flag = "none" \/ f.flag # g.flag)

Proper(f) ==
  /\ f.num \in Nat /\ f.num < 31 /\ f.kind \in Kinds
  /\ f.name # "none" /\ (f.flag # "none" <=> f.kind \in Flags)

WellFormed(tab) ==
  /\ Len(tab) \in Nat \ {0}
  /\ \A k \in 1..Len(tab) : Proper(tab[k])
  /\ \A k, l \in 1..Len(tab) : k # l => Apart(tab[k], tab[l])
  /\ \A k, l \in 1..Len(tab) : tab[k].flag # tab[l].name

\* The table of every message type is in order.
LEMMA Tables ==
  /\ WellFormed(Version)
  /\ WellFormed(Authenticate)
  /\ WellFormed(ServerSync)
  /\ WellFormed(ChannelState)
  /\ WellFormed(UserState)
  /\ WellFormed(PermissionDenied)
  /\ WellFormed(Reject)
  /\ WellFormed(CodecVersion)
  /\ WellFormed(Ping)
  /\ WellFormed(UserRemove)
  /\ WellFormed(ServerConfig)
  /\ WellFormed(TextMessage)
  /\ WellFormed(ChannelRemove)
  /\ WellFormed(CryptSetup)
<1> USE DEF WellFormed, Proper, Field, Flagged, Kinds, Flags, Repeated, Apart
<1>1. WellFormed(Version) BY DEF Version
<1>2. WellFormed(Authenticate) BY DEF Authenticate
<1>3. WellFormed(ServerSync) BY DEF ServerSync
<1>4. WellFormed(ChannelState) BY DEF ChannelState
<1>5. WellFormed(UserState) BY DEF UserState
<1>6. WellFormed(PermissionDenied) BY DEF PermissionDenied
<1>7. WellFormed(Reject) BY DEF Reject
<1>8. WellFormed(CodecVersion) BY DEF CodecVersion
<1>9. WellFormed(Ping) BY DEF Ping
<1>10. WellFormed(UserRemove) BY DEF UserRemove
<1>11. WellFormed(ServerConfig) BY DEF ServerConfig
<1>12. WellFormed(TextMessage) BY DEF TextMessage
<1>13. WellFormed(ChannelRemove) BY DEF ChannelRemove
<1>14. WellFormed(CryptSetup) BY DEF CryptSetup
<1> QED BY <1>1, <1>2, <1>3, <1>4, <1>5, <1>6, <1>7, <1>8, <1>9, <1>10, <1>11, <1>12, <1>13, <1>14

\* These are the types.
LEMMA TypesAre ==
  Types = {"Version", "Authenticate", "ServerSync", "ChannelState", "UserState", "Reject",
           "PermissionDenied", "CodecVersion", "Ping", "UserRemove", "ServerConfig",
           "TextMessage", "ChannelRemove", "CryptSetup"}
BY DEF Types, Fields

\* So the table of each type is in order.
LEMMA TypesWellFormed == \A t \in Types : WellFormed(Fields[t])
BY Tables, TypesAre DEF Fields

\* The fields of one type do not get in each other's way.
LEMMA FieldsApart ==
  ASSUME NEW t \in Types, NEW f \in FieldsOf(t), NEW g \in FieldsOf(t)
  PROVE  Proper(f) /\ f.flag # g.name /\ (f # g => Apart(f, g))
<1>1. WellFormed(Fields[t])
  BY TypesWellFormed
<1>2. PICK k \in 1..Len(Fields[t]) : f = Fields[t][k]
  BY DEF FieldsOf
<1>3. PICK l \in 1..Len(Fields[t]) : g = Fields[t][l]
  BY DEF FieldsOf
<1>4. f # g => k # l
  BY <1>2, <1>3
<1> QED BY <1>1, <1>2, <1>3, <1>4 DEF WellFormed

\* The remainder of a sum of which one part is a multiple.
LEMMA ModIs ==
  ASSUME NEW n \in Nat \ {0}, NEW k \in Int, NEW r \in 0..(n - 1)
  PROVE  (n * k + r) % n = r
<1> DEFINE a == n * k + r
           s == a % n
           q == a \div n
<1>1. a \in Int /\ s \in 0..(n - 1) /\ q \in Int /\ a = n * q + s
  OBVIOUS
<1>2. n * (k - q) = s - r
  BY <1>1
<1>3. k - q >= 1 => n * (k - q) >= n
  BY <1>1
<1>4. k - q <= -1 => n * (k - q) <= -n
  BY <1>1
<1> HIDE DEF a, s, q
<1>5. k = q
  BY <1>1, <1>2, <1>3, <1>4
<1>6. s = r
  BY <1>1, <1>2, <1>5
<1> QED BY <1>6 DEF s, a

\* The remainder of a number that is smaller than the divisor.
LEMMA SmallMod == \A n \in Nat \ {0} : \A r \in 0..(n - 1) : r % n = r
OBVIOUS

\* What a number is of which Marshal writes the septets.
Coded(f, v) == IF f.kind = "bool" THEN IF v THEN 1 ELSE 0 ELSE v % U64

\* The values a field, or one element of a repeated field, can have.
Strings == {s \in Bytes : Len(s) < U64}
Items(f) ==
  CASE f.kind = "bool" -> BOOLEAN
    [] f.kind \in {"string", "strings"} -> Strings
    [] f.kind = "float64" -> [1..8 -> Byte]
    [] f.kind = "int32" -> Int32
    [] f.kind = "uint64" -> 0..(U64 - 1)
    [] OTHER -> 0..(U32 - 1)

\* A negative number is widened to 64 bits, and cut to 32 on the way back.
LEMMA SignedMod ==
  ASSUME NEW v \in Int32
  PROVE  v % U64 \in 0..(U64 - 1) /\ Signed(v % U64) = v
<1>1. U32 \in Nat /\ U64 \in Nat /\ U32 >= 2 /\ U32 <= U64 /\ U64 % U32 = 0
  BY WireConstants
<1>2. PICK q \in Int : U64 = U32 * q
  <2>1. U64 = U32 * (U64 \div U32) + (U64 % U32) /\ U64 \div U32 \in Int
    BY <1>1
  <2>2. U32 * (U64 \div U32) \in Int
    BY <1>1, <2>1
  <2>3. U64 = U32 * (U64 \div U32)
    BY <1>1, <2>1, <2>2
  <2> QED BY <2>1, <2>3
<1>3. v \in Int /\ -(U32 \div 2) <= v /\ v < U32 \div 2
  BY <1>1 DEF Int32
<1>4. U32 \div 2 + U32 \div 2 <= U32 /\ U32 \div 2 \in Nat
  BY <1>1
<1>5. CASE v >= 0
  <2>1. v \in 0..(U64 - 1) /\ v \in 0..(U32 - 1)
    BY <1>1, <1>3, <1>4, <1>5
  <2>2. v % U64 = v /\ v % U32 = v
    BY <1>1, <2>1, SmallMod
  <2> QED BY <1>3, <2>1, <2>2 DEF Signed
<1>6. CASE v < 0
  <2>1. v + U64 \in 0..(U64 - 1) /\ v + U32 \in 0..(U32 - 1)
    BY <1>1, <1>3, <1>4, <1>6
  <2>2. U64 * (-1) + (v + U64) = v
    BY <1>1, <1>3
  <2>3. v % U64 = v + U64
    <3>1. U64 \in Nat \ {0} /\ -1 \in Int
      BY <1>1
    <3>2. (U64 * (-1) + (v + U64)) % U64 = v + U64
      BY <2>1, <3>1, ModIs
    <3> QED BY <2>2, <3>2
  <2>4. v + U64 = U32 * (q - 1) + (v + U32)
    BY <1>1, <1>2, <1>3
  <2>5. (v + U64) % U32 = v + U32
    <3>1. U32 \in Nat \ {0} /\ q - 1 \in Int
      BY <1>1, <1>2
    <3>2. (U32 * (q - 1) + (v + U32)) % U32 = v + U32
      BY <2>1, <3>1, ModIs
    <3> QED BY <2>4, <3>2
  <2>6. ~(v + U32 < U32 \div 2)
    BY <1>1, <1>3, <1>4
  <2>7. Signed(v + U64) = (v + U32) - U32
    BY <2>5, <2>6 DEF Signed
  <2> QED BY <1>1, <1>3, <2>1, <2>3, <2>7
<1> QED BY <1>3, <1>5, <1>6

\* A number is written as its septets, and read back as itself.
LEMMA NumberReturns ==
  ASSUME NEW f, Proper(f), f.kind \notin {"string", "strings", "float64"}, NEW v \in Items(f)
  PROVE  /\ Coded(f, v) \in 0..(U64 - 1) /\ Payload(f, v) = Varint[Coded(f, v)]
         /\ Number(f, Coded(f, v)) = v
<1>1. U32 \in Nat /\ U64 \in Nat /\ U32 >= 2 /\ U32 <= U64
  BY WireConstants
<1>2. CASE f.kind = "bool"
  <2>1. v \in BOOLEAN
    BY <1>2 DEF Items
  <2>2. Coded(f, v) = IF v THEN 1 ELSE 0
    BY <1>2 DEF Coded
  <2>4. Payload(f, v) = Single(IF v THEN 1 ELSE 0)
    BY <1>2 DEF Payload, Single
  <2>5. Varint[0] = Single(0) /\ Varint[1] = Single(1)
    BY VarintIs
  <2>6. CASE v = TRUE
    <3>1. Coded(f, v) = 1 /\ Payload(f, v) = Single(1)
      BY <2>2, <2>4, <2>6
    <3>2. Number(f, 1) = TRUE
      <4>1. Number(f, 1) = (1 # 0)
        BY <1>2, Zenon DEF Number
      <4>2. (1 # 0) = TRUE
        OBVIOUS
      <4> QED BY <4>1, <4>2, Zenon
    <3>3. Number(f, Coded(f, v)) = v
      BY <2>6, <3>1, <3>2, Zenon
    <3>4. Coded(f, v) \in 0..(U64 - 1) /\ Payload(f, v) = Varint[Coded(f, v)]
      BY <1>1, <2>5, <3>1
    <3> QED BY <3>3, <3>4
  <2>7. CASE v = FALSE
    <3>1. Coded(f, v) = 0 /\ Payload(f, v) = Single(0)
      BY <2>2, <2>4, <2>7
    <3>2. Number(f, 0) = FALSE
      BY <1>2 DEF Number
    <3>3. Number(f, Coded(f, v)) = v
      BY <2>7, <3>1, <3>2, Zenon
    <3>4. Coded(f, v) \in 0..(U64 - 1) /\ Payload(f, v) = Varint[Coded(f, v)]
      BY <1>1, <2>5, <3>1
    <3> QED BY <3>3, <3>4
  <2> QED BY <2>1, <2>6, <2>7
<1>3. CASE f.kind = "int32"
  <2>1. v \in Int32
    BY <1>3 DEF Items
  <2>2. Coded(f, v) = v % U64 /\ Payload(f, v) = Varint[v % U64]
    BY <1>3 DEF Coded, Payload
  <2>3. Number(f, Coded(f, v)) = Signed(Coded(f, v))
    BY <1>3 DEF Number
  <2> QED BY <2>1, <2>2, <2>3, SignedMod
<1>4. CASE f.kind \notin {"bool", "int32"}
  <2>1. Coded(f, v) = v % U64 /\ Payload(f, v) = Varint[v % U64]
    BY <1>4 DEF Coded, Payload
  <2>2. CASE f.kind = "uint64"
    <3>1. v \in 0..(U64 - 1)
      BY <2>2 DEF Items
    <3>2. v % U64 = v
      BY <1>1, <3>1, SmallMod
    <3>3. Number(f, v) = v
      BY <2>2 DEF Number
    <3> QED BY <2>1, <3>1, <3>2, <3>3
  <2>3. CASE f.kind # "uint64"
    <3>1. v \in 0..(U32 - 1)
      BY <1>4, <2>3 DEF Items
    <3>2. v \in 0..(U64 - 1)
      BY <1>1, <3>1
    <3>3. v % U64 = v /\ v % U32 = v
      BY <1>1, <3>1, <3>2, SmallMod
    <3>4. Number(f, v) = v % U32
      BY <1>4, <2>3 DEF Number
    <3> QED BY <2>1, <3>2, <3>3, <3>4
  <2> QED BY <2>2, <2>3
<1> QED BY <1>2, <1>3, <1>4

-----------------------------------------------------------------------------
(* One value.                                                               *)

\* The bytes of one value of a field, and what reading them makes of message m:
\* no text is stored for a length of zero.
Chunk(f, v) == Tag(f) \o Payload(f, v)
Texty(f) == f.kind \in {"string", "strings"}
Take(f, v, m) == IF Texty(f) /\ v = <<>> THEN m ELSE Stored(f, v, m)

\* The tag of a field below 16 is one byte, whose upper five bits are the
\* field.
LEMMA TagIs ==
  ASSUME NEW f, Proper(f), f.num < 16
  PROVE  \E c \in 0..127 : Tag(f) = Single(c) /\ c \div 8 = f.num
<1>1. f.num \in Nat
  BY DEF Proper
<1>2. WireType(f) \in 0..2
  BY DEF WireType
<1> DEFINE c == 8 * f.num + WireType(f)
<1>3. c \in 0..127 /\ c \div 8 = f.num
  BY <1>1, <1>2
<1>4. Varint[c] = Single(c)
  <2> HIDE DEF c
  <2> QED BY <1>3, VarintIs
<1> QED BY <1>3, <1>4 DEF Tag

\* The bytes of a float64.
LEMMA EightBytes ==
  ASSUME NEW v \in [1..8 -> Byte]
  PROVE  v \in Bytes /\ Len(v) = 8
<1> DEFINE n == 8
<1>1. n \in Nat /\ v \in [1..n -> Byte]
  OBVIOUS
<1> HIDE DEF n
<1>2. v \in Seq(Byte) /\ Len(v) = n
  BY <1>1
<1> QED BY <1>2 DEF n, Bytes

\* A value is written as one byte at least.
LEMMA PayloadBytes ==
  ASSUME NEW f, Proper(f), NEW v \in Items(f)
  PROVE  Payload(f, v) \in Bytes /\ Len(Payload(f, v)) >= 1
<1>0. \A n \in Nat : Varint[n] \in Bytes /\ Len(Varint[n]) \in Nat /\ Len(Varint[n]) >= 1
  BY VarintCodes, InSeq DEF IsCode, Bytes
<1>1. CASE Texty(f)
  <2>1. v \in Bytes /\ Len(v) \in Nat
    BY <1>1, InSeq DEF Items, Strings, Texty, Bytes
  <2>2. Payload(f, v) = Varint[Len(v)] \o v
    BY <1>1 DEF Payload, Texty
  <2> DEFINE u == Varint[Len(v)]
  <2>3. u \in Bytes /\ Len(u) \in Nat /\ Len(u) >= 1
    BY <1>0, <2>1
  <2> HIDE DEF u
  <2>4. u \o v \in Bytes /\ Len(u \o v) = Len(u) + Len(v)
    BY <2>1, <2>3, ConcatIs
  <2>5. Len(u \o v) >= 1
    BY <2>1, <2>3, <2>4
  <2> QED BY <2>2, <2>4, <2>5 DEF u
<1>2. CASE f.kind = "float64"
  <2>1. v \in [1..8 -> Byte]
    BY <1>2 DEF Items
  <2>2. v \in Bytes /\ Len(v) = 8
    BY <2>1, EightBytes
  <2>3. Payload(f, v) = v
    BY <1>2 DEF Payload
  <2> QED BY <2>2, <2>3
<1>3. CASE ~Texty(f) /\ f.kind # "float64"
  <2>1. U64 \in Nat
    BY WireConstants
  <2>2. Payload(f, v) = Varint[Coded(f, v)] /\ Coded(f, v) \in Nat
    BY <1>3, <2>1, NumberReturns DEF Texty
  <2> QED BY <1>0, <2>2
<1> QED BY <1>1, <1>2, <1>3

\* An int that is counted up to a number below half of U64 is that number.
LEMMA SmallInt ==
  ASSUME NEW v \in Nat, v < U64 \div 2
  PROVE  SignedInt(v) = v
<1>1. U64 \in Nat /\ U64 \div 2 \in Nat /\ U64 \div 2 <= U64 /\ U64 # 0
  BY WireConstants
<1>2. v % U64 = v
  BY <1>1, SmallMod
<1> QED BY <1>2 DEF SignedInt

\* The case of a text that is inside the bytes, of which the length has been
\* read.
LEMMA TextIsRead ==
  ASSUME NEW f, Texty(f), NEW b, Len(b) \in Nat, Len(b) < U64 \div 2, NEW i, NEW m,
         NEW n \in Nat, NEW j \in Nat \ {0}, j - 1 + n <= Len(b),
         ReadVarint(b, i) = [val |-> n, next |-> j]
  PROVE  ReadValue(f, b, i, m) =
           IF n # 0 THEN [pos |-> j + n, msg |-> Stored(f, SubSeq(b, j, j + n - 1), m)]
           ELSE [pos |-> j, msg |-> m]
<1> DEFINE r == ReadVarint(b, i)
           end == SignedInt(r.next - 1 + r.val)
           half == U64 \div 2
<1>1. r.val = n /\ r.next = j
  OBVIOUS
<1> HIDE DEF r
<1>2. half \in Nat
  BY WireConstants
<1>3. end = j - 1 + n
  <2>1. r.next - 1 + r.val = j - 1 + n /\ j - 1 + n \in Nat
    BY <1>1
  <2> HIDE DEF half
  <2>2. j - 1 + n < half
    BY <1>2, <2>1 DEF half
  <2> QED BY <2>1, <2>2, SmallInt DEF half
<1>4. ReadValue(f, b, i, m) =
        IF r.val = 0 \/ end > Len(b) THEN [pos |-> r.next, msg |-> m]
        ELSE IF end < r.next - 1 THEN [pos |-> Panic, msg |-> m]
        ELSE [pos |-> end + 1, msg |-> Stored(f, SubSeq(b, r.next, end), m)]
  BY DEF ReadValue, Texty, r, end
<1> HIDE DEF end, half
<1>5. ~(end > Len(b)) /\ ~(end < j - 1) /\ end + 1 = j + n /\ end = j + n - 1
  BY <1>3
<1> QED BY <1>1, <1>4, <1>5

\* A case of the switch reads the value that was written.
LEMMA ValueIsRead ==
  ASSUME NEW f, Proper(f), NEW v \in Items(f), NEW b \in Bytes, Len(b) < U64 \div 2,
         NEW i \in Nat \ {0}, NEW m, Holds(b, i, Payload(f, v))
  PROVE  ReadValue(f, b, i, m) = [pos |-> i + Len(Payload(f, v)), msg |-> Take(f, v, m)]
<1>0. U64 \in Nat /\ Len(b) \in Nat
  BY WireConstants, InSeq DEF Bytes
<1>1. CASE Texty(f)
  <2> DEFINE u == Varint[Len(v)]
             next == i + Len(u)
  <2>1. v \in Bytes /\ Len(v) \in Nat /\ Len(v) < U64
    BY <1>1, InSeq DEF Items, Strings, Texty, Bytes
  <2>2. u \in Bytes /\ Len(u) \in Nat
    BY <2>1, VarintCodes, InSeq DEF IsCode, Bytes
  <2>3. Payload(f, v) = u \o v
    BY <1>1 DEF Payload, Texty
  <2>4. Holds(b, i, u) /\ Holds(b, next, v) /\ Len(u \o v) = Len(u) + Len(v)
    <3> HIDE DEF u
    <3>1. u \o v \in Bytes /\ Len(u \o v) = Len(u) + Len(v)
      BY <2>1, <2>2, ConcatIs
    <3>2. Holds(u \o v, 1, u) /\ Holds(u \o v, Len(u) + 1, v)
      BY <2>1, <2>2, ConcatHolds
    <3>3. Holds(b, i + 1 - 1, u)
      BY <2>1, <2>2, <2>3, <3>1, <3>2, PartHolds
    <3>4. Len(u) + 1 \in Nat \ {0}
      BY <2>2
    <3>5. Holds(b, i + (Len(u) + 1) - 1, v)
      BY <2>1, <2>2, <2>3, <3>1, <3>2, <3>4, PartHolds
    <3>6. i + 1 - 1 = i /\ i + (Len(u) + 1) - 1 = next
      BY <2>2
    <3> QED BY <3>1, <3>3, <3>5, <3>6
  <2>5. ReadVarint(b, i) = [val |-> Len(v), next |-> next]
    <3>1. Len(v) \in 0..(U64 - 1)
      BY <1>0, <2>1
    <3> QED BY <2>4, <3>1, VarintRead
  <2> HIDE DEF u, next
  <2>6. next \in Nat \ {0}
    BY <2>2 DEF next
  <2>7. next - 1 + Len(v) <= Len(b)
    <3>1. next + Len(v) - 1 <= Len(b)
      BY <2>4 DEF Holds
    <3> QED BY <1>0, <2>1, <2>6, <3>1
  <2> DEFINE n == Len(v)
             rest == SubSeq(b, next, next + n - 1)
  <2>8. ReadValue(f, b, i, m) =
          IF n # 0 THEN [pos |-> next + n, msg |-> Stored(f, rest, m)]
          ELSE [pos |-> next, msg |-> m]
    BY <1>0, <1>1, <2>1, <2>5, <2>6, <2>7, TextIsRead
  <2>9. rest = v
    BY <2>1, <2>4, <2>6, HeldSubSeq
  <2>10. next + n = i + Len(Payload(f, v))
    BY <2>1, <2>2, <2>3, <2>4 DEF next
  <2> HIDE DEF rest
  <2>11. CASE v # <<>>
    <3>1. n # 0
      BY <2>1, <2>11 DEF Bytes
    <3> QED BY <2>8, <2>9, <2>10, <2>11, <3>1 DEF Take
  <2>12. CASE v = <<>>
    <3>1. n = 0
      BY <2>12
    <3>2. next = i + Len(Payload(f, v))
      BY <2>6, <2>10, <3>1
    <3> QED BY <1>1, <2>8, <2>12, <3>1, <3>2 DEF Take
  <2> QED BY <2>11, <2>12
<1>2. CASE f.kind = "float64"
  <2>1. v \in Bytes /\ Len(v) = 8
    <3>1. v \in [1..8 -> Byte]
      BY <1>2 DEF Items
    <3> QED BY <3>1, EightBytes
  <2>2. Payload(f, v) = v
    BY <1>2 DEF Payload
  <2>3. SubSeq(b, i, i + 7) = v
    <3>1. i + Len(v) - 1 = i + 7
      BY <2>1
    <3>2. Holds(b, i, v)
      BY <2>2
    <3>3. SubSeq(b, i, i + Len(v) - 1) = v
      BY <2>1, <3>2, HeldSubSeq
    <3> QED BY <3>1, <3>3
  <2>4. ~(i + 7 > Len(b))
    <3>1. i + Len(v) - 1 <= Len(b)
      BY <2>2 DEF Holds
    <3> QED BY <1>0, <2>1, <3>1
  <2>5. ReadValue(f, b, i, m) = [pos |-> i + 8, msg |-> Stored(f, v, m)]
    BY <1>2, <2>3, <2>4 DEF ReadValue
  <2> QED BY <1>2, <2>1, <2>2, <2>5 DEF Take, Texty
<1>3. CASE ~Texty(f) /\ f.kind # "float64"
  <2> DEFINE c == Coded(f, v)
  <2>1. c \in 0..(U64 - 1) /\ Payload(f, v) = Varint[c] /\ Number(f, c) = v
    BY <1>3, NumberReturns DEF Texty
  <2> HIDE DEF c
  <2>2. ReadVarint(b, i) = [val |-> c, next |-> i + Len(Varint[c])]
    BY <2>1, VarintRead
  <2>3. ReadValue(f, b, i, m) = [pos |-> i + Len(Varint[c]), msg |-> Stored(f, Number(f, c), m)]
    BY <1>3, <2>2 DEF ReadValue, Texty
  <2> QED BY <1>3, <2>1, <2>3 DEF Take
<1> QED BY <1>1, <1>2, <1>3

\* The bytes of one value: the tag in one byte, then the value.
LEMMA ChunkIs ==
  ASSUME NEW f, Proper(f), f.num < 16, NEW v \in Items(f)
  PROVE  /\ Chunk(f, v) \in Bytes /\ Len(Chunk(f, v)) \in Nat
         /\ Len(Chunk(f, v)) = Len(Payload(f, v)) + 1 /\ Len(Chunk(f, v)) >= 1
         /\ Holds(Chunk(f, v), 2, Payload(f, v))
         /\ \E c \in 0..127 : c \div 8 = f.num /\ Holds(Chunk(f, v), 1, Single(c))
<1>1. PICK c \in 0..127 : Tag(f) = Single(c) /\ c \div 8 = f.num
  BY TagIs
<1> DEFINE p == Payload(f, v)
           s == Single(c)
<1>2. p \in Bytes /\ Len(p) \in Nat /\ Len(p) >= 1
  BY PayloadBytes, InSeq DEF Bytes
<1>3. s \in Bytes /\ Len(s) = 1
  BY SingleByte, ByteIs
<1>4. Chunk(f, v) = s \o p
  BY <1>1 DEF Chunk
<1> HIDE DEF p, s
<1>5. s \o p \in Bytes /\ Len(s \o p) = Len(s) + Len(p)
  BY <1>2, <1>3, ConcatIs
<1>6. Holds(s \o p, 1, s) /\ Holds(s \o p, Len(s) + 1, p)
  BY <1>2, <1>3, ConcatHolds
<1>7. Len(s) + 1 = 2 /\ Len(s) + Len(p) = Len(p) + 1
  BY <1>2, <1>3
<1>8. /\ Chunk(f, v) \in Bytes /\ Len(Chunk(f, v)) = Len(p) + 1
      /\ Holds(Chunk(f, v), 2, p) /\ Holds(Chunk(f, v), 1, s)
  BY <1>4, <1>5, <1>6, <1>7
<1>9. Len(Chunk(f, v)) \in Nat /\ Len(Chunk(f, v)) >= 1
  BY <1>2, <1>8
<1>10. \E d \in 0..127 : d \div 8 = f.num /\ Holds(Chunk(f, v), 1, Single(d))
  BY <1>1, <1>8 DEF s
<1> QED BY <1>8, <1>9, <1>10 DEF p

\* A tag of one byte.
LEMMA TagByte ==
  \A c \in 0..127 : Single(c) \in Bytes /\ Len(Single(c)) = 1 /\ Single(c)[1] = c
BY SingleByte, ByteIs

\* One turn of the loop reads one value, wherever in the bytes it stands.
LEMMA ChunkIsRead ==
  ASSUME NEW t \in Types, NEW f \in FieldsOf(t), f.num < 16, NEW v \in Items(f),
         NEW b \in Bytes, Len(b) < U64 \div 2, NEW i \in Nat \ {0}, NEW m,
         Holds(b, i, Chunk(f, v))
  PROVE  ParseField(t, b, i, m) = [pos |-> i + Len(Chunk(f, v)), msg |-> Take(f, v, m)]
<1>1. Proper(f)
  BY FieldsApart
<1> DEFINE p == Payload(f, v)
<1>2. p \in Bytes /\ Len(p) \in Nat /\ Len(p) >= 1
  BY <1>1, PayloadBytes, InSeq DEF Bytes
<1>3. /\ Chunk(f, v) \in Bytes /\ Len(Chunk(f, v)) = Len(p) + 1
      /\ Holds(Chunk(f, v), 2, p)
  BY <1>1, ChunkIs
<1>4. PICK c \in 0..127 : c \div 8 = f.num /\ Holds(Chunk(f, v), 1, Single(c))
  BY <1>1, ChunkIs
<1>5. Single(c) \in Bytes /\ Len(Single(c)) = 1 /\ Single(c)[1] = c
  BY TagByte
<1> HIDE DEF p
<1>7. Holds(b, i, Single(c)) /\ Holds(b, i + 1, p)
  <2>1. Holds(b, i + 1 - 1, Single(c)) /\ Holds(b, i + 2 - 1, p)
    BY <1>2, <1>3, <1>4, <1>5, PartHolds
  <2>2. i + 1 - 1 = i /\ i + 2 - 1 = i + 1
    OBVIOUS
  <2> QED BY <2>1, <2>2
<1>8. b[i] = c
  <2>1. 1 \in 1..Len(Single(c)) /\ i + 1 - 1 = i
    BY <1>5
  <2>2. b[i + 1 - 1] = Single(c)[1]
    BY <1>7, <2>1 DEF Holds
  <2> QED BY <1>5, <2>1, <2>2
<1>9. ~(i + 1 > Len(b))
  <2>1. Len(b) \in Nat
    BY InSeq DEF Bytes
  <2> QED BY <1>2, <1>7, <2>1 DEF Holds
<1>10. {g \in FieldsOf(t) : g.num = b[i] \div 8} = {f}
  <2>1. \A g \in FieldsOf(t) : g.num = f.num => g = f
    BY FieldsApart DEF Apart
  <2> QED BY <1>4, <1>8, <2>1
<1>11. (CHOOSE g \in {f} : TRUE) = f
  OBVIOUS
<1>12. ParseField(t, b, i, m) = ReadValue(f, b, i + 1, m)
  BY <1>9, <1>10, <1>11 DEF ParseField
<1>13. ReadValue(f, b, i + 1, m) = [pos |-> (i + 1) + Len(p), msg |-> Take(f, v, m)]
  BY <1>1, <1>7, ValueIsRead DEF p
<1>14. (i + 1) + Len(p) = i + Len(Chunk(f, v))
  BY <1>2, <1>3
<1> QED BY <1>12, <1>13, <1>14

-----------------------------------------------------------------------------
(* The same value, read by a standard protobuf reader.                      *)

\* A standard reader's number.
LEMMA StandardNumberReturns ==
  ASSUME NEW f, Proper(f), f.kind \notin {"string", "strings", "float64"}, NEW v \in Items(f)
  PROVE  StandardNumber(f, Coded(f, v)) = v
<1>1. U32 \in Nat /\ U64 \in Nat /\ U32 >= 2 /\ U32 <= U64
  BY WireConstants
<1>2. CASE f.kind = "bool"
  <2>1. v \in BOOLEAN
    BY <1>2 DEF Items
  <2>2. Coded(f, v) = IF v THEN 1 ELSE 0
    BY <1>2 DEF Coded
  <2>3. CASE v = TRUE
    <3>1. Coded(f, v) = 1
      BY <2>2, <2>3
    <3>2. StandardNumber(f, 1) = TRUE
      <4>1. StandardNumber(f, 1) = (1 = 1)
        BY <1>2, Zenon DEF StandardNumber
      <4>2. (1 = 1) = TRUE
        OBVIOUS
      <4> QED BY <4>1, <4>2, Zenon
    <3> QED BY <2>3, <3>1, <3>2, Zenon
  <2>4. CASE v = FALSE
    <3>1. Coded(f, v) = 0
      BY <2>2, <2>4
    <3>2. StandardNumber(f, 0) = FALSE
      <4>1. StandardNumber(f, 0) = (0 = 1)
        BY <1>2, Zenon DEF StandardNumber
      <4>2. (0 = 1) = FALSE
        OBVIOUS
      <4> QED BY <4>1, <4>2, Zenon
    <3> QED BY <2>4, <3>1, <3>2, Zenon
  <2> QED BY <2>1, <2>3, <2>4
<1>3. CASE f.kind = "int32"
  <2>1. v \in Int /\ -(U32 \div 2) <= v /\ v < U32 \div 2
    BY <1>1, <1>3 DEF Items, Int32
  <2>2. Coded(f, v) = v % U64
    BY <1>3 DEF Coded
  <2>3. StandardNumber(f, v % U64) = IF 2 * (v % U64) < U64 THEN v % U64 ELSE (v % U64) - U64
    BY <1>3 DEF StandardNumber
  <2>4. U32 \div 2 + U32 \div 2 <= U32 /\ U32 \div 2 \in Nat
    BY <1>1
  <2> DEFINE h == U32 \div 2
  <2> HIDE DEF h
  <2>5. h \in Nat /\ 2 * h <= U64 /\ -h <= v /\ v < h
    BY <1>1, <2>1, <2>4 DEF h
  <2>6. CASE v >= 0
    <3>1. v \in 0..(U64 - 1)
      BY <1>1, <2>1, <2>5, <2>6
    <3>2. v % U64 = v
      BY <1>1, <3>1, SmallMod
    <3>3. 2 * v < U64
      BY <1>1, <2>1, <2>5
    <3> QED BY <2>2, <2>3, <3>2, <3>3
  <2>7. CASE v < 0
    <3>1. v + U64 \in 0..(U64 - 1)
      BY <1>1, <2>1, <2>5, <2>7
    <3>2. v % U64 = v + U64
      <4>1. (U64 * (-1) + (v + U64)) % U64 = v + U64
        BY <1>1, <3>1, ModIs
      <4>2. U64 * (-1) + (v + U64) = v
        BY <1>1, <2>1
      <4> QED BY <4>1, <4>2
    <3>3. ~(2 * (v + U64) < U64)
      BY <1>1, <2>1, <2>5
    <3>4. (v + U64) - U64 = v
      BY <1>1, <2>1
    <3> QED BY <2>2, <2>3, <3>2, <3>3, <3>4
  <2> QED BY <2>1, <2>6, <2>7
<1>4. CASE f.kind \notin {"bool", "int32"}
  <2>1. Coded(f, v) = v % U64 /\ \A c : StandardNumber(f, c) = c
    BY <1>4 DEF Coded, StandardNumber
  <2>2. v \in 0..(U64 - 1)
    BY <1>1, <1>4 DEF Items
  <2>3. v % U64 = v
    BY <1>1, <2>2, SmallMod
  <2> QED BY <2>1, <2>3
<1> QED BY <1>2, <1>3, <1>4

\* The tag of any field: a varint of one byte or two.
LEMMA LongTagIs ==
  ASSUME NEW f, Proper(f)
  PROVE  \E c \in 0..(U64 - 1) :
           /\ Tag(f) = Varint[c] /\ c \div 8 = f.num /\ c % 8 = WireType(f)
<1>1. f.num \in Nat /\ f.num < 31 /\ U64 \in Nat /\ 255 < U64
  BY WireConstants DEF Proper
<1>2. WireType(f) \in 0..2
  BY DEF WireType
<1> DEFINE n == f.num
           w == WireType(f)
           c == 8 * n + w
<1>3. c \in 0..(U64 - 1) /\ c \div 8 = n /\ c % 8 = w
  <2> HIDE DEF n, w
  <2> QED BY <1>1, <1>2 DEF n, w
<1> QED BY <1>3 DEF Tag

\* One value is its tag and its bytes, whatever the length of the tag.
LEMMA LongChunkIs ==
  ASSUME NEW f, Proper(f), NEW v \in Items(f)
  PROVE  /\ Chunk(f, v) \in Bytes /\ Len(Chunk(f, v)) \in Nat
         /\ Len(Chunk(f, v)) = Len(Tag(f)) + Len(Payload(f, v)) /\ Len(Chunk(f, v)) >= 1
         /\ Tag(f) \in Bytes /\ Len(Tag(f)) \in Nat
         /\ Holds(Chunk(f, v), 1, Tag(f))
         /\ Holds(Chunk(f, v), Len(Tag(f)) + 1, Payload(f, v))
<1> DEFINE p == Payload(f, v)
           s == Tag(f)
<1>1. p \in Bytes /\ Len(p) \in Nat /\ Len(p) >= 1
  BY PayloadBytes, InSeq DEF Bytes
<1>2. s \in Bytes /\ Len(s) \in Nat
  <2>1. PICK c \in 0..(U64 - 1) : s = Varint[c]
    BY LongTagIs
  <2>2. c \in Nat
    BY WireConstants
  <2> HIDE DEF s
  <2> QED BY <2>1, <2>2, VarintCodes, InSeq DEF IsCode, Bytes
<1>3. Chunk(f, v) = s \o p
  BY DEF Chunk
<1> HIDE DEF p, s
<1>4. s \o p \in Bytes /\ Len(s \o p) = Len(s) + Len(p)
  BY <1>1, <1>2, ConcatIs
<1>5. Holds(s \o p, 1, s) /\ Holds(s \o p, Len(s) + 1, p)
  BY <1>1, <1>2, ConcatHolds
<1>6. Len(s) + Len(p) \in Nat /\ Len(s) + Len(p) >= 1
  BY <1>1, <1>2
<1> QED BY <1>2, <1>3, <1>4, <1>5, <1>6 DEF p, s

\* What a standard reader makes of a turn, of which the tag c has been read,
\* and the number n behind it: j and l are the indices after them.
AfterTag(t, b, m, c, j, n, l) ==
  LET wire == c % 8
      data == IF wire = 2 THEN l ELSE j
      next == CASE wire = 0 -> l
                [] wire = 1 -> j + 8
                [] wire = 2 -> l + n
                [] OTHER -> j + 4
      known == {f \in FieldsOf(t) : f.num = c \div 8 /\ StandardWire(f) = wire}
      f == CHOOSE f \in known : TRUE
      value == IF wire = 0 THEN StandardNumber(f, n) ELSE SubSeq(b, data, next - 1)
  IN IF next > Len(b) + 1 THEN [pos |-> Len(b) + 1, msg |-> m]
     ELSE [pos |-> next, msg |-> IF known = {} THEN m ELSE Stored(f, value, m)]

\* A turn begins with the tag.
LEMMA TagFirst ==
  ASSUME NEW t, NEW b, NEW i, NEW m, NEW c, NEW j, ReadVarint(b, i) = [val |-> c, next |-> j]
  PROVE  StandardTurn(t, b, i, m) =
           AfterTag(t, b, m, c, j, ReadVarint(b, j).val, ReadVarint(b, j).next)
<1>1. ReadVarint(b, i).val = c /\ ReadVarint(b, i).next = j
  OBVIOUS
<1> QED BY <1>1 DEF StandardTurn, AfterTag

\* c is what the tag of f tells.
IsTag(c, f) == c \in Nat /\ c \div 8 = f.num /\ c % 8 = WireType(f)

\* Where the value behind such a tag ends, and what it is.
Behind(f, b, j, n, l, next, value) ==
  \/ WireType(f) = 0 /\ next = l /\ value = StandardNumber(f, n)
  \/ WireType(f) = 1 /\ next = j + 8 /\ value = SubSeq(b, j, next - 1)
  \/ WireType(f) = 2 /\ next = l + n /\ value = SubSeq(b, l, next - 1)

\* Of a field of the type, where the turn ends and what it stores.
LEMMA KnownTag ==
  ASSUME NEW t \in Types, NEW f \in FieldsOf(t), f.kind # "delimited", NEW c, IsTag(c, f),
         NEW b \in Bytes, NEW m, NEW j, NEW n, NEW l, NEW next \in Nat, NEW value,
         next <= Len(b) + 1, Behind(f, b, j, n, l, next, value)
  PROVE  AfterTag(t, b, m, c, j, n, l) = [pos |-> next, msg |-> Stored(f, value, m)]
<1> DEFINE known == {g \in FieldsOf(t) : g.num = c \div 8 /\ StandardWire(g) = c % 8}
           wire == c % 8
           g == CHOOSE g \in known : TRUE
           Then(k, x) ==
             IF k > Len(b) + 1 THEN [pos |-> Len(b) + 1, msg |-> m]
             ELSE [pos |-> k, msg |-> IF known = {} THEN m ELSE Stored(g, x, m)]
           k == CASE wire = 0 -> l [] wire = 1 -> j + 8 [] wire = 2 -> l + n [] OTHER -> j + 4
           x == IF wire = 0 THEN StandardNumber(g, n)
                ELSE SubSeq(b, IF wire = 2 THEN l ELSE j, k - 1)
<1>1. StandardWire(f) = WireType(f) /\ WireType(f) \in 0..2
  BY DEF StandardWire, WireType
<1>2. \A h \in FieldsOf(t) : h.num = f.num => h = f
  BY FieldsApart DEF Apart
<1>3. known = {f}
  BY <1>1, <1>2 DEF IsTag
<1>4. known # {} /\ g = f /\ wire = WireType(f)
  BY <1>3 DEF IsTag
<1>5. AfterTag(t, b, m, c, j, n, l) = Then(k, x)
  BY DEF AfterTag
<1>6. Len(b) \in Nat
  BY InSeq DEF Bytes
<1> HIDE DEF wire, g, known
<1>7. k = next
  BY <1>1, <1>4 DEF Behind
<1> HIDE DEF k
<1>8. x = value
  BY <1>1, <1>4, <1>7 DEF Behind
<1> HIDE DEF x
<1> QED BY <1>4, <1>5, <1>6, <1>7, <1>8

\* Two runs of bytes joined stand one behind the other.
LEMMA BothHold ==
  ASSUME NEW b \in Bytes, NEW i \in Nat \ {0}, NEW u \in Bytes, NEW v \in Bytes,
         Holds(b, i, u \o v)
  PROVE  /\ Holds(b, i, u) /\ Holds(b, i + Len(u), v) /\ i + Len(u) \in Nat \ {0}
         /\ Len(u \o v) = Len(u) + Len(v)
         /\ i + Len(u) + Len(v) <= Len(b) + 1
<1>0. Len(u) \in Nat /\ Len(v) \in Nat /\ Len(b) \in Nat
  BY InSeq DEF Bytes
<1>1. u \o v \in Bytes /\ Len(u \o v) = Len(u) + Len(v)
  BY <1>0, ConcatIs
<1>2. Holds(u \o v, 1, u) /\ Holds(u \o v, Len(u) + 1, v)
  BY <1>0, ConcatHolds
<1>3. Holds(b, i + 1 - 1, u)
  BY <1>1, <1>2, PartHolds
<1>4. Len(u) + 1 \in Nat \ {0}
  BY <1>0
<1>5. Holds(b, i + (Len(u) + 1) - 1, v)
  BY <1>1, <1>2, <1>4, PartHolds
<1>6. /\ i + 1 - 1 = i /\ i + (Len(u) + 1) - 1 = i + Len(u) /\ i + Len(u) \in Nat \ {0}
  BY <1>0
<1>7. i + Len(u) + Len(v) <= Len(b) + 1
  <2>1. i + Len(u \o v) - 1 <= Len(b)
    BY DEF Holds
  <2> QED BY <1>0, <1>1, <2>1
<1> QED BY <1>1, <1>3, <1>5, <1>6, <1>7

\* A standard reader reads one value in one turn, wherever it stands and
\* however long its tag is.
LEMMA ChunkIsStandard ==
  ASSUME NEW t \in Types, NEW f \in FieldsOf(t), f.kind # "delimited", NEW v \in Items(f),
         NEW b \in Bytes, NEW i \in Nat \ {0}, NEW m, Holds(b, i, Chunk(f, v))
  PROVE  StandardTurn(t, b, i, m) = [pos |-> i + Len(Chunk(f, v)), msg |-> Stored(f, v, m)]
<1>1. Proper(f) /\ U64 \in Nat
  BY FieldsApart, WireConstants
<1> DEFINE p == Payload(f, v)
           s == Tag(f)
           j == i + Len(s)
           n == ReadVarint(b, j).val
           l == ReadVarint(b, j).next
           e == i + Len(Chunk(f, v))
<1>2. PICK c \in 0..(U64 - 1) : s = Varint[c] /\ c \div 8 = f.num /\ c % 8 = WireType(f)
  BY <1>1, LongTagIs
<1>3. s \in Bytes /\ p \in Bytes /\ Len(p) \in Nat /\ Len(s) \in Nat /\ Chunk(f, v) = s \o p
  BY <1>1, LongChunkIs, PayloadBytes, InSeq DEF Chunk, Bytes
<1> HIDE DEF s, p
<1>4. /\ Holds(b, i, s) /\ Holds(b, j, p) /\ j \in Nat \ {0}
      /\ e = j + Len(p) /\ e \in Nat /\ e <= Len(b) + 1
  <2>1. /\ Holds(b, i, s) /\ Holds(b, j, p) /\ j \in Nat \ {0}
        /\ Len(s \o p) = Len(s) + Len(p) /\ j + Len(p) <= Len(b) + 1
    BY <1>3, BothHold
  <2>2. e = i + Len(s \o p)
    BY <1>3
  <2> HIDE DEF e
  <2> QED BY <1>3, <2>1, <2>2
<1>5. ReadVarint(b, i) = [val |-> c, next |-> j]
  BY <1>2, <1>4, VarintRead
<1> HIDE DEF j, e
<1>6. StandardTurn(t, b, i, m) = AfterTag(t, b, m, c, j, n, l)
  BY <1>5, TagFirst
<1>7. IsTag(c, f)
  BY <1>1, <1>2 DEF IsTag
<1>8. CASE Texty(f)
  <2> DEFINE u == Varint[Len(v)]
  <2>1. v \in Bytes /\ Len(v) \in Nat /\ Len(v) < U64
    BY <1>8, InSeq DEF Items, Strings, Texty, Bytes
  <2>2. u \in Bytes /\ Len(u) \in Nat
    BY <2>1, VarintCodes, InSeq DEF IsCode, Bytes
  <2>3. p = u \o v
    BY <1>8 DEF p, Payload, Texty
  <2>4. WireType(f) = 2
    BY <1>8 DEF WireType, Texty
  <2> DEFINE x == j + Len(u)
  <2>5. Holds(b, j, u) /\ Holds(b, x, v) /\ Len(p) = Len(u) + Len(v) /\ x \in Nat \ {0}
    <3> HIDE DEF u
    <3> QED BY <1>4, <2>1, <2>2, <2>3, BothHold
  <2>6. n = Len(v) /\ l = x
    <3>1. Len(v) \in 0..(U64 - 1)
      BY <1>1, <2>1
    <3>2. ReadVarint(b, j) = [val |-> Len(v), next |-> x]
      BY <1>4, <2>5, <3>1, VarintRead
    <3> HIDE DEF x
    <3> QED BY <3>2
  <2> HIDE DEF u
  <2>7. e = x + Len(v)
    BY <1>4, <2>1, <2>2, <2>5
  <2> HIDE DEF x, n, l
  <2>8. SubSeq(b, x, x + Len(v) - 1) = v
    BY <2>1, <2>5, HeldSubSeq
  <2>9. e = l + n /\ v = SubSeq(b, l, e - 1)
    BY <1>4, <2>1, <2>5, <2>6, <2>7, <2>8
  <2>10. Behind(f, b, j, n, l, e, v)
    BY <2>4, <2>9 DEF Behind
  <2>11. AfterTag(t, b, m, c, j, n, l) = [pos |-> e, msg |-> Stored(f, v, m)]
    BY <1>4, <1>7, <1>8, <2>10, KnownTag DEF Texty
  <2> QED BY <1>6, <2>11 DEF e
<1>9. CASE f.kind = "float64"
  <2>1. v \in Bytes /\ Len(v) = 8
    <3>1. v \in [1..8 -> Byte]
      BY <1>9 DEF Items
    <3> QED BY <3>1, EightBytes
  <2>2. p = v /\ WireType(f) = 1
    BY <1>9 DEF p, Payload, WireType
  <2>3. SubSeq(b, j, j + 8 - 1) = v
    BY <1>4, <2>1, <2>2, HeldSubSeq
  <2>4. e = j + 8
    BY <1>4, <2>1, <2>2
  <2> HIDE DEF n, l
  <2>5. v = SubSeq(b, j, e - 1)
    <3>1. e - 1 = j + 8 - 1
      BY <1>4, <2>4
    <3> QED BY <2>3, <3>1, Zenon
  <2>6. Behind(f, b, j, n, l, e, v)
    BY <2>2, <2>4, <2>5 DEF Behind
  <2>7. AfterTag(t, b, m, c, j, n, l) = [pos |-> e, msg |-> Stored(f, v, m)]
    BY <1>4, <1>7, <2>6, KnownTag
  <2> QED BY <1>6, <2>7 DEF e
<1>10. CASE ~Texty(f) /\ f.kind # "float64"
  <2> DEFINE d == Coded(f, v)
  <2>1. /\ d \in 0..(U64 - 1) /\ p = Varint[d] /\ StandardNumber(f, d) = v
    BY <1>1, <1>10, NumberReturns, StandardNumberReturns DEF Texty, p
  <2>2. WireType(f) = 0
    BY <1>10 DEF WireType, Texty
  <2> HIDE DEF d
  <2>3. n = d /\ l = e
    <3>1. ReadVarint(b, j) = [val |-> d, next |-> j + Len(p)]
      BY <1>4, <2>1, VarintRead
    <3> QED BY <1>4, <3>1
  <2> HIDE DEF n, l
  <2>4. v = StandardNumber(f, n)
    BY <2>1, <2>3
  <2>5. Behind(f, b, j, n, l, e, v)
    BY <2>2, <2>3, <2>4 DEF Behind
  <2>6. AfterTag(t, b, m, c, j, n, l) = [pos |-> e, msg |-> Stored(f, v, m)]
    BY <1>4, <1>7, <2>5, KnownTag
  <2> QED BY <1>6, <2>6 DEF e
<1> QED BY <1>8, <1>9, <1>10

\* Two readers: Unmarshal, and a standard protobuf reader.  What a turn of
\* either does, and makes of a value, which fields and how many bytes it reads:
\* in Go a length is an int.
Turn(who, t, b, i, m) ==
  IF who = "standard" THEN StandardTurn(t, b, i, m) ELSE ParseField(t, b, i, m)
TakenBy(who, f, v, m) == IF who = "standard" THEN Stored(f, v, m) ELSE Take(f, v, m)
Reads(who, f) == IF who = "standard" THEN f.kind # "delimited" ELSE f.num < 16
Fits(who, b) == who = "standard" \/ Len(b) < U64 \div 2

\* One turn reads one value, wherever in the bytes it stands.
LEMMA ChunkIsTaken ==
  ASSUME NEW who, NEW t \in Types, NEW f \in FieldsOf(t), Reads(who, f), NEW v \in Items(f),
         NEW b \in Bytes, Fits(who, b), NEW i \in Nat \ {0}, NEW m, Holds(b, i, Chunk(f, v))
  PROVE  Turn(who, t, b, i, m) = [pos |-> i + Len(Chunk(f, v)), msg |-> TakenBy(who, f, v, m)]
<1>1. CASE who = "standard"
  BY <1>1, ChunkIsStandard DEF Turn, TakenBy, Reads
<1>2. CASE who # "standard"
  BY <1>2, ChunkIsRead DEF Turn, TakenBy, Reads, Fits
<1> QED BY <1>1, <1>2

-----------------------------------------------------------------------------
(* Pieces joined.                                                           *)

\* Where the pieces of a joined sequence end, as Flattened says.
Laid(off, segs) ==
  /\ IsCut(off, segs) /\ Len(FlattenSeq(segs)) = off[Len(segs)]
  /\ \A k \in 1..Len(segs) : Holds(FlattenSeq(segs), off[k - 1] + 1, segs[k])
Ends(segs) == CHOOSE off : Laid(off, segs)

\* There is such a cut.
LEMMA EndsLaid ==
  ASSUME NEW segs \in Seq(Bytes)
  PROVE  Laid(Ends(segs), segs) /\ FlattenSeq(segs) \in Bytes
BY Flattened DEF Ends, Laid

\* The same, part by part.
LEMMA EndsAre ==
  ASSUME NEW segs \in Seq(Bytes)
  PROVE  /\ Ends(segs) \in [0..Len(segs) -> Nat] /\ Ends(segs)[0] = 0
         /\ \A k \in 1..Len(segs) : Ends(segs)[k] = Ends(segs)[k - 1] + Len(segs[k])
         /\ \A k \in 1..Len(segs) : Holds(FlattenSeq(segs), Ends(segs)[k - 1] + 1, segs[k])
         /\ FlattenSeq(segs) \in Bytes /\ Len(FlattenSeq(segs)) = Ends(segs)[Len(segs)]
BY EndsLaid DEF Laid, IsCut

\* What NonEmpty computes, text by text.
LEMMA NonEmptyIs ==
  ASSUME NEW ss \in Seq(Strings)
  PROVE  /\ NonEmpty(ss)[0] = <<>>
         /\ \A n \in 1..Len(ss) :
              NonEmpty(ss)[n] = IF ss[n] = <<>> THEN NonEmpty(ss)[n - 1]
                                ELSE Append(NonEmpty(ss)[n - 1], ss[n])
<1> DEFINE L == Len(ss)
           D == 0..L
           X == Seq(Strings)
           Step(f, n) == IF n = 0 THEN <<>>
                         ELSE IF ss[n] = <<>> THEN f[n - 1] ELSE Append(f[n - 1], ss[n])
           step == [n \in D |-> [f \in [D -> X] |-> Step(f, n)]]
           r == [n \in D |-> n]
           IsKept(f) == f = [n \in D |-> Step(f, n)]
<1>1. L \in Nat /\ \A n \in 1..L : ss[n] \in Strings
  BY InSeq
<1>2. X # {} /\ <<>> \in X
  OBVIOUS
<1>3. ASSUME NEW n \in D, NEW f \in [D -> X] PROVE Step(f, n) \in X
  <2>1. CASE n = 0
    BY <1>2, <2>1
  <2>2. CASE n # 0
    <3>1. n \in 1..L /\ n - 1 \in D
      BY <1>1, <2>2
    <3>2. f[n - 1] \in X /\ ss[n] \in Strings
      BY <1>1, <3>1
    <3>3. Append(f[n - 1], ss[n]) \in X
      BY <3>2
    <3> HIDE DEF X
    <3> QED BY <2>2, <3>2, <3>3
  <2> QED BY <2>1, <2>2
<1>4. ASSUME NEW n \in D, NEW f \in [D -> X], NEW g \in [D -> X],
             \A e \in D : e < n => f[e] = g[e]
      PROVE  Step(f, n) = Step(g, n)
  <2>1. n # 0 => n - 1 \in D /\ n - 1 < n
    BY <1>1
  <2>2. n # 0 => f[n - 1] = g[n - 1]
    BY <1>4, <2>1
  <2> QED BY <2>2
<1> HIDE DEF X, Step
<1>5. PICK f \in [D -> X] : \A n \in D : f[n] = Step(f, n)
  <2>1. r \in [D -> Nat] /\ \A n \in D : r[n] = n
    BY <1>1
  <2>2. step \in Steps(D, X)
    BY <1>3 DEF Steps
  <2>3. \A n \in D, f \in [D -> X] : step[n][f] = Step(f, n)
    OBVIOUS
  <2> HIDE DEF r, step, D
  <2>4. ASSUME NEW n \in D, NEW g \in [D -> X], NEW h \in [D -> X],
               \A e \in D : r[e] < r[n] => g[e] = h[e]
        PROVE  step[n][g] = step[n][h]
    <3>1. \A e \in D : e < n => g[e] = h[e]
      BY <2>1, <2>4
    <3>2. Step(g, n) = Step(h, n)
      BY <1>4, <3>1
    <3> QED BY <2>3, <3>2
  <2>5. Looks(D, X, r, step)
    BY <2>4 DEF Looks
  <2>6. PICK f \in [D -> X] : \A n \in D : f[n] = step[n][f]
    BY <1>2, <2>1, <2>2, <2>5, RecursionExists
  <2> QED BY <2>3, <2>6
<1>6. IsKept(f)
  BY <1>5
<1>7. NonEmpty(ss) = CHOOSE g : IsKept(g)
  BY DEF NonEmpty, Step
<1>8. IsKept(NonEmpty(ss))
  <2> HIDE DEF IsKept
  <2> QED BY <1>6, <1>7
<1>9. \A n \in D : NonEmpty(ss)[n] = Step(NonEmpty(ss), n)
  <2> DEFINE kept == NonEmpty(ss)
  <2>1. kept = [n \in D |-> Step(kept, n)]
    BY <1>8
  <2> HIDE DEF kept
  <2>2. \A n \in D : kept[n] = Step(kept, n)
    BY <2>1
  <2> QED BY <2>2 DEF kept
<1>10. 0 \in D /\ \A n \in 1..L : n \in D /\ n # 0
  BY <1>1
<1>11. NonEmpty(ss)[0] = <<>>
  BY <1>9, <1>10 DEF Step
<1>12. ASSUME NEW n \in 1..L
       PROVE  NonEmpty(ss)[n] = IF ss[n] = <<>> THEN NonEmpty(ss)[n - 1]
                                ELSE Append(NonEmpty(ss)[n - 1], ss[n])
  BY <1>9, <1>10 DEF Step
<1> QED BY <1>11, <1>12

-----------------------------------------------------------------------------
(* The message while it is read.                                            *)

\* The values of field f that bytes may hold: several only of a repeated field.
IsValues(f, vals) ==
  vals \in Seq(Items(f)) /\ (f.kind \notin Repeated => Len(vals) <= 1)

\* What a message has under f's name and flag when n values have been read.
ReadOf(who, f, vals, n) ==
  CASE f.kind = "strings" /\ who # "standard" -> NonEmpty(vals)[n]
    [] f.kind = "strings" /\ who = "standard" -> SubSeq(vals, 1, n)
    [] f.kind \in {"numbers", "delimited"} -> SubSeq(vals, 1, n)
    [] OTHER -> IF n = 0 THEN ZeroOf(f.kind) ELSE vals[n]
FlagOf(f, n) == f.kind = "opt" /\ n # 0
Has(who, f, vals, n, m) ==
  m[f.name] = ReadOf(who, f, vals, n) /\ (f.flag # "none" => m[f.flag] = FlagOf(f, n))

\* A message of type t.
Named(t, m) == m = [x \in NamesOf(t) |-> m[x]]

\* The name and the flag of a field are in the message.
LEMMA NamesIn ==
  ASSUME NEW t \in Types, NEW f \in FieldsOf(t)
  PROVE  f.name \in NamesOf(t) /\ (f.flag # "none" => f.flag \in NamesOf(t))
BY DEF NamesOf

\* A new message has all names.
LEMMA ZeroNamed == \A t \in Types : Named(t, Zero(t))
BY DEF Named, Zero

\* A new message has read nothing.
LEMMA ZeroHas ==
  ASSUME NEW who, NEW t \in Types, NEW f \in FieldsOf(t), NEW vals, IsValues(f, vals)
  PROVE  Has(who, f, vals, 0, Zero(t))
<1>1. Proper(f) /\ f.name \in NamesOf(t) /\ (f.flag # "none" => f.flag \in NamesOf(t))
  BY FieldsApart, NamesIn
<1>2. Zero(t)[f.name] = ZeroOf(f.kind)
  <2>1. \A g \in FieldsOf(t) : g.name = f.name => g = f
    BY FieldsApart DEF Apart
  <2>2. (CHOOSE g \in FieldsOf(t) : g.name = f.name) = f
    BY <2>1
  <2> QED BY <1>1, <2>2 DEF Zero
<1>3. f.flag # "none" => Zero(t)[f.flag] = FALSE
  <2>1. \A g \in FieldsOf(t) : g.name # f.flag
    BY FieldsApart
  <2> QED BY <1>1, <2>1 DEF Zero
<1>4. FlagOf(f, 0) = FALSE
  BY DEF FlagOf
<1>5. ReadOf(who, f, vals, 0) = ZeroOf(f.kind)
  <2>1. SubSeq(vals, 1, 0) = <<>>
    BY DEF IsValues
  <2>2. CASE f.kind = "strings"
    <3>1. vals \in Seq(Strings)
      BY <2>2 DEF IsValues, Items
    <3>2. NonEmpty(vals)[0] = <<>>
      BY <3>1, NonEmptyIs
    <3> QED BY <2>1, <2>2, <3>2 DEF ReadOf, ZeroOf
  <2>3. CASE f.kind \in {"numbers", "delimited"}
    BY <2>1, <2>3 DEF ReadOf, ZeroOf
  <2>4. CASE f.kind \notin {"strings", "numbers", "delimited"}
    BY <2>4 DEF ReadOf
  <2> QED BY <2>2, <2>3, <2>4
<1>6. f.flag # "none" => Zero(t)[f.flag] = FlagOf(f, 0)
  BY <1>3, <1>4, Zenon
<1> QED BY <1>2, <1>5, <1>6 DEF Has

\* With n values read of f, message m has become m2.
HasTaken(who, t, f, vals, n, m, m2) ==
  /\ Named(t, m2) /\ Has(who, f, vals, n, m2)
  /\ \A x \in NamesOf(t) : x # f.name /\ x # f.flag => m2[x] = m[x]

\* Reading one more value.
LEMMA TakeHas ==
  ASSUME NEW who, NEW t \in Types, NEW f \in FieldsOf(t), NEW vals, IsValues(f, vals),
         NEW n \in 1..Len(vals), NEW m, Named(t, m), Has(who, f, vals, n - 1, m)
  PROVE  HasTaken(who, t, f, vals, n, m, TakenBy(who, f, vals[n], m))
<1> DEFINE v == vals[n]
           m2 == TakenBy(who, f, v, m)
           N == NamesOf(t)
<1>1. /\ Proper(f) /\ f.name \in N /\ f.flag # f.name
      /\ f.flag # "none" => f.flag \in N
  BY FieldsApart, NamesIn
<1>2. /\ Len(vals) \in Nat /\ \A k \in 1..Len(vals) : vals[k] \in Items(f)
      /\ f.kind \notin Repeated => Len(vals) <= 1
  BY InSeq DEF IsValues
<1>3. m = [x \in N |-> m[x]]
  BY DEF Named
<1>4. CASE f.kind = "strings" /\ who # "standard"
  <2>1. vals \in Seq(Strings)
    BY <1>4 DEF IsValues, Items
  <2>2. NonEmpty(vals)[n] = IF v = <<>> THEN NonEmpty(vals)[n - 1]
                            ELSE Append(NonEmpty(vals)[n - 1], v)
    BY <2>1, NonEmptyIs
  <2>3. m[f.name] = NonEmpty(vals)[n - 1]
    BY <1>4 DEF Has, ReadOf
  <2>4. m2 = IF v = <<>> THEN m ELSE [m EXCEPT ![f.name] = Append(@, v)]
    BY <1>4 DEF TakenBy, Take, Texty, Stored
  <2> HIDE DEF v, m2, N
  <2>5. m2[f.name] = NonEmpty(vals)[n]
    BY <1>1, <1>3, <2>2, <2>3, <2>4
  <2>6. Named(t, m2) /\ \A x \in N : x # f.name => m2[x] = m[x]
    BY <1>1, <1>3, <2>4 DEF Named, N
  <2>7. f.flag = "none"
    BY <1>1, <1>4 DEF Proper, Flags
  <2> QED BY <1>4, <2>5, <2>6, <2>7 DEF v, m2, N, Has, HasTaken, ReadOf
<1>5. CASE f.kind \in {"numbers", "delimited"} \/ (f.kind = "strings" /\ who = "standard")
  <2>1. SubSeq(vals, 1, n) = Append(SubSeq(vals, 1, n - 1), v)
    BY <1>2 DEF IsValues
  <2>0. \A k : ReadOf(who, f, vals, k) = SubSeq(vals, 1, k)
    BY <1>5 DEF ReadOf
  <2>2. m[f.name] = SubSeq(vals, 1, n - 1)
    BY <2>0 DEF Has
  <2>3. m2 = [m EXCEPT ![f.name] = Append(@, v)]
    BY <1>5 DEF TakenBy, Take, Texty, Stored
  <2> HIDE DEF v, m2, N
  <2>4. m2[f.name] = SubSeq(vals, 1, n)
    BY <1>1, <1>3, <2>1, <2>2, <2>3
  <2>5. Named(t, m2) /\ \A x \in N : x # f.name => m2[x] = m[x]
    BY <1>1, <1>3, <2>3 DEF Named, N
  <2>6. f.flag = "none"
    BY <1>1, <1>5 DEF Proper, Flags
  <2> QED BY <2>0, <2>4, <2>5, <2>6 DEF v, m2, N, Has, HasTaken
<1>6. CASE f.kind \notin Repeated
  <2>1. n = 1 /\ n # 0 /\ n - 1 = 0
    BY <1>2, <1>6
  <2>2. ReadOf(who, f, vals, n) = v /\ ReadOf(who, f, vals, n - 1) = ZeroOf(f.kind)
    BY <1>6, <2>1 DEF ReadOf, Repeated
  <2>3. m[f.name] = ZeroOf(f.kind)
    BY <2>2 DEF Has
  <2>4. CASE f.kind = "opt"
    <3>1. m2 = [m EXCEPT ![f.name] = v, ![f.flag] = TRUE]
      BY <2>4 DEF TakenBy, Take, Texty, Stored
    <3>2. f.flag \in N
      BY <1>1, <2>4 DEF Proper, Flags
    <3>3. FlagOf(f, n) = TRUE
      BY <2>1, <2>4 DEF FlagOf
    <3> HIDE DEF v, m2, N
    <3>4. m2[f.name] = v /\ m2[f.flag] = TRUE
      BY <1>1, <1>3, <3>1, <3>2
    <3>5. Named(t, m2) /\ \A x \in N : x # f.name /\ x # f.flag => m2[x] = m[x]
      BY <1>1, <1>3, <3>1, <3>2 DEF Named, N
    <3>6. m2[f.flag] = FlagOf(f, n)
      BY <3>3, <3>4, Zenon
    <3> QED BY <2>2, <3>4, <3>5, <3>6 DEF v, m2, N, Has, HasTaken
  <2>5. CASE f.kind # "opt"
    <3>1. m2 = [m EXCEPT ![f.name] = v] \/ (Texty(f) /\ v = <<>> /\ m2 = m)
      BY <1>6, <2>5 DEF TakenBy, Take, Stored, Repeated
    <3>2. Texty(f) => ZeroOf(f.kind) = <<>>
      BY <1>6 DEF Texty, ZeroOf, Repeated
    <3>3. FlagOf(f, n) = FALSE /\ FlagOf(f, n - 1) = FALSE
      BY <2>5 DEF FlagOf
    <3> HIDE DEF v, m2, N
    <3>4. m2[f.name] = v
      BY <1>1, <1>3, <2>3, <3>1, <3>2
    <3>5. Named(t, m2) /\ \A x \in N : x # f.name => m2[x] = m[x]
      BY <1>1, <1>3, <3>1 DEF Named, N
    <3>6. f.flag # "none" => m2[f.flag] = m[f.flag] /\ m[f.flag] = FlagOf(f, n - 1)
      BY <1>1, <3>5 DEF Has
    <3>7. f.flag # "none" => m2[f.flag] = FlagOf(f, n)
      BY <3>3, <3>6, Zenon
    <3> QED BY <2>2, <3>4, <3>5, <3>7 DEF v, m2, N, Has, HasTaken
  <2> QED BY <2>4, <2>5
<1> QED BY <1>4, <1>5, <1>6 DEF Repeated

-----------------------------------------------------------------------------
(* Scripts.                                                                 *)

\* Bytes that a reader passes over in one turn.
Skipped(who, t, u) ==
  /\ u \in Bytes /\ Len(u) >= 1
  /\ \A b \in Bytes, i \in Nat \ {0} :
       Holds(b, i, u) => \A m : Turn(who, t, b, i, m) = [pos |-> i + Len(u), msg |-> m]

\* A script says what stands in some bytes, part by part: the values of a field
\* of t, or bytes that are passed over.
IsPart(who, t, e) ==
  IF e.known THEN /\ e.field \in FieldsOf(t) /\ IsValues(e.field, e.values)
                  /\ e.values # <<>> => Reads(who, e.field)
  ELSE e.values \in Seq(Bytes) /\ \A n \in 1..Len(e.values) : Skipped(who, t, e.values[n])

Pieces(e) == [n \in 1..Len(e.values) |->
                IF e.known THEN Chunk(e.field, e.values[n]) ELSE e.values[n]]
Segment(e) == FlattenSeq(Pieces(e))
After(who, e, n, m) == IF e.known THEN TakenBy(who, e.field, e.values[n], m) ELSE m

\* Every value of a part is some bytes.
LEMMA PieceIs ==
  ASSUME NEW who, NEW t \in Types, NEW e, IsPart(who, t, e)
  PROVE  /\ Len(e.values) \in Nat /\ Pieces(e) \in Seq(Bytes) /\ Len(Pieces(e)) = Len(e.values)
         /\ \A n \in 1..Len(e.values) : Len(Pieces(e)[n]) \in Nat /\ Len(Pieces(e)[n]) >= 1
<1>1. Len(e.values) \in Nat
  BY InSeq DEF IsPart, IsValues
<1>2. ASSUME NEW n \in 1..Len(e.values)
      PROVE  Pieces(e)[n] \in Bytes /\ Len(Pieces(e)[n]) >= 1
  <2>1. CASE e.known
    <3> DEFINE f == e.field
    <3>1. f \in FieldsOf(t) /\ IsValues(f, e.values)
      BY <2>1 DEF IsPart
    <3>2. e.values[n] \in Items(f)
      BY <3>1, InSeq DEF IsValues
    <3>3. Proper(f)
      BY <3>1, FieldsApart
    <3>4. Pieces(e)[n] = Chunk(f, e.values[n])
      BY <2>1 DEF Pieces
    <3> HIDE DEF f
    <3> QED BY <3>2, <3>3, <3>4, LongChunkIs
  <2>2. CASE ~e.known
    <3>1. Pieces(e)[n] = e.values[n] /\ Skipped(who, t, e.values[n])
      BY <2>2 DEF Pieces, IsPart
    <3> QED BY <3>1 DEF Skipped
  <2> QED BY <2>1, <2>2
<1>3. Pieces(e) \in [1..Len(e.values) -> Bytes]
  BY <1>2 DEF Pieces
<1>4. Pieces(e) \in Seq(Bytes) /\ Len(Pieces(e)) = Len(e.values)
  BY <1>1, <1>3
<1>5. \A n \in 1..Len(e.values) : Len(Pieces(e)[n]) \in Nat
  BY <1>2, InSeq DEF Bytes
<1> QED BY <1>1, <1>2, <1>4, <1>5

\* A turn at i in b reads piece n of a part.
PieceRead(who, t, e, n, b, i, m) ==
  Turn(who, t, b, i, m) = [pos |-> i + Len(Pieces(e)[n]), msg |-> After(who, e, n, m)]

\* One turn of the loop reads one value of a part.
LEMMA PieceIsRead ==
  ASSUME NEW who, NEW t \in Types, NEW e, IsPart(who, t, e), NEW n \in 1..Len(e.values),
         NEW b \in Bytes, Fits(who, b), NEW i \in Nat \ {0}, NEW m, Holds(b, i, Pieces(e)[n])
  PROVE  PieceRead(who, t, e, n, b, i, m)
<1>0. Len(e.values) \in Nat
  BY PieceIs
<1>1. CASE e.known
  <2> DEFINE f == e.field
             v == e.values[n]
  <2>1. /\ f \in FieldsOf(t) /\ IsValues(f, e.values) /\ (e.values # <<>> => Reads(who, f))
    BY <1>1 DEF IsPart
  <2>2. v \in Items(f)
    BY <2>1, InSeq DEF IsValues
  <2>3. e.values # <<>>
    BY <1>0
  <2>4. Pieces(e)[n] = Chunk(f, v) /\ After(who, e, n, m) = TakenBy(who, f, v, m)
    BY <1>1 DEF Pieces, After
  <2> HIDE DEF f, v
  <2>5. Turn(who, t, b, i, m) = [pos |-> i + Len(Chunk(f, v)), msg |-> TakenBy(who, f, v, m)]
    BY <2>1, <2>2, <2>3, <2>4, ChunkIsTaken
  <2> QED BY <2>4, <2>5 DEF PieceRead
<1>2. CASE ~e.known
  <2>1. Pieces(e)[n] = e.values[n] /\ Skipped(who, t, e.values[n]) /\ After(who, e, n, m) = m
    BY <1>2 DEF Pieces, IsPart, After
  <2> QED BY <2>1 DEF Skipped, PieceRead
<1> QED BY <1>1, <1>2

\* Script S with its parts laid one after the other in b, and each field told once.
Segments(S) == [k \in 1..Len(S) |-> Segment(S[k])]
IsScript(who, S, off, t, b) ==
  /\ Len(S) \in Nat \ {0} /\ b \in Bytes /\ Fits(who, b)
  /\ \A k \in 1..Len(S) : IsPart(who, t, S[k])
  /\ \A k, l \in 1..Len(S) :
       S[k].known /\ S[l].known /\ S[k].field = S[l].field => k = l
  /\ IsCut(off, Segments(S)) /\ Len(b) = off[Len(S)]
  /\ \A k \in 1..Len(S) : Holds(b, off[k - 1] + 1, Segment(S[k]))

\* How many values of part j have been read when k parts and n values of the
\* next one have.
Count(S, k, n, j) == IF j <= k THEN Len(S[j].values) ELSE IF j = k + 1 THEN n ELSE 0
Untold(S, f) == \A j \in 1..Len(S) : S[j].known => S[j].field # f
MsgAt(who, S, t, k, n, m) ==
  /\ Named(t, m)
  /\ \A j \in 1..Len(S) :
       S[j].known => Has(who, S[j].field, S[j].values, Count(S, k, n, j), m)
  /\ \A f \in FieldsOf(t) : Untold(S, f) => Has(who, f, <<>>, 0, m)

\* The loop between two values.
Boundary(who, S, off, t, k, n, p, m) ==
  /\ k \in 0..(Len(S) - 1) /\ n \in 0..Len(S[k + 1].values)
  /\ p = off[k] + Ends(Pieces(S[k + 1]))[n] + 1
  /\ MsgAt(who, S, t, k, n, m)

\* The loop begins with a new message at the first byte.
LEMMA Begins ==
  ASSUME NEW who, NEW t \in Types, NEW S, NEW off, NEW b, IsScript(who, S, off, t, b)
  PROVE  Boundary(who, S, off, t, 0, 0, 1, Zero(t))
<1>1. Len(S) \in Nat \ {0} /\ 0 \in 0..(Len(S) - 1) /\ 0 + 1 = 1 /\ 1 \in 1..Len(S)
  BY DEF IsScript
<1>2. /\ \A j \in 1..Len(S) : IsPart(who, t, S[j])
      /\ off[0] = 0
  BY DEF IsScript, IsCut
<1>3. Len(S[1].values) \in Nat /\ Ends(Pieces(S[1]))[0] = 0
  BY <1>1, <1>2, PieceIs, EndsAre
<1>4. ASSUME NEW j \in 1..Len(S), S[j].known
      PROVE  Has(who, S[j].field, S[j].values, Count(S, 0, 0, j), Zero(t))
  <2>1. S[j].field \in FieldsOf(t) /\ IsValues(S[j].field, S[j].values)
    BY <1>2, <1>4 DEF IsPart
  <2>2. Count(S, 0, 0, j) = 0
    BY <1>1 DEF Count
  <2> QED BY <2>1, <2>2, ZeroHas
<1>5. ASSUME NEW f \in FieldsOf(t) PROVE Has(who, f, <<>>, 0, Zero(t))
  <2>1. IsValues(f, <<>>)
    BY DEF IsValues
  <2> QED BY <2>1, ZeroHas
<1>6. MsgAt(who, S, t, 0, 0, Zero(t))
  BY <1>4, <1>5, ZeroNamed DEF MsgAt
<1>7. off[0] + Ends(Pieces(S[0 + 1]))[0] + 1 = 1 /\ 0 \in 0..Len(S[0 + 1].values)
  BY <1>1, <1>2, <1>3
<1> QED BY <1>1, <1>6, <1>7 DEF Boundary

\* Where part k + 1 of a script begins and ends.
PartEnded(who, S, off, t, k) ==
  /\ k + 1 \in 1..Len(S) /\ IsPart(who, t, S[k + 1])
  /\ off[k] \in Nat /\ off[k + 1] \in Nat /\ Len(S[k + 1].values) \in Nat
  /\ Ends(Pieces(S[k + 1])) \in [0..Len(S[k + 1].values) -> Nat]
  /\ Ends(Pieces(S[k + 1]))[0] = 0
  /\ off[k + 1] = off[k] + Ends(Pieces(S[k + 1]))[Len(S[k + 1].values)]

\* Where a part ends.
LEMMA PartEnds ==
  ASSUME NEW who, NEW t \in Types, NEW S, NEW off, NEW b, IsScript(who, S, off, t, b), NEW k \in 0..(Len(S) - 1)
  PROVE  PartEnded(who, S, off, t, k)
<1> DEFINE e == S[k + 1]
           q == Pieces(e)
<1>1. /\ Len(S) \in Nat \ {0} /\ k + 1 \in 1..Len(S) /\ IsPart(who, t, e)
      /\ k \in 0..Len(S) /\ k + 1 \in 0..Len(S) /\ (k + 1) - 1 = k
  BY DEF IsScript
<1>2. /\ Len(e.values) \in Nat /\ q \in Seq(Bytes) /\ Len(q) = Len(e.values)
  BY <1>1, PieceIs
<1>3. Segments(S)[k + 1] = FlattenSeq(q) /\ Len(Segments(S)) = Len(S)
  BY <1>1 DEF Segments, Segment
<1>4. /\ off \in [0..Len(S) -> Nat]
      /\ off[k + 1] = off[(k + 1) - 1] + Len(FlattenSeq(q))
  BY <1>1, <1>3 DEF IsScript, IsCut
<1> HIDE DEF e, q
<1>5. /\ Ends(q) \in [0..Len(e.values) -> Nat] /\ Ends(q)[0] = 0
      /\ Len(FlattenSeq(q)) = Ends(q)[Len(e.values)]
  BY <1>2, EndsAre
<1>6. off[k] \in Nat /\ off[k + 1] \in Nat /\ off[k + 1] = off[k] + Ends(q)[Len(e.values)]
  BY <1>1, <1>4, <1>5
<1> QED BY <1>1, <1>2, <1>5, <1>6 DEF e, q, PartEnded

\* The last value of a part read, the next part begins.
LEMMA NextPart ==
  ASSUME NEW who, NEW t \in Types, NEW S, NEW off, NEW b, IsScript(who, S, off, t, b), NEW k, NEW p, NEW m,
         Boundary(who, S, off, t, k, Len(S[k + 1].values), p, m), k # Len(S) - 1
  PROVE  Boundary(who, S, off, t, k + 1, 0, p, m)
<1>1. k \in 0..(Len(S) - 1) /\ Len(S) \in Nat
  BY DEF Boundary, IsScript
<1>2. k + 1 \in 0..(Len(S) - 1)
  BY <1>1
<1> DEFINE n == Len(S[k + 1].values)
<1>3. p = off[k] + Ends(Pieces(S[k + 1]))[n] + 1 /\ MsgAt(who, S, t, k, n, m)
  BY DEF Boundary
<1>4. p = off[k + 1] + 1 /\ off[k + 1] \in Nat /\ n \in Nat
  <2>2. /\ off[k] \in Nat /\ off[k + 1] \in Nat /\ n \in Nat
        /\ Ends(Pieces(S[k + 1])) \in [0..n -> Nat]
        /\ off[k + 1] = off[k] + Ends(Pieces(S[k + 1]))[n]
    <3>1. PartEnded(who, S, off, t, k)
      BY <1>1, PartEnds
    <3> QED BY <3>1 DEF PartEnded
  <2> HIDE DEF n
  <2>1. Ends(Pieces(S[k + 1]))[n] \in Nat
    BY <2>2
  <2> QED BY <1>3, <2>1, <2>2
<1>5. Ends(Pieces(S[(k + 1) + 1]))[0] = 0 /\ Len(S[(k + 1) + 1].values) \in Nat
  BY <1>2, PartEnds DEF PartEnded
<1>6. p = off[k + 1] + Ends(Pieces(S[(k + 1) + 1]))[0] + 1
  BY <1>4, <1>5
<1>7. \A j \in 1..Len(S) : Count(S, k + 1, 0, j) = Count(S, k, n, j)
  BY <1>1 DEF Count
<1>8. MsgAt(who, S, t, k + 1, 0, m)
  BY <1>3, <1>7 DEF MsgAt
<1>9. 0 \in 0..Len(S[(k + 1) + 1].values)
  BY <1>5
<1> QED BY <1>2, <1>6, <1>8, <1>9 DEF Boundary

\* Between two values, either a value is next or all is read.
LEMMA Ahead ==
  ASSUME NEW who, NEW t \in Types, NEW S, NEW off, NEW b, IsScript(who, S, off, t, b), NEW p, NEW m,
         \E k, n \in Nat : Boundary(who, S, off, t, k, n, p, m)
  PROVE  \E k, n \in Nat : /\ Boundary(who, S, off, t, k, n, p, m)
                           /\ n < Len(S[k + 1].values)
                              \/ (k = Len(S) - 1 /\ n = Len(S[k + 1].values))
<1> DEFINE T == {d \in Nat : \E k, n \in Nat :
                    Boundary(who, S, off, t, k, n, p, m) /\ k + d = Len(S)}
<1>1. Len(S) \in Nat
  BY DEF IsScript
<1>2. T \in SUBSET Nat /\ T # {}
  <2>1. PICK k, n \in Nat : Boundary(who, S, off, t, k, n, p, m)
    OBVIOUS
  <2>2. k \in 0..(Len(S) - 1)
    BY <2>1 DEF Boundary
  <2>3. Len(S) - k \in Nat /\ k + (Len(S) - k) = Len(S)
    BY <1>1, <2>2
  <2> QED BY <2>1, <2>3
<1>3. PICK d \in T : \A c \in T : d <= c
  BY <1>2, LeastMember
<1>4. PICK k, n \in Nat : Boundary(who, S, off, t, k, n, p, m) /\ k + d = Len(S)
  BY <1>3
<1>5. k \in 0..(Len(S) - 1) /\ n \in 0..Len(S[k + 1].values)
  BY <1>4 DEF Boundary
<1>6. Len(S[k + 1].values) \in Nat
  BY <1>5, PartEnds DEF PartEnded
<1>7. CASE n < Len(S[k + 1].values)
  BY <1>4, <1>7
<1>8. CASE n = Len(S[k + 1].values) /\ k # Len(S) - 1
  <2>1. Boundary(who, S, off, t, k + 1, 0, p, m)
    BY <1>4, <1>8, NextPart
  <2>2. d - 1 \in Nat /\ (k + 1) + (d - 1) = Len(S) /\ k + 1 \in Nat
    BY <1>1, <1>3, <1>4, <1>5
  <2>3. d - 1 \in T
    BY <2>1, <2>2
  <2> HIDE DEF T
  <2>4. d <= d - 1 /\ d \in Nat
    BY <1>2, <1>3, <2>3
  <2> QED BY <2>4
<1>9. CASE n = Len(S[k + 1].values) /\ k = Len(S) - 1
  BY <1>4, <1>9
<1> QED BY <1>5, <1>6, <1>7, <1>8, <1>9

\* All is read.
LEMMA AtTheEnd ==
  ASSUME NEW who, NEW t \in Types, NEW S, NEW off, NEW b, IsScript(who, S, off, t, b), NEW k, NEW n, NEW p, NEW m,
         Boundary(who, S, off, t, k, n, p, m), k = Len(S) - 1, n = Len(S[k + 1].values)
  PROVE  /\ p = Len(b) + 1
         /\ \A j \in 1..Len(S) :
              S[j].known => Has(who, S[j].field, S[j].values, Len(S[j].values), m)
<1>1. k \in 0..(Len(S) - 1) /\ Len(S) \in Nat \ {0}
  BY DEF Boundary, IsScript
<1>2. p = off[k] + Ends(Pieces(S[k + 1]))[n] + 1 /\ MsgAt(who, S, t, k, n, m)
  BY DEF Boundary
<1>3. p = off[k + 1] + 1
  <2>1. PartEnded(who, S, off, t, k)
    BY <1>1, PartEnds
  <2> QED BY <1>2, <2>1 DEF PartEnded
<1>4. k + 1 = Len(S) /\ Len(b) = off[Len(S)]
  BY <1>1 DEF IsScript
<1>5. \A j \in 1..Len(S) : Count(S, k, n, j) = Len(S[j].values)
  BY <1>1, <1>4 DEF Count
<1> QED BY <1>2, <1>3, <1>4, <1>5 DEF MsgAt

\* What was read of another field stays.
LEMMA OtherHas ==
  ASSUME NEW who, NEW t \in Types, NEW f \in FieldsOf(t), NEW g \in FieldsOf(t), f # g,
         NEW vals, NEW n, NEW m, NEW m2, Has(who, g, vals, n, m),
         \A x \in NamesOf(t) : x # f.name /\ x # f.flag => m2[x] = m[x]
  PROVE  Has(who, g, vals, n, m2)
<1>1. /\ g.name \in NamesOf(t) /\ (g.flag # "none" => g.flag \in NamesOf(t))
      /\ g.name # f.name /\ g.name # f.flag
      /\ g.flag # f.name /\ (g.flag # "none" => g.flag # f.flag)
  BY NamesIn, FieldsApart DEF Apart
<1>2. m2[g.name] = m[g.name] /\ (g.flag # "none" => m2[g.flag] = m[g.flag])
  BY <1>1
<1>3. m2[g.name] = ReadOf(who, g, vals, n)
  BY <1>2 DEF Has
<1>4. g.flag # "none" => m2[g.flag] = FlagOf(g, n)
  <2>1. g.flag # "none" => m[g.flag] = FlagOf(g, n)
    BY DEF Has
  <2> QED BY <1>2, <2>1, Zenon
<1> QED BY <1>3, <1>4 DEF Has

\* The message after one more value.
LEMMA MsgTurn ==
  ASSUME NEW who, NEW t \in Types, NEW S, NEW off, NEW b, IsScript(who, S, off, t, b),
         NEW k \in 0..(Len(S) - 1), NEW n \in 0..(Len(S[k + 1].values) - 1), NEW m,
         MsgAt(who, S, t, k, n, m)
  PROVE  MsgAt(who, S, t, k, n + 1, After(who, S[k + 1], n + 1, m))
<1> DEFINE e == S[k + 1]
           m2 == After(who, e, n + 1, m)
<1>1. /\ Len(S) \in Nat \ {0} /\ k + 1 \in 1..Len(S)
      /\ \A j \in 1..Len(S) : IsPart(who, t, S[j])
      /\ \A j, l \in 1..Len(S) :
           S[j].known /\ S[l].known /\ S[j].field = S[l].field => j = l
  BY DEF IsScript
<1>2. Len(e.values) \in Nat
  BY <1>1, PieceIs
<1>3. /\ Named(t, m)
      /\ \A j \in 1..Len(S) :
           S[j].known => Has(who, S[j].field, S[j].values, Count(S, k, n, j), m)
      /\ \A f \in FieldsOf(t) : Untold(S, f) => Has(who, f, <<>>, 0, m)
  BY DEF MsgAt
<1>4. \A j \in 1..Len(S) : j # k + 1 => Count(S, k, n + 1, j) = Count(S, k, n, j)
  BY <1>1 DEF Count
<1>5. Count(S, k, n, k + 1) = n /\ Count(S, k, n + 1, k + 1) = n + 1
  BY <1>1 DEF Count
<1>6. CASE ~e.known
  <2>1. m2 = m
    BY <1>6 DEF After
  <2>2. \A j \in 1..Len(S) :
          S[j].known => Has(who, S[j].field, S[j].values, Count(S, k, n + 1, j), m)
    BY <1>3, <1>4, <1>6
  <2> HIDE DEF m2, e
  <2>3. MsgAt(who, S, t, k, n + 1, m)
    BY <1>3, <2>2 DEF MsgAt
  <2> QED BY <2>1, <2>3 DEF m2, e
<1>7. CASE e.known
  <2> DEFINE f == e.field
             vals == e.values
  <2>1. f \in FieldsOf(t) /\ IsValues(f, vals)
    BY <1>1, <1>7 DEF IsPart
  <2>2. m2 = TakenBy(who, f, vals[n + 1], m)
    BY <1>7 DEF After
  <2>3. n + 1 \in 1..Len(vals) /\ (n + 1) - 1 = n
    BY <1>2
  <2>4. Has(who, f, vals, n, m)
    BY <1>1, <1>3, <1>5, <1>7
  <2> HIDE DEF m2, f, vals
  <2>5. /\ Named(t, m2) /\ Has(who, f, vals, n + 1, m2)
        /\ \A x \in NamesOf(t) : x # f.name /\ x # f.flag => m2[x] = m[x]
    <3> DEFINE i == n + 1
    <3>1. i \in 1..Len(vals) /\ Has(who, f, vals, i - 1, m) /\ m2 = TakenBy(who, f, vals[i], m)
      BY <2>2, <2>3, <2>4
    <3> HIDE DEF i
    <3>2. Named(t, m)
      BY <1>3
    <3>3. HasTaken(who, t, f, vals, i, m, m2)
      BY <2>1, <3>1, <3>2, TakeHas
    <3> QED BY <3>3 DEF i, HasTaken
  <2>6. ASSUME NEW j \in 1..Len(S), S[j].known
        PROVE  Has(who, S[j].field, S[j].values, Count(S, k, n + 1, j), m2)
    <3>1. CASE j = k + 1
      BY <1>5, <2>5, <3>1 DEF f, vals
    <3>2. CASE j # k + 1
      <4>1. S[j].field # f /\ S[j].field \in FieldsOf(t)
        BY <1>1, <1>7, <2>6, <3>2 DEF f, IsPart
      <4>2. Has(who, S[j].field, S[j].values, Count(S, k, n, j), m)
        BY <1>3, <2>6
      <4>3. Has(who, S[j].field, S[j].values, Count(S, k, n, j), m2)
        BY <2>1, <2>5, <4>1, <4>2, OtherHas
      <4> QED BY <1>4, <3>2, <4>3
    <3> QED BY <3>1, <3>2
  <2>7. ASSUME NEW g \in FieldsOf(t), Untold(S, g) PROVE Has(who, g, <<>>, 0, m2)
    <3>1. g # f
      BY <1>1, <1>7, <2>7 DEF f, Untold
    <3>2. Has(who, g, <<>>, 0, m)
      BY <1>3, <2>7
    <3> QED BY <2>1, <2>5, <3>1, <3>2, OtherHas
  <2> QED BY <2>5, <2>6, <2>7 DEF MsgAt, m2
<1> QED BY <1>6, <1>7

\* One turn of the loop takes it from one value to the next.
LEMMA ATurn ==
  ASSUME NEW who, NEW t \in Types, NEW S, NEW off, NEW b, IsScript(who, S, off, t, b),
         NEW k, NEW n, NEW p, NEW m, Boundary(who, S, off, t, k, n, p, m), n < Len(S[k + 1].values)
  PROVE  /\ p \in Nat \ {0} /\ p <= Len(b)
         /\ Turn(who, t, b, p, m).pos \in Nat /\ Turn(who, t, b, p, m).pos > p
         /\ Boundary(who, S, off, t, k, n + 1, Turn(who, t, b, p, m).pos, Turn(who, t, b, p, m).msg)
<1> DEFINE e == S[k + 1]
           q == Pieces(e)
           ends == Ends(q)
<1>1. /\ k \in 0..(Len(S) - 1) /\ n \in 0..Len(e.values)
      /\ p = off[k] + ends[n] + 1 /\ MsgAt(who, S, t, k, n, m)
  BY DEF Boundary
<1>2. /\ k + 1 \in 1..Len(S) /\ (k + 1) - 1 = k /\ IsPart(who, t, e) /\ b \in Bytes
      /\ Fits(who, b) /\ Holds(b, off[(k + 1) - 1] + 1, Segment(e))
  BY <1>1 DEF IsScript
<1>3. /\ off[k] \in Nat /\ Len(e.values) \in Nat
      /\ ends \in [0..Len(e.values) -> Nat]
  BY <1>1, PartEnds DEF PartEnded
<1>4. /\ q \in Seq(Bytes) /\ Len(q) = Len(e.values)
      /\ \A i \in 1..Len(e.values) : Len(q[i]) \in Nat /\ Len(q[i]) >= 1
  BY <1>2, PieceIs
<1>5. n + 1 \in 1..Len(e.values) /\ (n + 1) - 1 = n /\ n \in 0..(Len(e.values) - 1)
  BY <1>1, <1>3
<1>6. /\ ends[n + 1] = ends[n] + Len(q[n + 1])
      /\ Holds(FlattenSeq(q), ends[n] + 1, q[n + 1]) /\ FlattenSeq(q) \in Bytes
  BY <1>4, <1>5, EndsAre
<1>7. Segment(e) = FlattenSeq(q)
  BY DEF Segment
<1> HIDE DEF e, q, ends
<1>8. ends[n] \in Nat /\ q[n + 1] \in Bytes /\ Len(q[n + 1]) \in Nat /\ Len(q[n + 1]) >= 1
  BY <1>1, <1>3, <1>4, <1>5, InSeq
<1>9. p \in Nat \ {0} /\ Holds(b, p, q[n + 1])
  <2> DEFINE i == off[k] + 1
             j == ends[n] + 1
             s == FlattenSeq(q)
             w == q[n + 1]
  <2>1. i \in Nat \ {0} /\ j \in Nat \ {0} /\ i + j - 1 = p /\ p \in Nat \ {0}
    <3> DEFINE o == off[k]
               d == ends[n]
    <3>1. o \in Nat /\ d \in Nat /\ p = o + d + 1
      BY <1>1, <1>3, <1>8
    <3> HIDE DEF o, d
    <3>2. (o + 1) + (d + 1) - 1 = p /\ p \in Nat \ {0} /\ o + 1 \in Nat \ {0} /\ d + 1 \in Nat \ {0}
      BY <3>1
    <3> QED BY <3>2 DEF o, d
  <2>2. s \in Bytes /\ w \in Bytes /\ Holds(b, i, s) /\ Holds(s, j, w)
    BY <1>2, <1>6, <1>7, <1>8
  <2> HIDE DEF i, j, s, w
  <2>3. Holds(b, i + j - 1, w)
    BY <1>2, <2>1, <2>2, PartHolds
  <2> QED BY <2>1, <2>3 DEF w
<1>10. p <= Len(b)
  <2>1. p + Len(q[n + 1]) - 1 <= Len(b) /\ Len(b) \in Nat
    BY <1>2, <1>9, InSeq DEF Holds, Bytes
  <2> QED BY <1>8, <1>9, <2>1
<1>11. Turn(who, t, b, p, m) = [pos |-> p + Len(q[n + 1]), msg |-> After(who, e, n + 1, m)]
  <2> DEFINE i == n + 1
             w == Pieces(e)[i]
  <2>1. i \in 1..Len(e.values) /\ Holds(b, p, w) /\ p \in Nat \ {0}
    BY <1>5, <1>9 DEF q
  <2> HIDE DEF i
  <2>2. PieceRead(who, t, e, i, b, p, m)
    BY <1>2, <2>1, PieceIsRead
  <2> QED BY <2>2 DEF i, q, PieceRead
<1>12. p + Len(q[n + 1]) = off[k] + ends[n + 1] + 1
  <2> DEFINE o == off[k]
             i == ends[n]
             l == Len(q[n + 1])
  <2>1. p = o + i + 1 /\ ends[n + 1] = i + l /\ o \in Nat /\ i \in Nat /\ l \in Nat
    BY <1>1, <1>3, <1>6, <1>8
  <2> HIDE DEF o, i, l
  <2>2. p + l = o + ends[n + 1] + 1
    BY <2>1
  <2> QED BY <2>2 DEF o, l
<1>13. MsgAt(who, S, t, k, n + 1, After(who, e, n + 1, m))
  BY <1>1, <1>5, MsgTurn DEF e
<1>14. n + 1 \in 0..Len(e.values)
  BY <1>5
<1>15. Boundary(who, S, off, t, k, n + 1, p + Len(q[n + 1]), After(who, e, n + 1, m))
  BY <1>1, <1>12, <1>13, <1>14 DEF Boundary, e, q, ends
<1>16. p + Len(q[n + 1]) \in Nat /\ p + Len(q[n + 1]) > p
  <2> DEFINE l == Len(q[n + 1])
  <2>1. l \in Nat /\ l >= 1 /\ p \in Nat
    BY <1>8, <1>9
  <2> HIDE DEF l
  <2>2. p + l \in Nat /\ p + l > p
    BY <2>1
  <2> QED BY <2>2 DEF l
<1> QED BY <1>9, <1>10, <1>11, <1>15, <1>16

-----------------------------------------------------------------------------
(* What there is to be read of a message.                                   *)

\* What Kept says of one field.
KeptValue(who, f, m) ==
  CASE f.kind = "include" -> IF m[f.flag] THEN m[f.name] ELSE 0
    [] f.kind = "strings" /\ who # "standard" -> NonEmpty(m[f.name])[Len(m[f.name])]
    [] OTHER -> m[f.name]
KeptFlag(f, m) == f.kind = "opt" /\ (m[f.flag] \/ m[f.name] # 0)

\* Kept says of field f what KeptValue and KeptFlag say.
KeptOf(who, t, f, m) ==
  /\ Kept(t, m)[f.name] = KeptValue(who, f, m)
  /\ f.flag # "none" => Kept(t, m)[f.flag] = KeptFlag(f, m)

\* Kept, field by field.
LEMMA KeptIs ==
  ASSUME NEW who, who # "standard", NEW t \in Types, NEW f \in FieldsOf(t), NEW m
  PROVE  KeptOf(who, t, f, m)
<1> DEFINE Of(x) == CHOOSE g \in FieldsOf(t) : x \in {g.name, g.flag}
           Told(x, g) == g.kind = "opt" /\ (m[x] \/ m[g.name] # 0)
<1>1. /\ f.name \in NamesOf(t) /\ f.name # f.flag /\ f.name # "none"
      /\ f.flag # "none" => f.flag \in NamesOf(t)
  BY NamesIn, FieldsApart DEF Proper
<1>2. \A g \in FieldsOf(t) : f.name \in {g.name, g.flag} => g = f
  BY FieldsApart DEF Apart
<1>3. Of(f.name) = f
  BY <1>2
<1>4. f.flag # "none" => \A g \in FieldsOf(t) : f.flag \in {g.name, g.flag} => g = f
  BY FieldsApart DEF Apart
<1>5. f.flag # "none" => Of(f.flag) = f
  BY <1>4
<1>6. Kept(t, m)[f.name] = KeptValue(who, f, m)
  BY <1>1, <1>3 DEF Kept, KeptValue
<1>7. f.flag # "none" => Kept(t, m)[f.flag] = KeptFlag(f, m)
  <2>1. \A x \in NamesOf(t) :
          Kept(t, m)[x] =
            LET g == Of(x) IN
            CASE x = g.flag -> Told(x, g)
              [] x # g.flag /\ g.kind = "include" -> IF m[g.flag] THEN m[x] ELSE 0
              [] g.kind = "strings" -> NonEmpty(m[x])[Len(m[x])]
              [] OTHER -> m[x]
    BY DEF Kept
  <2>2. KeptFlag(f, m) = Told(f.flag, f)
    BY DEF KeptFlag
  <2> HIDE DEF Of, Told
  <2>3. f.flag # "none" =>
          f.flag \in NamesOf(t) /\ Of(f.flag) = f /\ f.kind # "strings"
    BY <1>1, <1>5, FieldsApart DEF Proper, Flags
  <2>4. \A x \in NamesOf(t) :
          x = Of(x).flag /\ Of(x).kind # "strings" => Kept(t, m)[x] = Told(x, Of(x))
    BY <2>1
  <2>5. f.flag # "none" => Kept(t, m)[f.flag] = Told(f.flag, f)
    BY <2>3, <2>4, Zenon
  <2> QED BY <2>2, <2>5, Zenon
<1> QED BY <1>6, <1>7 DEF KeptOf

\* Kept has all names.
LEMMA KeptNamed == \A t, m : Named(t, Kept(t, m))
BY DEF Named, Kept

\* Two messages with the same fields and flags are the same.
LEMMA SameMessage ==
  ASSUME NEW t \in Types, NEW m, NEW m2, Named(t, m), Named(t, m2),
         \A f \in FieldsOf(t) : /\ m[f.name] = m2[f.name]
                                /\ f.flag # "none" => m[f.flag] = m2[f.flag]
  PROVE  m = m2
<1>1. \A x \in NamesOf(t) : m[x] = m2[x]
  BY DEF NamesOf
<1> QED BY <1>1 DEF Named

\* The values are what there is to be read of message m.
IsTold(who, f, vals, m) ==
  /\ ReadOf(who, f, vals, Len(vals)) = KeptValue(who, f, m)
  /\ f.flag # "none" => FlagOf(f, Len(vals)) = KeptFlag(f, m)

\* A message that has read what is told has what there is to be read.
LEMMA HasTold ==
  ASSUME NEW who, NEW f, NEW vals, NEW m, NEW sentM, IsTold(who, f, vals, sentM), Has(who, f, vals, Len(vals), m)
  PROVE  /\ m[f.name] = KeptValue(who, f, sentM)
         /\ f.flag # "none" => m[f.flag] = KeptFlag(f, sentM)
<1>1. m[f.name] = KeptValue(who, f, sentM)
  BY DEF Has, IsTold
<1>2. f.flag # "none" =>
        m[f.flag] = FlagOf(f, Len(vals)) /\ FlagOf(f, Len(vals)) = KeptFlag(f, sentM)
  BY Zenon DEF Has, IsTold
<1>3. f.flag # "none" => m[f.flag] = KeptFlag(f, sentM)
  BY <1>2, Zenon
<1> QED BY <1>1, <1>3

\* The script tells message m.
Tells(who, S, t, m) ==
  /\ \A j \in 1..Len(S) : S[j].known => IsTold(who, S[j].field, S[j].values, m)
  /\ \A f \in FieldsOf(t) : Untold(S, f) => IsTold(who, f, <<>>, m)

\* Of message sentM, m has every field as it should come out.
ReadRight(who, t, sentM, m) ==
  /\ \A f \in FieldsOf(t) : m[f.name] = KeptValue(who, f, sentM)
  /\ who # "standard" => m = Kept(t, sentM)

\* At the end the message is what there is to be read.
LEMMA AllIsRead ==
  ASSUME NEW who, NEW t \in Types, NEW S, NEW off, NEW b, IsScript(who, S, off, t, b), NEW sentM,
         Tells(who, S, t, sentM), NEW k, NEW n, NEW p, NEW m,
         Boundary(who, S, off, t, k, n, p, m), k = Len(S) - 1, n = Len(S[k + 1].values)
  PROVE  ReadRight(who, t, sentM, m)
<1>1. /\ Named(t, m)
      /\ \A f \in FieldsOf(t) : Untold(S, f) => Has(who, f, <<>>, 0, m)
  BY DEF Boundary, MsgAt
<1>2. \A j \in 1..Len(S) : S[j].known => Has(who, S[j].field, S[j].values, Len(S[j].values), m)
  BY AtTheEnd
<1>3. ASSUME NEW f \in FieldsOf(t)
      PROVE  /\ m[f.name] = KeptValue(who, f, sentM)
             /\ f.flag # "none" => m[f.flag] = KeptFlag(f, sentM)
  <2>1. CASE Untold(S, f)
    <3>1. Has(who, f, <<>>, Len(<<>>), m) /\ IsTold(who, f, <<>>, sentM)
      BY <1>1, <2>1 DEF Tells
    <3> QED BY <3>1, HasTold
  <2>2. CASE ~Untold(S, f)
    <3>1. PICK j \in 1..Len(S) : S[j].known /\ S[j].field = f
      BY <2>2 DEF Untold
    <3>2. Has(who, f, S[j].values, Len(S[j].values), m) /\ IsTold(who, f, S[j].values, sentM)
      BY <1>2, <3>1 DEF Tells
    <3> QED BY <3>2, HasTold
  <2> QED BY <2>1, <2>2
<1>4. ASSUME who # "standard", NEW f \in FieldsOf(t)
      PROVE  /\ m[f.name] = Kept(t, sentM)[f.name]
             /\ f.flag # "none" => m[f.flag] = Kept(t, sentM)[f.flag]
  <2>0. KeptOf(who, t, f, sentM)
    BY <1>4, KeptIs
  <2>1. m[f.name] = Kept(t, sentM)[f.name]
    BY <1>3, <2>0 DEF KeptOf
  <2>2. f.flag # "none" => /\ m[f.flag] = KeptFlag(f, sentM)
                           /\ Kept(t, sentM)[f.flag] = KeptFlag(f, sentM)
    BY <1>3, <2>0 DEF KeptOf
  <2>3. f.flag # "none" => m[f.flag] = Kept(t, sentM)[f.flag]
    BY <2>2, Zenon
  <2> QED BY <2>1, <2>3
<1>5. who # "standard" => m = Kept(t, sentM)
  BY <1>1, <1>4, KeptNamed, SameMessage
<1> QED BY <1>3, <1>5 DEF ReadRight

-----------------------------------------------------------------------------
\* The values a field can have, and the messages of a type.
ValuesOf(f) == IF f.kind \in Repeated THEN Seq(Items(f)) ELSE Items(f)
IsMessage(t, m) ==
  /\ Named(t, m)
  /\ \A f \in FieldsOf(t) : m[f.name] \in ValuesOf(f)
  /\ \A f \in FieldsOf(t) : f.flag # "none" => m[f.flag] \in BOOLEAN

\* A field that is not repeated, with its value.
LEMMA OneValue ==
  ASSUME NEW who, NEW f, f.kind \notin Repeated, NEW v \in Items(f)
  PROVE  IsValues(f, <<v>>) /\ ReadOf(who, f, <<v>>, Len(<<v>>)) = v /\ Len(<<v>>) # 0
<1>1. <<v>> \in Seq(Items(f)) /\ Len(<<v>>) = 1 /\ <<v>>[1] = v
  OBVIOUS
<1> QED BY <1>1 DEF IsValues, ReadOf, Repeated

\* A field that is not repeated, without a value.
LEMMA NoValue ==
  ASSUME NEW who, NEW f, f.kind \notin Repeated
  PROVE  IsValues(f, <<>>) /\ ReadOf(who, f, <<>>, Len(<<>>)) = ZeroOf(f.kind) /\ Len(<<>>) = 0
<1>1. <<>> \in Seq(Items(f)) /\ Len(<<>>) = 0
  OBVIOUS
<1> QED BY <1>1 DEF IsValues, ReadOf, Repeated

\* A repeated field.
LEMMA SeveralValues ==
  ASSUME NEW who, NEW f, Proper(f), f.kind \in Repeated, NEW vals \in Seq(Items(f)), NEW m,
         m[f.name] = vals
  PROVE  IsValues(f, vals) /\ IsTold(who, f, vals, m)
<1>1. f.flag = "none"
  BY DEF Proper, Flags, Repeated
<1>2. SubSeq(vals, 1, Len(vals)) = vals
  OBVIOUS
<1>3. ReadOf(who, f, vals, Len(vals)) = KeptValue(who, f, m)
  BY <1>2 DEF ReadOf, KeptValue, Repeated
<1> QED BY <1>1, <1>3 DEF IsValues, IsTold

\* What Marshal writes of a field is what there is to be read of it.
LEMMA WrittenTells ==
  ASSUME NEW who, NEW t \in Types, NEW f \in FieldsOf(t), NEW m, IsMessage(t, m)
  PROVE  IsValues(f, Written(f, m)) /\ IsTold(who, f, Written(f, m), m)
<1>1. /\ Proper(f) /\ m[f.name] \in ValuesOf(f)
      /\ f.flag # "none" => m[f.flag] \in BOOLEAN
  BY FieldsApart DEF IsMessage
<1> DEFINE vals == Written(f, m)
<1>2. CASE f.kind \in Repeated
  <2>1. vals = m[f.name] /\ m[f.name] \in Seq(Items(f))
    BY <1>1, <1>2 DEF Written, ValuesOf, Repeated
  <2> HIDE DEF vals
  <2> QED BY <1>1, <1>2, <2>1, SeveralValues DEF vals
<1>3. CASE f.kind \notin Repeated
  <2> DEFINE v == m[f.name]
  <2>1. v \in Items(f)
    BY <1>1, <1>3 DEF ValuesOf
  <2>2. ZeroOf("opt") = 0 /\ ZeroOf("include") = 0
    BY DEF ZeroOf
  <2>3. CASE f.kind = "include"
    <3>1. f.flag # "none" /\ m[f.flag] \in BOOLEAN
      BY <1>1, <2>3 DEF Proper, Flags
    <3>2. KeptValue(who, f, m) = (IF m[f.flag] THEN v ELSE 0) /\ KeptFlag(f, m) = FALSE
      BY <2>3 DEF KeptValue, KeptFlag
    <3>3. vals = IF m[f.flag] THEN <<v>> ELSE <<>>
      BY <2>3 DEF Written
    <3>4. \A w : FlagOf(f, Len(w)) = FALSE
      BY <2>3 DEF FlagOf
    <3> HIDE DEF vals, v
    <3>5. IsValues(f, vals) /\ ReadOf(who, f, vals, Len(vals)) = KeptValue(who, f, m)
      BY <1>3, <2>1, <2>2, <2>3, <3>1, <3>2, <3>3, OneValue, NoValue
    <3>6. FlagOf(f, Len(vals)) = KeptFlag(f, m)
      BY <3>2, <3>4, Zenon
    <3> QED BY <3>5, <3>6 DEF IsTold, vals
  <2>4. CASE f.kind = "opt"
    <3>1. f.flag # "none" /\ m[f.flag] \in BOOLEAN
      BY <1>1, <2>4 DEF Proper, Flags
    <3>2. KeptValue(who, f, m) = v
      BY <2>4 DEF KeptValue
    <3>3. vals = IF m[f.flag] \/ v # 0 THEN <<v>> ELSE <<>>
      BY <2>4 DEF Written
    <3>4. KeptFlag(f, m) <=> m[f.flag] \/ v # 0
      BY <2>4 DEF KeptFlag
    <3>5. \A w : FlagOf(f, Len(w)) <=> Len(w) # 0
      BY <2>4 DEF FlagOf
    <3> HIDE DEF vals, v
    <3>6. CASE m[f.flag] \/ v # 0
      <4>1. vals = <<v>> /\ KeptFlag(f, m)
        BY <3>3, <3>4, <3>6
      <4>2. IsValues(f, vals) /\ ReadOf(who, f, vals, Len(vals)) = v /\ Len(vals) # 0
        BY <1>3, <2>1, <4>1, OneValue
      <4>3. FlagOf(f, Len(vals))
        BY <3>5, <4>2
      <4> QED BY <3>2, <4>1, <4>2, <4>3 DEF IsTold, vals, KeptFlag, FlagOf
    <3>7. CASE ~(m[f.flag] \/ v # 0)
      <4>1. vals = <<>> /\ ~KeptFlag(f, m) /\ v = 0
        BY <3>3, <3>4, <3>7
      <4>2. IsValues(f, vals) /\ ReadOf(who, f, vals, Len(vals)) = ZeroOf("opt") /\ Len(vals) = 0
        BY <1>3, <2>4, <4>1, NoValue
      <4>3. ~FlagOf(f, Len(vals))
        BY <3>5, <4>2
      <4> QED BY <2>2, <3>2, <4>1, <4>2, <4>3 DEF IsTold, vals, KeptFlag, FlagOf
    <3> QED BY <3>6, <3>7
  <2>5. CASE f.kind \notin Flags
    <3>1. f.flag = "none"
      BY <1>1, <2>5 DEF Proper
    <3>2. KeptValue(who, f, m) = v
      BY <1>3, <2>5 DEF KeptValue, Flags, Repeated
    <3>3. vals = IF v = ZeroOf(f.kind) THEN <<>> ELSE <<v>>
      BY <1>3, <2>5 DEF Written, Flags, Repeated
    <3> HIDE DEF vals, v
    <3>4. IsValues(f, vals) /\ ReadOf(who, f, vals, Len(vals)) = v
      BY <1>3, <2>1, <3>3, OneValue, NoValue
    <3> QED BY <3>1, <3>2, <3>4 DEF IsTold, vals
  <2> QED BY <2>3, <2>4, <2>5 DEF Flags
<1> QED BY <1>2, <1>3

-----------------------------------------------------------------------------
(* What is written is a script.                                             *)

Part(f, vals) == [known |-> TRUE, field |-> f, values |-> vals]
Other(f, u) == [known |-> FALSE, field |-> f, values |-> IF u = <<>> THEN <<>> ELSE <<u>>]

\* The values of a field as a part of a script.
LEMMA PartIs ==
  ASSUME NEW who, NEW t \in Types, NEW f \in FieldsOf(t), NEW vals, IsValues(f, vals),
         Reads(who, f) \/ vals = <<>>
  PROVE  /\ IsPart(who, t, Part(f, vals)) /\ Segment(Part(f, vals)) = Encode(f, vals)
         /\ Encode(f, vals) \in Bytes
<1>1. IsPart(who, t, Part(f, vals))
  BY DEF IsPart, Part
<1>2. Pieces(Part(f, vals)) = [n \in 1..Len(vals) |-> Chunk(f, vals[n])]
  BY DEF Pieces, Part
<1>3. Segment(Part(f, vals)) = Encode(f, vals)
  BY <1>2 DEF Segment, Encode, Chunk
<1>4. Segment(Part(f, vals)) \in Bytes
  BY <1>1, PieceIs, EndsAre DEF Segment
<1> QED BY <1>1, <1>3, <1>4

\* The reader reads every field that is written of message m.
CanRead(who, t, m) == \A f \in FieldsOf(t) : Reads(who, f) \/ Written(f, m) = <<>>

\* The bytes have a script that tells message m.
Scripted(who, t, b, m) ==
  \E S, off : IsScript(who, S, off, t, b) /\ Tells(who, S, t, m)

\* What Marshal writes of a message is a script that tells it.
LEMMA MarshalScript ==
  ASSUME NEW who, NEW t \in Types, NEW m, IsMessage(t, m), CanRead(who, t, m),
         Fits(who, Marshal(t, m))
  PROVE  Scripted(who, t, Marshal(t, m), m)
<1> DEFINE F == Fields[t]
           N == Len(F)
           S == [k \in 1..N |-> Part(F[k], Written(F[k], m))]
           segs == Segments(S)
           off == Ends(segs)
<1>1. /\ N \in Nat \ {0} /\ FieldsOf(t) = {F[k] : k \in 1..N}
      /\ \A k, l \in 1..N : k # l => F[k].num # F[l].num
  BY TypesWellFormed DEF WellFormed, Apart, FieldsOf
<1> HIDE DEF F
<1>2. Len(S) = N
  BY <1>1
<1>3. ASSUME NEW k \in 1..N
      PROVE  /\ F[k] \in FieldsOf(t) /\ IsTold(who, F[k], Written(F[k], m), m)
             /\ IsPart(who, t, Part(F[k], Written(F[k], m)))
             /\ Segment(Part(F[k], Written(F[k], m))) = Encode(F[k], Written(F[k], m))
             /\ Encode(F[k], Written(F[k], m)) \in Bytes
  <2>1. F[k] \in FieldsOf(t)
    BY <1>1
  <2>2. Reads(who, F[k]) \/ Written(F[k], m) = <<>>
    BY <2>1 DEF CanRead
  <2>3. IsValues(F[k], Written(F[k], m)) /\ IsTold(who, F[k], Written(F[k], m), m)
    BY <2>1, WrittenTells
  <2> QED BY <2>1, <2>2, <2>3, PartIs
<1>4. segs = [k \in 1..N |-> Encode(F[k], Written(F[k], m))]
  <2>1. \A k \in 1..N : Segment(S[k]) = Encode(F[k], Written(F[k], m))
    BY <1>3
  <2> HIDE DEF S
  <2>2. segs = [k \in 1..N |-> Segment(S[k])]
    BY <1>2 DEF Segments
  <2> QED BY <2>1, <2>2
<1>5. segs \in Seq(Bytes) /\ Len(segs) = N
  <2>1. segs \in [1..N -> Bytes]
    BY <1>3, <1>4
  <2> HIDE DEF segs
  <2> QED BY <1>1, <2>1
<1>6. Marshal(t, m) = FlattenSeq(segs)
  BY <1>4 DEF Marshal, F
<1> HIDE DEF segs
<1>7. /\ IsCut(off, segs) /\ Marshal(t, m) \in Bytes /\ Len(Marshal(t, m)) = off[N]
      /\ \A k \in 1..N : Holds(Marshal(t, m), off[k - 1] + 1, segs[k])
  BY <1>5, <1>6, EndsLaid DEF Laid
<1>8. \A k \in 1..N : S[k].known /\ S[k].field = F[k] /\ S[k].values = Written(F[k], m)
  BY DEF Part
<1>9. \A k \in 1..N : IsPart(who, t, S[k]) /\ segs[k] = Segment(S[k])
  BY <1>3, <1>4
<1> HIDE DEF S, off
<1>10. IsScript(who, S, off, t, Marshal(t, m))
  BY <1>1, <1>2, <1>7, <1>8, <1>9 DEF IsScript, segs
<1>11. Tells(who, S, t, m)
  <2>1. \A f \in FieldsOf(t) : ~Untold(S, f)
    BY <1>1, <1>2, <1>8 DEF Untold
  <2>2. \A k \in 1..N : IsTold(who, S[k].field, S[k].values, m)
    BY <1>3, <1>8
  <2> QED BY <1>2, <2>1, <2>2 DEF Tells
<1> QED BY <1>10, <1>11 DEF Scripted

\* The bytes of a field that this library does not know are passed over.
LEMMA VarintSkipped ==
  ASSUME NEW b \in Bytes, NEW i \in Nat \ {0}, i + 2 <= Len(b), b[i + 1] >= 128, b[i + 2] < 128
  PROVE  ReadVarint(b, i + 1).next = i + 3
<1> DEFINE ends == {j \in (i + 1)..Len(b) : b[j] < 128}
           last == CHOOSE j \in ends : \A k \in ends : j <= k
<1>1. Len(b) \in Nat /\ \A k \in 1..Len(b) : b[k] \in Nat
  BY InSeq, ByteIs DEF Bytes
<1>2. i + 2 \in ends /\ \A k \in ends : i + 2 <= k /\ k \in Nat
  <2>1. i + 2 \in ends
    BY <1>1
  <2>2. ASSUME NEW k \in ends PROVE i + 2 <= k /\ k \in Nat
    <3>1. k \in Nat /\ k >= i + 1 /\ b[k] < 128 /\ k \in 1..Len(b)
      BY <1>1
    <3>2. k # i + 1
      BY <1>1, <3>1
    <3> QED BY <3>1, <3>2
  <2> QED BY <2>1, <2>2
<1>3. ReadVarint(b, i + 1).next = last + 1
  BY <1>2 DEF ReadVarint
<1> HIDE DEF ends
<1>4. last \in ends /\ \A k \in ends : last <= k
  BY <1>2
<1> HIDE DEF last
<1>5. last = i + 2
  BY <1>2, <1>4
<1> QED BY <1>3, <1>5

\* Unmarshal passes over a field of a later version in one turn.
LEMMA UnknownSkipped ==
  ASSUME NEW t \in Types, NEW u \in Unknown(t), u # <<>>
  PROVE  Skipped("library", t, u)
<1> DEFINE free == (1..15) \ {f.num : f \in FieldsOf(t)}
           n == CHOOSE n \in free : TRUE
<1>1. free # {}
  BY DEF Unknown
<1>2. n \in 1..15 /\ \A f \in FieldsOf(t) : f.num # n
  BY <1>1
<1>3. u \in {<<8 * n, 200, 1>>, <<8 * n + 1, 8, 9, 10, 11, 12, 13, 14, 15>>,
             <<8 * n + 5, 8, 9, 10, 11>>}
  BY <1>1 DEF Unknown
<1> HIDE DEF free, n
<1>4. ASSUME NEW b \in Bytes, NEW i \in Nat \ {0}, Holds(b, i, u), NEW m, NEW w \in 0..7,
             u[1] = 8 * n + w, Len(u) \in Nat, Len(u) >= 2,
             SkipEnd(b, i + 1, w) = i + Len(u)
      PROVE  Turn("library", t, b, i, m) = [pos |-> i + Len(u), msg |-> m]
  <2>1. 1 \in 1..Len(u) /\ i + 1 - 1 = i
    BY <1>4
  <2>2. b[i] = 8 * n + w
    BY <1>4, <2>1 DEF Holds
  <2>3. (8 * n + w) \div 8 = n /\ (8 * n + w) % 8 = w
    BY <1>2, <1>4
  <2>4. {f \in FieldsOf(t) : f.num = b[i] \div 8} = {}
    BY <1>2, <2>2, <2>3
  <2>5. ~(i + 1 > Len(b))
    BY <1>4, InSeq DEF Holds, Bytes
  <2>6. ParseField(t, b, i, m) = [pos |-> SkipEnd(b, i + 1, b[i] % 8), msg |-> m]
    BY <2>4, <2>5 DEF ParseField
  <2>7. Turn("library", t, b, i, m) = ParseField(t, b, i, m)
    BY DEF Turn
  <2> QED BY <1>4, <2>2, <2>3, <2>6, <2>7
<1>5. CASE u = <<8 * n, 200, 1>>
  <2>1. u \in Bytes /\ Len(u) = 3 /\ u[1] = 8 * n + 0 /\ u[2] = 200 /\ u[3] = 1
    <3>1. 8 * n \in Byte /\ 200 \in Byte /\ 1 \in Byte
      BY <1>2, ByteIs
    <3> QED BY <1>2, <1>5, <3>1 DEF Bytes
  <2>2. ASSUME NEW b \in Bytes, NEW i \in Nat \ {0}, Holds(b, i, u)
        PROVE  SkipEnd(b, i + 1, 0) = i + Len(u)
    <3>1. i + 3 - 1 <= Len(b) /\ Len(b) \in Nat
      BY <2>1, <2>2, InSeq DEF Holds, Bytes
    <3>2. b[i + 2 - 1] = 200 /\ b[i + 3 - 1] = 1
      BY <2>1, <2>2 DEF Holds
    <3>3. i + 2 - 1 = i + 1 /\ i + 3 - 1 = i + 2
      OBVIOUS
    <3>4. ReadVarint(b, i + 1).next = i + 3
      BY <3>1, <3>2, <3>3, VarintSkipped
    <3> QED BY <2>1, <3>1, <3>4 DEF SkipEnd
  <2>3. 0 \in 0..7 /\ Len(u) \in Nat /\ Len(u) >= 2
    BY <2>1
  <2> QED BY <1>4, <2>1, <2>2, <2>3 DEF Skipped
<1>6. CASE u = <<8 * n + 1, 8, 9, 10, 11, 12, 13, 14, 15>>
  <2>1. u \in Bytes /\ Len(u) = 9 /\ u[1] = 8 * n + 1
    <3>1. /\ 8 * n + 1 \in Byte /\ 8 \in Byte /\ 9 \in Byte /\ 10 \in Byte /\ 11 \in Byte
          /\ 12 \in Byte /\ 13 \in Byte /\ 14 \in Byte /\ 15 \in Byte
      BY <1>2, ByteIs
    <3> QED BY <1>6, <3>1 DEF Bytes
  <2>2. ASSUME NEW b \in Bytes, NEW i \in Nat \ {0}, Holds(b, i, u)
        PROVE  SkipEnd(b, i + 1, 1) = i + Len(u)
    <3>1. i + 9 - 1 <= Len(b) /\ Len(b) \in Nat
      BY <2>1, <2>2, InSeq DEF Holds, Bytes
    <3> QED BY <2>1, <3>1 DEF SkipEnd
  <2>3. 1 \in 0..7 /\ Len(u) \in Nat /\ Len(u) >= 2
    BY <2>1
  <2> QED BY <1>4, <2>1, <2>2, <2>3 DEF Skipped
<1>7. CASE u = <<8 * n + 5, 8, 9, 10, 11>>
  <2>1. u \in Bytes /\ Len(u) = 5 /\ u[1] = 8 * n + 5
    <3>1. 8 * n + 5 \in Byte /\ 8 \in Byte /\ 9 \in Byte /\ 10 \in Byte /\ 11 \in Byte
      BY <1>2, ByteIs
    <3> QED BY <1>7, <3>1 DEF Bytes
  <2>2. ASSUME NEW b \in Bytes, NEW i \in Nat \ {0}, Holds(b, i, u)
        PROVE  SkipEnd(b, i + 1, 5) = i + Len(u)
    <3>1. i + 5 - 1 <= Len(b) /\ Len(b) \in Nat
      BY <2>1, <2>2, InSeq DEF Holds, Bytes
    <3> QED BY <2>1, <3>1 DEF SkipEnd
  <2>3. 5 \in 0..7 /\ Len(u) \in Nat /\ Len(u) >= 2
    BY <2>1
  <2> QED BY <1>4, <2>1, <2>2, <2>3 DEF Skipped
<1> QED BY <1>3, <1>5, <1>6, <1>7

\* What a server tells of a field, and the bytes it writes with that.
ToldValues(f, v) == IF f.kind \in Repeated THEN v ELSE <<v>>
TwoFields(t, f, x, g, y) == With(With(Zero(t), f, x, TRUE), g, y, TRUE)
ServerBytes(f, x, u, g, y) ==
  Encode(f, ToldValues(f, x)) \o u \o Encode(g, ToldValues(g, y))

\* With sets a field and its flag, and nothing else.
LEMMA WithIs ==
  ASSUME NEW t \in Types, NEW f \in FieldsOf(t), NEW m, Named(t, m), NEW x, NEW flag
  PROVE  /\ Named(t, With(m, f, x, flag)) /\ With(m, f, x, flag)[f.name] = x
         /\ f.flag # "none" => With(m, f, x, flag)[f.flag] = flag
         /\ \A g \in FieldsOf(t) \ {f} :
              /\ With(m, f, x, flag)[g.name] = m[g.name]
              /\ g.flag # "none" => With(m, f, x, flag)[g.flag] = m[g.flag]
<1> DEFINE N == NamesOf(t)
           m2 == With(m, f, x, flag)
<1>1. /\ f.name \in N /\ f.name # f.flag /\ (f.flag # "none" => f.flag \in N)
      /\ m = [z \in N |-> m[z]]
  BY NamesIn, FieldsApart DEF Named
<1>2. ASSUME NEW g \in FieldsOf(t) \ {f}
      PROVE  /\ g.name \in N /\ g.name # f.name /\ g.name # f.flag
             /\ g.flag # "none" => g.flag \in N /\ g.flag # f.name /\ g.flag # f.flag
  BY NamesIn, FieldsApart DEF Apart
<1>3. m2 = IF f.flag = "none" THEN [m EXCEPT ![f.name] = x]
           ELSE [m EXCEPT ![f.name] = x, ![f.flag] = flag]
  BY DEF With
<1> HIDE DEF N, m2
<1>4. CASE f.flag = "none"
  <2>1. m2[f.name] = x /\ \A z \in N : z # f.name => m2[z] = m[z]
    BY <1>1, <1>3, <1>4
  <2>2. m2 = [z \in N |-> m2[z]]
    BY <1>1, <1>3, <1>4
  <2> QED BY <1>2, <1>4, <2>1, <2>2 DEF Named, N, m2
<1>5. CASE f.flag # "none"
  <2>1. /\ m2[f.name] = x /\ m2[f.flag] = flag
        /\ \A z \in N : z # f.name /\ z # f.flag => m2[z] = m[z]
    BY <1>1, <1>3, <1>5
  <2>2. m2 = [z \in N |-> m2[z]]
    BY <1>1, <1>3, <1>5
  <2> QED BY <1>2, <1>5, <2>1, <2>2 DEF Named, N, m2
<1> QED BY <1>4, <1>5

\* What a server tells of a field is what there is to be read of it.
LEMMA ToldTells ==
  ASSUME NEW who, NEW t \in Types, NEW f \in FieldsOf(t), NEW v \in ValuesOf(f), NEW m,
         m[f.name] = v, f.flag # "none" => m[f.flag] = TRUE
  PROVE  IsValues(f, ToldValues(f, v)) /\ IsTold(who, f, ToldValues(f, v), m)
<1>1. Proper(f)
  BY FieldsApart
<1>2. CASE f.kind \in Repeated
  <2>1. v \in Seq(Items(f)) /\ ToldValues(f, v) = v
    BY <1>2 DEF ValuesOf, ToldValues
  <2> QED BY <1>1, <1>2, <2>1, SeveralValues
<1>3. CASE f.kind \notin Repeated
  <2> DEFINE vals == <<v>>
  <2>1. v \in Items(f) /\ ToldValues(f, v) = vals
    BY <1>3 DEF ValuesOf, ToldValues
  <2>2. IsValues(f, vals) /\ ReadOf(who, f, vals, Len(vals)) = v /\ Len(vals) # 0
    BY <1>3, <2>1, OneValue
  <2> HIDE DEF vals
  <2>3. f.flag # "none" => m[f.flag]
    OBVIOUS
  <2>4. KeptValue(who, f, m) = v
    BY <1>1, <1>3, <2>3 DEF KeptValue, Proper, Flags, Repeated
  <2>5. f.flag # "none" => FlagOf(f, Len(vals)) = KeptFlag(f, m)
    BY <2>2, <2>3 DEF FlagOf, KeptFlag
  <2> QED BY <2>1, <2>2, <2>4, <2>5 DEF IsTold
<1> QED BY <1>2, <1>3

\* Of a field with its zero value there is nothing to tell.
LEMMA ZeroTells ==
  ASSUME NEW who, NEW t \in Types, NEW f \in FieldsOf(t), NEW m,
         m[f.name] = Zero(t)[f.name], f.flag # "none" => m[f.flag] = Zero(t)[f.flag]
  PROVE  IsTold(who, f, <<>>, m)
<1>1. Proper(f) /\ IsValues(f, <<>>)
  BY FieldsApart DEF IsValues
<1>2. Has(who, f, <<>>, 0, Zero(t)) /\ Len(<<>>) = 0
  BY <1>1, ZeroHas
<1>3. m[f.name] = ReadOf(who, f, <<>>, 0)
  BY <1>2 DEF Has
<1>4. f.flag # "none" => ~m[f.flag]
  BY <1>2 DEF Has, FlagOf
<1>5. ReadOf(who, f, <<>>, 0) = KeptValue(who, f, m)
  <2>1. CASE f.kind = "strings"
    <3>1. <<>> \in Seq(Strings) /\ Len(<<>>) = 0 /\ SubSeq(<<>>, 1, 0) = <<>>
      OBVIOUS
    <3>2. ReadOf(who, f, <<>>, 0) = <<>>
      BY <2>1, <3>1, NonEmptyIs DEF ReadOf
    <3>3. m[f.name] = <<>>
      BY <1>3, <3>2
    <3>4. NonEmpty(<<>>)[Len(<<>>)] = <<>>
      BY <3>1, NonEmptyIs
    <3>5. KeptValue(who, f, m) = NonEmpty(<<>>)[Len(<<>>)] \/ KeptValue(who, f, m) = <<>>
      BY <2>1, <3>3 DEF KeptValue
    <3> QED BY <3>2, <3>4, <3>5
  <2>2. CASE f.kind = "include"
    <3>1. ReadOf(who, f, <<>>, 0) = 0
      BY <2>2 DEF ReadOf, ZeroOf
    <3>2. f.flag # "none"
      BY <1>1, <2>2 DEF Proper, Flags
    <3> QED BY <1>4, <2>2, <3>1, <3>2 DEF KeptValue
  <2>3. CASE f.kind \notin {"strings", "include"}
    BY <1>3, <2>3 DEF KeptValue
  <2> QED BY <2>1, <2>2, <2>3
<1>6. f.flag # "none" => FlagOf(f, 0) = KeptFlag(f, m)
  <2>1. f.kind = "opt" => m[f.name] = 0
    BY <1>3 DEF ReadOf, ZeroOf
  <2>2. f.flag # "none" => ~FlagOf(f, 0) /\ ~KeptFlag(f, m)
    BY <1>4, <2>1 DEF FlagOf, KeptFlag
  <2> QED BY <2>2 DEF FlagOf, KeptFlag
<1> QED BY <1>2, <1>5, <1>6 DEF IsTold

\* Bytes that are passed over as a part of a script.
LEMMA OtherIs ==
  ASSUME NEW t \in Types, NEW f, NEW u \in Bytes, u = <<>> \/ Skipped("library", t, u)
  PROVE  IsPart("library", t, Other(f, u)) /\ Segment(Other(f, u)) = u
<1> DEFINE e == Other(f, u)
           q == Pieces(e)
<1>1. ~e.known /\ e.values = IF u = <<>> THEN <<>> ELSE <<u>>
  BY DEF Other
<1> HIDE DEF e
<1>2. IsPart("library", t, e)
  BY <1>1 DEF IsPart
<1>3. q = e.values
  BY <1>1 DEF Pieces
<1>4. /\ q \in Seq(Bytes) /\ Ends(q) \in [0..Len(q) -> Nat] /\ Ends(q)[0] = 0
      /\ \A k \in 1..Len(q) : Ends(q)[k] = Ends(q)[k - 1] + Len(q[k])
      /\ \A k \in 1..Len(q) : Holds(FlattenSeq(q), Ends(q)[k - 1] + 1, q[k])
      /\ FlattenSeq(q) \in Bytes /\ Len(FlattenSeq(q)) = Ends(q)[Len(q)]
  BY <1>2, PieceIs, EndsAre
<1> HIDE DEF q
<1>5. CASE u = <<>>
  <2>1. Len(q) = 0
    BY <1>1, <1>3, <1>5
  <2>2. Len(FlattenSeq(q)) = 0
    BY <1>4, <2>1
  <2>3. FlattenSeq(q) = <<>>
    BY <1>4, <2>2 DEF Bytes
  <2> QED BY <1>2, <1>5, <2>3 DEF Segment, e, q
<1>6. CASE u # <<>>
  <2>1. Len(q) = 1 /\ q[1] = u
    BY <1>1, <1>3, <1>6
  <2>2. 1 \in 1..Len(q) /\ 1 - 1 = 0 /\ 0 + 1 = 1 /\ Len(u) \in Nat
    BY <2>1, InSeq DEF Bytes
  <2>3. Ends(q)[1] = Len(u)
    BY <1>4, <2>1, <2>2
  <2>4. Holds(FlattenSeq(q), 1, u) /\ Len(FlattenSeq(q)) = Len(u)
    BY <1>4, <2>1, <2>2, <2>3
  <2> DEFINE w == FlattenSeq(q)
  <2>5. w \in Bytes /\ Holds(w, 1, u) /\ Len(w) = Len(u)
    BY <1>4, <2>4
  <2> HIDE DEF w
  <2>6. SubSeq(w, 1, 1 + Len(u) - 1) = u
    BY <2>5, HeldSubSeq
  <2>7. 1 + Len(u) - 1 = Len(w)
    BY <2>2, <2>5
  <2>8. SubSeq(w, 1, Len(w)) = w
    BY <2>5 DEF Bytes
  <2> QED BY <1>2, <2>6, <2>7, <2>8 DEF Segment, e, q, w
<1> QED BY <1>5, <1>6

\* Three pieces of bytes, one after the other.
LEMMA ThreeLaid ==
  ASSUME NEW u \in Bytes, NEW v \in Bytes, NEW w \in Bytes
  PROVE  /\ u \o v \o w \in Bytes /\ Len(u \o v \o w) = Len(u) + Len(v) + Len(w)
         /\ Len(u) \in Nat /\ Len(v) \in Nat /\ Len(w) \in Nat
         /\ Holds(u \o v \o w, 1, u) /\ Holds(u \o v \o w, Len(u) + 1, v)
         /\ Holds(u \o v \o w, Len(u) + Len(v) + 1, w)
<1> DEFINE h == u \o v
<1>1. /\ h \in Bytes /\ Len(h) = Len(u) + Len(v) /\ Len(u) \in Nat /\ Len(v) \in Nat
      /\ Holds(h, 1, u) /\ Holds(h, Len(u) + 1, v)
  BY ConcatIs, ConcatHolds
<1> HIDE DEF h
<1>2. /\ h \o w \in Bytes /\ Len(h \o w) = Len(h) + Len(w) /\ Len(w) \in Nat
      /\ Holds(h \o w, Len(h) + 1, w)
      /\ \A s \in Bytes, i \in Nat \ {0} : Holds(h, i, s) => Holds(h \o w, i, s)
  BY <1>1, ConcatIs, ConcatHolds
<1>3. Len(u) + 1 \in Nat \ {0} /\ 1 \in Nat \ {0}
  BY <1>1
<1>4. Holds(h \o w, 1, u) /\ Holds(h \o w, Len(u) + 1, v)
  BY <1>1, <1>2, <1>3
<1> QED BY <1>1, <1>2, <1>4 DEF h

\* Message m has x in field f, y in field g, and nothing else.
OnlyHas(t, f, x, g, y, m) ==
  /\ m[f.name] = x /\ m[g.name] = y
  /\ f.flag # "none" => m[f.flag] = TRUE
  /\ g.flag # "none" => m[g.flag] = TRUE
  /\ \A h \in FieldsOf(t) : h # f /\ h # g =>
       /\ m[h.name] = Zero(t)[h.name]
       /\ h.flag # "none" => m[h.flag] = Zero(t)[h.flag]

\* TwoFields has the two values and nothing else.
LEMMA TwoFieldsIs ==
  ASSUME NEW t \in Types, NEW f \in FieldsOf(t), NEW g \in FieldsOf(t), f # g, NEW x, NEW y
  PROVE  OnlyHas(t, f, x, g, y, TwoFields(t, f, x, g, y))
<1> DEFINE yes == TRUE
           m1 == With(Zero(t), f, x, yes)
           m2 == With(m1, g, y, yes)
<1>1. Named(t, Zero(t))
  BY ZeroNamed
<1>2. TwoFields(t, f, x, g, y) = m2
  BY DEF TwoFields
<1>3. yes = TRUE
  OBVIOUS
<1> HIDE DEF yes
<1>4. /\ Named(t, m1) /\ m1[f.name] = x /\ (f.flag # "none" => m1[f.flag] = yes)
      /\ \A h \in FieldsOf(t) \ {f} :
           /\ m1[h.name] = Zero(t)[h.name]
           /\ h.flag # "none" => m1[h.flag] = Zero(t)[h.flag]
  BY <1>1, WithIs
<1> HIDE DEF m1
<1>5. /\ m2[g.name] = y /\ (g.flag # "none" => m2[g.flag] = yes)
      /\ \A h \in FieldsOf(t) \ {g} :
           /\ m2[h.name] = m1[h.name]
           /\ h.flag # "none" => m2[h.flag] = m1[h.flag]
  BY <1>4, WithIs
<1> HIDE DEF m2
<1>6. /\ m2[f.name] = x /\ m2[g.name] = y
      /\ \A h \in FieldsOf(t) : h # f /\ h # g =>
           /\ m2[h.name] = Zero(t)[h.name]
           /\ h.flag # "none" => m2[h.flag] = Zero(t)[h.flag]
  BY <1>4, <1>5
<1>7. /\ f.flag # "none" => m2[f.flag] = yes
      /\ g.flag # "none" => m2[g.flag] = yes
  BY <1>4, <1>5
<1>8. /\ f.flag # "none" => m2[f.flag] = TRUE
      /\ g.flag # "none" => m2[g.flag] = TRUE
  BY <1>3, <1>7, Zenon
<1> QED BY <1>2, <1>6, <1>8 DEF OnlyHas

\* What a server writes is a script that tells it.
LEMMA ServerScript ==
  ASSUME NEW t \in Types, NEW f \in FieldsOf(t), NEW g \in FieldsOf(t), f # g,
         f.num < 16, g.num < 16, NEW x \in ValuesOf(f), NEW y \in ValuesOf(g),
         NEW u \in Bytes, u = <<>> \/ Skipped("library", t, u),
         Fits("library", ServerBytes(f, x, u, g, y))
  PROVE  Scripted("library", t, ServerBytes(f, x, u, g, y), TwoFields(t, f, x, g, y))
<1> DEFINE m == TwoFields(t, f, x, g, y)
           A == ToldValues(f, x)
           B == ToldValues(g, y)
           a == Encode(f, A)
           c == Encode(g, B)
           b == ServerBytes(f, x, u, g, y)
           S == <<Part(f, A), Other(f, u), Part(g, B)>>
           off == [k \in 0..3 |-> IF k = 0 THEN 0 ELSE IF k = 1 THEN Len(a)
                                  ELSE IF k = 2 THEN Len(a) + Len(u)
                                  ELSE Len(a) + Len(u) + Len(c)]
<1>1. OnlyHas(t, f, x, g, y, m)
  <2> HIDE DEF A, B, a, c, b, S, off
  <2> QED BY TwoFieldsIs
<1> HIDE DEF m
<1>2. /\ IsValues(f, A) /\ IsTold("library", f, A, m) /\ IsValues(g, B) /\ IsTold("library", g, B, m)
  BY <1>1, ToldTells DEF OnlyHas
<1>3. \A h \in FieldsOf(t) : h # f /\ h # g => IsTold("library", h, <<>>, m)
  BY <1>1, ZeroTells DEF OnlyHas
<1> HIDE DEF A, B
<1>4. /\ IsPart("library", t, Part(f, A)) /\ Segment(Part(f, A)) = a /\ a \in Bytes
      /\ IsPart("library", t, Part(g, B)) /\ Segment(Part(g, B)) = c /\ c \in Bytes
      /\ IsPart("library", t, Other(f, u)) /\ Segment(Other(f, u)) = u
  <2>1. Reads("library", f) /\ Reads("library", g)
    BY DEF Reads
  <2> QED BY <1>2, <2>1, PartIs, OtherIs
<1>5. b = a \o u \o c
  BY DEF ServerBytes, A, B
<1> HIDE DEF a, c, b
<1>6. /\ b \in Bytes /\ Len(b) = Len(a) + Len(u) + Len(c)
      /\ Len(a) \in Nat /\ Len(u) \in Nat /\ Len(c) \in Nat
      /\ Holds(b, 1, a) /\ Holds(b, Len(a) + 1, u) /\ Holds(b, Len(a) + Len(u) + 1, c)
  BY <1>4, <1>5, ThreeLaid
<1>7. /\ Len(S) = 3 /\ S[1] = Part(f, A) /\ S[2] = Other(f, u) /\ S[3] = Part(g, B)
  OBVIOUS
<1>8. /\ off \in [0..3 -> Nat] /\ off[0] = 0 /\ off[1] = Len(a)
      /\ off[2] = Len(a) + Len(u) /\ off[3] = Len(a) + Len(u) + Len(c)
  BY <1>6
<1>9. /\ S[1].known /\ S[1].field = f /\ S[1].values = A
      /\ ~S[2].known
      /\ S[3].known /\ S[3].field = g /\ S[3].values = B
  BY <1>7 DEF Part, Other
<1>10. /\ Segment(S[1]) = a /\ Segment(S[2]) = u /\ Segment(S[3]) = c
       /\ IsPart("library", t, S[1]) /\ IsPart("library", t, S[2]) /\ IsPart("library", t, S[3])
  BY <1>4, <1>7
<1> HIDE DEF S, off
<1>11. \A k \in 1..Len(S) : k = 1 \/ k = 2 \/ k = 3
  BY <1>7
<1>12. IsCut(off, Segments(S))
  <2>1. /\ Len(Segments(S)) = 3 /\ Segments(S)[1] = a /\ Segments(S)[2] = u
        /\ Segments(S)[3] = c
    BY <1>7, <1>10 DEF Segments
  <2>2. \A k \in 1..3 : k = 1 \/ k = 2 \/ k = 3
    OBVIOUS
  <2>3. 1 - 1 = 0 /\ 2 - 1 = 1 /\ 3 - 1 = 2
    OBVIOUS
  <2>4. /\ off[1] = off[1 - 1] + Len(a) /\ off[2] = off[2 - 1] + Len(u)
        /\ off[3] = off[3 - 1] + Len(c)
    BY <1>6, <1>8, <2>3, SMTT(20)
  <2> QED BY <1>8, <2>1, <2>2, <2>4 DEF IsCut
<1>13. \A k \in 1..Len(S) : Holds(b, off[k - 1] + 1, Segment(S[k]))
  <2>1. 1 - 1 = 0 /\ 2 - 1 = 1 /\ 3 - 1 = 2
    OBVIOUS
  <2>2. off[0] + 1 = 1 /\ off[1] + 1 = Len(a) + 1 /\ off[2] + 1 = Len(a) + Len(u) + 1
    BY <1>6, <1>8
  <2>3. /\ Holds(b, off[1 - 1] + 1, Segment(S[1])) /\ Holds(b, off[2 - 1] + 1, Segment(S[2]))
        /\ Holds(b, off[3 - 1] + 1, Segment(S[3]))
    BY <1>6, <1>10, <2>1, <2>2
  <2> QED BY <1>11, <2>3
<1>14. \A k, l \in 1..Len(S) :
         S[k].known /\ S[l].known /\ S[k].field = S[l].field => k = l
  BY <1>9, <1>11
<1>15. IsScript("library", S, off, t, b)
  <2>1. Fits("library", b)
    BY DEF b
  <2> QED BY <2>1, <1>6, <1>7, <1>8, <1>10, <1>11, <1>12, <1>13, <1>14 DEF IsScript
<1>16. Tells("library", S, t, m)
  <2>1. \A k \in 1..Len(S) : S[k].known => IsTold("library", S[k].field, S[k].values, m)
    BY <1>2, <1>9, <1>11
  <2>2. ASSUME NEW h \in FieldsOf(t), Untold(S, h) PROVE h # f /\ h # g
    BY <1>7, <1>9, <2>2 DEF Untold
  <2> QED BY <1>3, <2>1, <2>2 DEF Tells
<1> QED BY <1>15, <1>16 DEF b, m, Scripted

-----------------------------------------------------------------------------
(* The machine.                                                             *)

\* The samples are values a field can have.
LEMMA SamplesAre ==
  ASSUME NEW t \in Types, NEW f \in FieldsOf(t)
  PROVE  Samples(f) \subseteq ValuesOf(f)
<1>1. /\ U32 \in Nat /\ U64 \in Nat /\ U32 <= U64
      /\ Numbers \subseteq 0..(U32 - 1) /\ Texts \subseteq Seq(0..255)
      /\ \A s \in Texts : Len(s) < U64
  BY WireConstants
<1>2. Proper(f)
  BY FieldsApart
<1>3. Texts \subseteq Strings
  BY <1>1 DEF Strings, Bytes, Byte
<1>4. CASE f.kind = "strings"
  <2>1. Samples(f) = {<<>>} \union {<<s, u>> : s, u \in Texts} /\ ValuesOf(f) = Seq(Strings)
    BY <1>4 DEF Samples, ValuesOf, Repeated, Items
  <2>2. \A s, u \in Texts : <<s, u>> \in Seq(Strings)
    BY <1>3
  <2>3. <<>> \in Seq(Strings)
    OBVIOUS
  <2>4. ASSUME NEW z \in Samples(f) PROVE z \in Seq(Strings)
    <3>1. z = <<>> \/ \E s, u \in Texts : z = <<s, u>>
      BY <2>1
    <3> QED BY <2>2, <2>3, <3>1
  <2> QED BY <2>1, <2>4
<1>5. CASE f.kind \in {"numbers", "delimited"}
  <2> DEFINE X == 0..(U32 - 1)
  <2>1. Samples(f) = {<<>>} \union {<<x, y>> : x, y \in Numbers} /\ ValuesOf(f) = Seq(X)
    BY <1>5 DEF Samples, ValuesOf, Repeated, Items
  <2>2. Numbers \subseteq X
    BY <1>1
  <2> HIDE DEF X
  <2>3. \A x, y \in Numbers : <<x, y>> \in Seq(X)
    BY <2>2
  <2>4. <<>> \in Seq(X)
    OBVIOUS
  <2>5. ASSUME NEW z \in Samples(f) PROVE z \in Seq(X)
    <3>1. z = <<>> \/ \E x, y \in Numbers : z = <<x, y>>
      BY <2>1
    <3> QED BY <2>3, <2>4, <3>1
  <2> QED BY <2>1, <2>5
<1>6. CASE f.kind = "float64"
  <2>1. Samples(f) = {Float0, [k \in 1..8 |-> 8 * k]} /\ ValuesOf(f) = [1..8 -> Byte]
    BY <1>6 DEF Samples, ValuesOf, Repeated, Items
  <2>2. Float0 \in [1..8 -> Byte]
    BY ByteIs DEF Float0
  <2>3. [k \in 1..8 |-> 8 * k] \in [1..8 -> Byte]
    BY ByteIs
  <2> QED BY <2>1, <2>2, <2>3
<1>7. CASE f.kind \in {"bool", "string", "int32"}
  BY <1>3, <1>7 DEF Samples, ValuesOf, Repeated, Items
<1>8. CASE f.kind \in {"uint32", "uint64"} \union Flags
  <2>1. Samples(f) = Numbers
    BY <1>8 DEF Samples, Flags
  <2>2. Items(f) = 0..(U32 - 1) \/ Items(f) = 0..(U64 - 1)
    BY <1>8 DEF Items, Flags
  <2>3. ValuesOf(f) = Items(f)
    BY <1>8 DEF ValuesOf, Repeated, Flags
  <2>4. 0..(U32 - 1) \subseteq 0..(U64 - 1)
    BY <1>1
  <2> QED BY <1>1, <2>1, <2>2, <2>3, <2>4
<1> QED BY <1>2, <1>4, <1>5, <1>6, <1>7, <1>8 DEF Proper, Kinds, Repeated

\* A new message is a message.
LEMMA ZeroIsMessage == \A t \in Types : IsMessage(t, Zero(t))
<1> SUFFICES ASSUME NEW t \in Types PROVE IsMessage(t, Zero(t))
  OBVIOUS
<1>1. ASSUME NEW f \in FieldsOf(t)
      PROVE  /\ Zero(t)[f.name] \in ValuesOf(f)
             /\ f.flag # "none" => Zero(t)[f.flag] \in BOOLEAN
  <2>1. Proper(f) /\ IsValues(f, <<>>)
    BY FieldsApart DEF IsValues
  <2>2. Has("library", f, <<>>, 0, Zero(t))
    BY <2>1, ZeroHas
  <2>3. f.flag # "none" => Zero(t)[f.flag] \in BOOLEAN
    BY <2>2 DEF Has, FlagOf
  <2>4. Zero(t)[f.name] = ReadOf("library", f, <<>>, 0)
    BY <2>2 DEF Has
  <2>5. U32 \in Nat /\ U64 \in Nat /\ U32 >= 2 /\ U32 <= U64
    BY WireConstants
  <2>6. CASE f.kind \in Repeated
    <3>1. <<>> \in Seq(Strings) /\ <<>> \in Seq(Items(f)) /\ SubSeq(<<>>, 1, 0) = <<>>
      OBVIOUS
    <3>2. NonEmpty(<<>>)[0] = <<>>
      BY <3>1, NonEmptyIs
    <3>3. ReadOf("library", f, <<>>, 0) = <<>>
      BY <2>6, <3>1, <3>2 DEF ReadOf, Repeated
    <3>4. ValuesOf(f) = Seq(Items(f))
      BY <2>6 DEF ValuesOf
    <3> QED BY <2>3, <2>4, <3>1, <3>3, <3>4
  <2>7. CASE f.kind \notin Repeated
    <3>1. ReadOf("library", f, <<>>, 0) = ZeroOf(f.kind) /\ ValuesOf(f) = Items(f)
      BY <2>7 DEF ReadOf, ValuesOf, Repeated
    <3>2. CASE f.kind = "float64"
      <4>1. ZeroOf(f.kind) = Float0 /\ Items(f) = [1..8 -> Byte]
        BY <3>2 DEF ZeroOf, Items
      <4>2. Float0 \in [1..8 -> Byte]
        BY ByteIs DEF Float0
      <4> QED BY <2>3, <2>4, <3>1, <4>1, <4>2
    <3>3. CASE f.kind = "string"
      <4>1. ZeroOf(f.kind) = <<>> /\ Items(f) = Strings
        BY <3>3 DEF ZeroOf, Items
      <4>2. <<>> \in Strings
        BY <2>5 DEF Strings, Bytes
      <4> QED BY <2>3, <2>4, <3>1, <4>1, <4>2
    <3>4. CASE f.kind = "bool"
      <4>1. ZeroOf(f.kind) = FALSE /\ Items(f) = BOOLEAN
        BY <3>4 DEF ZeroOf, Items
      <4> QED BY <2>3, <2>4, <3>1, <4>1
    <3>5. CASE f.kind = "int32"
      <4>1. ZeroOf(f.kind) = 0 /\ Items(f) = Int32
        BY <3>5 DEF ZeroOf, Items
      <4>2. 0 \in Int32
        BY <2>5 DEF Int32
      <4> QED BY <2>3, <2>4, <3>1, <4>1, <4>2
    <3>6. CASE f.kind \in {"uint32", "uint64"} \union Flags
      <4>1. /\ ZeroOf(f.kind) = 0
            /\ Items(f) = 0..(U32 - 1) \/ Items(f) = 0..(U64 - 1)
        BY <3>6 DEF ZeroOf, Items, Flags
      <4>2. 0 \in 0..(U32 - 1) /\ 0 \in 0..(U64 - 1)
        BY <2>5
      <4> QED BY <2>3, <2>4, <3>1, <4>1, <4>2
    <3> QED BY <2>1, <2>7, <3>2, <3>3, <3>4, <3>5, <3>6 DEF Proper, Kinds
  <2> QED BY <2>6, <2>7
<1> QED BY <1>1, ZeroNamed DEF IsMessage

\* So it is with a field set.
LEMMA WithIsMessage ==
  ASSUME NEW t \in Types, NEW m, IsMessage(t, m), NEW f \in FieldsOf(t),
         NEW x \in ValuesOf(f), NEW flag \in BOOLEAN
  PROVE  IsMessage(t, With(m, f, x, flag))
<1> DEFINE m2 == With(m, f, x, flag)
<1>1. /\ Named(t, m2) /\ m2[f.name] = x /\ (f.flag # "none" => m2[f.flag] = flag)
      /\ \A g \in FieldsOf(t) \ {f} :
           /\ m2[g.name] = m[g.name]
           /\ g.flag # "none" => m2[g.flag] = m[g.flag]
  BY WithIs DEF IsMessage
<1> HIDE DEF m2
<1> QED BY <1>1 DEF IsMessage, m2

\* The same of all that may be between two fields.
LEMMA UnknownIs ==
  ASSUME NEW t \in Types, NEW u \in Unknown(t)
  PROVE  u \in Bytes /\ (u = <<>> \/ Skipped("library", t, u))
<1>1. CASE u = <<>>
  BY <1>1 DEF Bytes
<1>2. CASE u # <<>>
  BY <1>2, UnknownSkipped DEF Skipped
<1> QED BY <1>1, <1>2

\* A reader between two values: what is told of message mm is read up to p.
Reading(who, t, b, mm, p, m) ==
  \E S, off : /\ IsScript(who, S, off, t, b) /\ Tells(who, S, t, mm)
              /\ \E k, n \in Nat : Boundary(who, S, off, t, k, n, p, m)

\* The loop begins before all that is told.
LEMMA ReadingBegins ==
  ASSUME NEW who, NEW t \in Types, NEW b, NEW mm,
         Scripted(who, t, b, mm)
  PROVE  Reading(who, t, b, mm, 1, Zero(t))
<1>1. PICK S, off : IsScript(who, S, off, t, b) /\ Tells(who, S, t, mm)
  BY DEF Scripted
<1>2. Boundary(who, S, off, t, 0, 0, 1, Zero(t)) /\ 0 \in Nat
  BY <1>1, Begins
<1> QED BY <1>1, <1>2 DEF Reading

\* A turn of the loop reads one value more.
LEMMA ReadingTurns ==
  ASSUME NEW who, NEW t \in Types, NEW b, NEW mm, NEW p, NEW m, Reading(who, t, b, mm, p, m), p <= Len(b),
         NEW r, r = Turn(who, t, b, p, m)
  PROVE  Reading(who, t, b, mm, r.pos, r.msg) /\ r.pos \in Nat /\ r.pos > p /\ p \in Nat
<1>1. PICK S, off : /\ IsScript(who, S, off, t, b) /\ Tells(who, S, t, mm)
                    /\ \E k, n \in Nat : Boundary(who, S, off, t, k, n, p, m)
  BY DEF Reading
<1>2. PICK k, n \in Nat :
        /\ Boundary(who, S, off, t, k, n, p, m)
        /\ n < Len(S[k + 1].values) \/ (k = Len(S) - 1 /\ n = Len(S[k + 1].values))
  BY <1>1, Ahead
<1>3. Len(b) \in Nat
  BY <1>1, InSeq DEF IsScript, Bytes
<1>4. ~(k = Len(S) - 1 /\ n = Len(S[k + 1].values))
  <2> SUFFICES ASSUME k = Len(S) - 1, n = Len(S[k + 1].values) PROVE FALSE
    OBVIOUS
  <2>1. p = Len(b) + 1
    BY <1>1, <1>2, AtTheEnd
  <2> QED BY <1>3, <2>1
<1>5. /\ Boundary(who, S, off, t, k, n + 1, r.pos, r.msg)
      /\ r.pos \in Nat /\ r.pos > p /\ p \in Nat
  BY <1>1, <1>2, <1>4, ATurn
<1>6. n + 1 \in Nat
  OBVIOUS
<1> QED BY <1>1, <1>5, <1>6 DEF Reading

\* At the end of the bytes all that is told is read.
LEMMA ReadingEnds ==
  ASSUME NEW who, NEW t \in Types, NEW b, NEW mm, NEW p, NEW m, Reading(who, t, b, mm, p, m), p > Len(b)
  PROVE  ReadRight(who, t, mm, m)
<1>1. PICK S, off : /\ IsScript(who, S, off, t, b) /\ Tells(who, S, t, mm)
                    /\ \E k, n \in Nat : Boundary(who, S, off, t, k, n, p, m)
  BY DEF Reading
<1>2. PICK k, n \in Nat :
        /\ Boundary(who, S, off, t, k, n, p, m)
        /\ n < Len(S[k + 1].values) \/ (k = Len(S) - 1 /\ n = Len(S[k + 1].values))
  BY <1>1, Ahead
<1>3. ~(n < Len(S[k + 1].values))
  <2> SUFFICES ASSUME n < Len(S[k + 1].values) PROVE FALSE
    OBVIOUS
  <2>1. p \in Nat /\ p <= Len(b)
    BY <1>1, <1>2, ATurn
  <2>2. Len(b) \in Nat
    BY <1>1, InSeq DEF IsScript, Bytes
  <2> QED BY <2>1, <2>2
<1> QED BY <1>1, <1>2, <1>3, AllIsRead

\* The tags that Unmarshal reads.
LEMMA ShortIsRead == \A t, m : ShortTags(t, m) => CanRead("library", t, m)
BY DEF ShortTags, CanRead, Reads

\* Every message that Marshal can be given, whatever is in its fields, comes
\* out of Unmarshal as it went in, provided its tags are of one byte and it is
\* no longer than a []byte may be: p and g are the index and the message of
\* Unmarshal's loop, turn by turn, until the index is behind the bytes
\* (protocol/messages.go).
THEOREM AnyMessageReturns ==
  ASSUME NEW t \in Types, NEW m, IsMessage(t, m), ShortTags(t, m),
         Len(Marshal(t, m)) < U64 \div 2,
         NEW turns \in Nat, NEW p, NEW g, p[0] = 1, g[0] = Zero(t),
         \A i \in 1..turns :
           /\ p[i - 1] <= Len(Marshal(t, m))
           /\ p[i] = ParseField(t, Marshal(t, m), p[i - 1], g[i - 1]).pos
           /\ g[i] = ParseField(t, Marshal(t, m), p[i - 1], g[i - 1]).msg,
         p[turns] > Len(Marshal(t, m))
  PROVE  g[turns] = Kept(t, m)
<1> DEFINE b == Marshal(t, m)
           S == {i \in Nat : Reading("library", t, b, m, p[i], g[i])}
<1>1. 0 \in S
  <2>1. Fits("library", b)
    BY DEF Fits
  <2>2. Scripted("library", t, b, m)
    BY <2>1, MarshalScript, ShortIsRead
  <2> HIDE DEF b
  <2>3. Reading("library", t, b, m, 1, Zero(t))
    BY <2>2, ReadingBegins
  <2> QED BY <2>3
<1>2. ASSUME NEW i \in 1..turns, i - 1 \in S PROVE i \in S
  <2> DEFINE r == ParseField(t, b, p[i - 1], g[i - 1])
  <2>1. p[i - 1] <= Len(b) /\ p[i] = r.pos /\ g[i] = r.msg
    OBVIOUS
  <2>2. Reading("library", t, b, m, p[i - 1], g[i - 1])
    BY <1>2
  <2>3. Reading("library", t, b, m, r.pos, r.msg)
    <3> HIDE DEF b
    <3>1. r = Turn("library", t, b, p[i - 1], g[i - 1])
      BY DEF Turn
    <3> HIDE DEF r
    <3> QED BY <2>1, <2>2, <3>1, ReadingTurns
  <2> HIDE DEF r, b
  <2>4. Reading("library", t, b, m, p[i], g[i])
    BY <2>1, <2>3
  <2> QED BY <2>4
<1> HIDE DEF S
<1>3. turns \in S
  <2>1. 0..turns \subseteq S
    BY <1>1, <1>2, AllUpTo
  <2> QED BY <2>1
<1>4. Reading("library", t, b, m, p[turns], g[turns])
  BY <1>3 DEF S
<1>5. ReadRight("library", t, m, g[turns])
  <2> HIDE DEF b
  <2> QED BY <1>4, ReadingEnds DEF b
<1> QED BY <1>5 DEF ReadRight

\* What is expected of the reader, and the invariant: it has read what was told
\* up to its index, and not panicked over it.
Expected == by = "server" \/ (by = "client" /\ ShortTags(type, sent))
ReadInv ==
  /\ type \in Types /\ phase \in {"idle", "parse", "done", "panicked"}
  /\ phase # "idle" /\ Expected => phase # "panicked" /\ Reading("library", type, buf, sent, pos, got)
  /\ phase = "done" => pos > Len(buf)

\* This library writes what Marshal makes of a message.
LEMMA ClientMeans ==
  ASSUME type \in Types, ClientWrites
  PROVE  /\ IsMessage(type, sent') /\ buf' = Marshal(type, sent') /\ type' = type
         /\ by' = "client" /\ phase' = "parse" /\ pos' = 1 /\ got' = Zero(type)
         /\ Len(buf') < U64 \div 2
<1>1. PICK f, g \in FieldsOf(type), flag \in BOOLEAN :
        \E x \in Samples(f), y \in Samples(g) :
          /\ sent' = With(With(Zero(type), f, x, flag), g, y, TRUE)
          /\ Begin(Marshal(type, sent'))
  BY DEF ClientWrites
<1>2. PICK x \in Samples(f), y \in Samples(g) :
        /\ sent' = With(With(Zero(type), f, x, flag), g, y, TRUE)
        /\ Begin(Marshal(type, sent'))
  BY <1>1
<1>3. x \in ValuesOf(f) /\ y \in ValuesOf(g)
  BY SamplesAre
<1>4. IsMessage(type, sent')
  <2>1. IsMessage(type, With(Zero(type), f, x, flag))
    BY <1>3, ZeroIsMessage, WithIsMessage
  <2> QED BY <1>2, <1>3, <2>1, WithIsMessage
<1>5. /\ type' = type /\ by' = "client" /\ phase' = "parse"
      /\ buf' = Marshal(type, sent') /\ pos' = 1 /\ got' = Zero(type)
      /\ Len(buf') < U64 \div 2
  BY <1>2 DEF ClientWrites, Begin
<1> QED BY <1>4, <1>5

\* Every step of the machine keeps the invariant.
LEMMA ReadInvInductive == ReadInv /\ [Next]_vars => ReadInv'
<1> SUFFICES ASSUME ReadInv, [Next]_vars PROVE ReadInv'
  OBVIOUS
<1> USE DEF ReadInv
<1>1. CASE ClientWrites
  <2>1. /\ IsMessage(type, sent') /\ buf' = Marshal(type, sent') /\ type' = type
        /\ by' = "client" /\ phase' = "parse" /\ pos' = 1 /\ got' = Zero(type)
        /\ Len(buf') < U64 \div 2
    BY <1>1, ClientMeans
  <2>2. ASSUME Expected' PROVE Reading("library", type, buf', sent', pos', got')
    <3>1. ShortTags(type, sent')
      BY <2>1, <2>2 DEF Expected
    <3>2. Scripted("library", type, buf', sent')
      BY <2>1, <3>1, MarshalScript, ShortIsRead DEF Fits
    <3> QED BY <2>1, <3>2, ReadingBegins
  <2> QED BY <2>1, <2>2
<1>2. CASE ClientIsCut
  BY <1>2 DEF ClientIsCut, Begin, Expected
<1>3. CASE ServerWrites
  <2>1. PICK f, g \in FieldsOf(type), u \in Unknown(type) :
          \E x \in Samples(f), y \in Samples(g) :
            /\ f # g
            /\ by' = IF f.num < 16 /\ g.num < 16 THEN "server" ELSE "other"
            /\ sent' = TwoFields(type, f, x, g, y)
            /\ Begin(ServerBytes(f, x, u, g, y))
    BY <1>3 DEF ServerWrites, TwoFields, ServerBytes, ToldValues, Repeated
  <2>2. PICK x \in Samples(f), y \in Samples(g) :
          /\ f # g
          /\ by' = IF f.num < 16 /\ g.num < 16 THEN "server" ELSE "other"
          /\ sent' = TwoFields(type, f, x, g, y)
          /\ Begin(ServerBytes(f, x, u, g, y))
    BY <2>1
  <2>3. x \in ValuesOf(f) /\ y \in ValuesOf(g)
    BY SamplesAre
  <2>4. /\ type' = type /\ phase' = "parse"
        /\ buf' = ServerBytes(f, x, u, g, y) /\ pos' = 1 /\ got' = Zero(type)
        /\ Len(buf') < U64 \div 2
    BY <2>2 DEF Begin
  <2>5. ASSUME Expected' PROVE Reading("library", type, buf', sent', pos', got')
    <3>1. f.num < 16 /\ g.num < 16
      BY <2>2, <2>5 DEF Expected
    <3>2. u \in Bytes /\ (u = <<>> \/ Skipped("library", type, u))
      BY UnknownIs
    <3>3. Scripted("library", type, buf', sent')
      BY <2>2, <2>3, <2>4, <3>1, <3>2, ServerScript DEF Fits
    <3> QED BY <2>4, <3>3, ReadingBegins
  <2> QED BY <2>4, <2>5
<1>4. CASE ReadField
  <2> DEFINE r == ParseField(type, buf, pos, got)
  <2>1. /\ phase = "parse" /\ pos <= Len(buf)
        /\ type' = type /\ by' = by /\ sent' = sent /\ buf' = buf
        /\ \/ r.pos = Panic /\ phase' = "panicked"
           \/ r.pos # Panic /\ pos' = r.pos /\ got' = r.msg /\ phase' = phase
    BY <1>4 DEF ReadField
  <2>2. Expected' = Expected
    BY <2>1 DEF Expected
  <2>3. ASSUME Expected
        PROVE  r.pos # Panic /\ Reading("library", type, buf, sent, r.pos, r.msg)
    <3>1. r = Turn("library", type, buf, pos, got)
      BY DEF Turn
    <3> HIDE DEF r
    <3>2. /\ Reading("library", type, buf, sent, r.pos, r.msg)
          /\ r.pos \in Nat /\ r.pos > pos /\ pos \in Nat
      BY <2>1, <2>3, <3>1, ReadingTurns
    <3>3. r.pos # Panic
      BY <3>2 DEF Panic
    <3> QED BY <3>2, <3>3
  <2> HIDE DEF r
  <2> QED BY <2>1, <2>2, <2>3
<1>5. CASE Return
  BY <1>5 DEF Return, Expected
<1>6. CASE AnyBytes
  BY <1>6 DEF AnyBytes, Begin, Expected
<1>7. CASE UNCHANGED vars
  BY <1>7 DEF vars, Expected
<1> QED BY <1>1, <1>2, <1>3, <1>4, <1>5, <1>6, <1>7 DEF Next

\* What the invariant says when Unmarshal has ended.
LEMMA ReadInvRight ==
  ReadInv /\ phase \in {"done", "panicked"} /\ Expected
  => phase = "done" /\ got = Kept(type, sent)
<1> SUFFICES ASSUME ReadInv, phase \in {"done", "panicked"}, Expected
             PROVE  phase = "done" /\ got = Kept(type, sent)
  OBVIOUS
<1>1. phase = "done"
  BY DEF ReadInv
<1>2. ReadRight("library", type, sent, got)
  BY <1>1, ReadingEnds DEF ReadInv
<1> QED BY <1>1, <1>2 DEF ReadRight

\* Every message that this library writes is read as it was meant, provided its
\* tags are of one byte, and Unmarshal's index is behind the bytes at the end.
THEOREM MessagesReturn == Spec => []RoundTrip
<1>1. Init => ReadInv
  BY DEF Init, ReadInv
<1>2. ReadInv => RoundTrip
  BY ReadInvRight DEF RoundTrip, Expected
<1> QED BY <1>1, <1>2, ReadInvInductive, PTL DEF Spec

\* What a server writes, two fields in any order with or without bytes of a
\* field that this library does not know between them, is read as it was meant.
THEOREM ServersAreRead == Spec => []ServerIsRead
<1>1. Init => ReadInv
  BY DEF Init, ReadInv
<1>2. ReadInv => ServerIsRead
  BY ReadInvRight DEF ServerIsRead, Expected
<1> QED BY <1>1, <1>2, ReadInvInductive, PTL DEF Spec

-----------------------------------------------------------------------------
(* A standard reader reads what this library writes.                        *)

\* A standard reader's next turn, if there are bytes left.
TurnOn(t, b, r) == IF r.pos > Len(b) THEN r ELSE StandardTurn(t, b, r.pos, r.msg)

\* f[k] is what it has read in k turns, up to n of them.
TurnsOf(t, b, n, f) ==
  f = [k \in 0..n |-> IF k = 0 THEN [pos |-> 1, msg |-> Zero(t)] ELSE TurnOn(t, b, f[k - 1])]

\* The turns that StandardRead takes exist.
LEMMA TurnsExist ==
  ASSUME NEW t, NEW b, NEW n \in Nat
  PROVE  \E f : TurnsOf(t, b, n, f)
<1> DEFINE first == [pos |-> 1, msg |-> Zero(t)]
           Step(f, k) == IF k = 0 THEN first ELSE TurnOn(t, b, f[k - 1])
           S == {i \in Nat : \E f : f = [k \in 0..i |-> Step(f, k)]}
<1> HIDE DEF first
<1>1. 0 \in S
  <2> DEFINE f == [k \in 0..0 |-> first]
  <2>1. \A k \in 0..0 : Step(f, k) = first
    OBVIOUS
  <2>2. f = [k \in 0..0 |-> Step(f, k)]
    BY <2>1
  <2> QED BY <2>2
<1>2. ASSUME NEW i \in 1..n, i - 1 \in S PROVE i \in S
  <2>1. PICK f : f = [k \in 0..(i - 1) |-> Step(f, k)]
    BY <1>2
  <2> DEFINE g == [k \in 0..i |-> IF k = i THEN TurnOn(t, b, f[i - 1]) ELSE f[k]]
  <2>2. ASSUME NEW k \in 0..i PROVE g[k] = Step(g, k)
    <3>1. CASE k = 0
      <4>1. g[0] = f[0] /\ 0 \in 0..(i - 1)
        BY <3>1
      <4>2. f[0] = first
        BY <2>1, <4>1
      <4> QED BY <3>1, <4>1, <4>2
    <3>2. CASE k # 0
      <4>1. k - 1 \in 0..(i - 1) /\ k - 1 # i /\ k - 1 \in 0..i
        BY <3>2
      <4>2. g[k - 1] = f[k - 1]
        BY <4>1
      <4>3. Step(g, k) = TurnOn(t, b, f[k - 1])
        BY <3>2, <4>2
      <4>4. CASE k = i
        BY <4>3, <4>4
      <4>5. CASE k # i
        <5>1. k \in 0..(i - 1) /\ g[k] = f[k]
          BY <4>5
        <5>2. f[k] = TurnOn(t, b, f[k - 1])
          BY <2>1, <3>2, <5>1
        <5> QED BY <4>3, <5>1, <5>2
      <4> QED BY <4>4, <4>5
    <3> QED BY <3>1, <3>2
  <2>3. g = [k \in 0..i |-> g[k]]
    OBVIOUS
  <2> HIDE DEF g, Step
  <2>4. g = [k \in 0..i |-> Step(g, k)]
    BY <2>2, <2>3
  <2>5. i \in Nat
    OBVIOUS
  <2> QED BY <2>4, <2>5
<1>3. n \in S
  <2> HIDE DEF S
  <2>1. 0..n \subseteq S
    BY <1>1, <1>2, AllUpTo
  <2> QED BY <2>1
<1> QED BY <1>3 DEF first, TurnsOf

\* What a standard reader makes of bytes, turn by turn.
LEMMA StandardTurns ==
  ASSUME NEW t, NEW b \in Bytes
  PROVE  \E read : /\ StandardRead(t, b) = read[Len(b)].msg
                   /\ read[0] = [pos |-> 1, msg |-> Zero(t)]
                   /\ \A k \in 1..Len(b) : read[k] = TurnOn(t, b, read[k - 1])
<1> DEFINE first == [pos |-> 1, msg |-> Zero(t)]
           L == Len(b)
           IsRead(f) == TurnsOf(t, b, L, f)
           read == CHOOSE f : IsRead(f)
<1>1. L \in Nat
  BY InSeq DEF Bytes
<1>2. \E f : IsRead(f)
  BY <1>1, TurnsExist
<1>3. IsRead(read)
  <2> HIDE DEF IsRead
  <2> QED BY <1>2
<1>4. StandardRead(t, b) = read[L].msg
  BY DEF StandardRead, TurnOn, TurnsOf
<1> HIDE DEF first, read
<1>5. read[0] = first
  BY <1>1, <1>3 DEF TurnsOf, first
<1>6. \A k \in 1..L : read[k] = TurnOn(t, b, read[k - 1])
  BY <1>1, <1>3 DEF TurnsOf, first
<1> QED BY <1>4, <1>5, <1>6 DEF first

\* Every message that Marshal can be given is read by a standard reader as it
\* was meant: every field but a user id without its flag, the channel and tree
\* ids of TextMessage excepted (protocol/messages.go).
THEOREM AnyMessageIsStandard ==
  ASSUME NEW t \in Types, NEW m, IsMessage(t, m),
         \A f \in FieldsOf(t) : f.kind = "delimited" => m[f.name] = <<>>
  PROVE  \A f \in FieldsOf(t) :
           StandardRead(t, Marshal(t, m))[f.name] = KeptValue("standard", f, m)
<1> DEFINE b == Marshal(t, m)
<1>1. CanRead("standard", t, m) /\ Fits("standard", b)
  BY DEF CanRead, Reads, Written, Fits
<1>2. Scripted("standard", t, b, m)
  BY <1>1, MarshalScript
<1> HIDE DEF b
<1>3. b \in Bytes /\ Len(b) \in Nat
  BY <1>2, InSeq DEF Scripted, IsScript, Bytes
<1>4. PICK read : /\ StandardRead(t, b) = read[Len(b)].msg
                  /\ read[0] = [pos |-> 1, msg |-> Zero(t)]
                  /\ \A k \in 1..Len(b) : read[k] = TurnOn(t, b, read[k - 1])
  BY <1>3, StandardTurns
<1> DEFINE S == {k \in Nat : /\ Reading("standard", t, b, m, read[k].pos, read[k].msg)
                             /\ read[k].pos \in Nat /\ read[k].pos > k}
<1>5. 0 \in S
  <2>1. Reading("standard", t, b, m, 1, Zero(t))
    BY <1>2, ReadingBegins
  <2>2. read[0].pos = 1 /\ read[0].msg = Zero(t)
    BY <1>4
  <2> QED BY <2>1, <2>2
<1>6. ASSUME NEW k \in 1..Len(b), k - 1 \in S PROVE k \in S
  <2> DEFINE r == read[k - 1]
             x == Turn("standard", t, b, r.pos, r.msg)
  <2>1. /\ Reading("standard", t, b, m, r.pos, r.msg) /\ r.pos \in Nat /\ r.pos > k - 1
        /\ k \in Nat
    BY <1>6
  <2>2. read[k] = TurnOn(t, b, r)
    BY <1>4
  <2>3. CASE r.pos > Len(b)
    <3>1. read[k] = r
      BY <2>2, <2>3 DEF TurnOn
    <3> HIDE DEF r
    <3>2. r.pos > k
      BY <1>3, <2>1, <2>3
    <3> QED BY <2>1, <3>1, <3>2
  <2>4. CASE r.pos <= Len(b)
    <3>1. read[k] = x
      BY <1>3, <2>1, <2>2, <2>4 DEF TurnOn, Turn
    <3> HIDE DEF r
    <3>2. x = Turn("standard", t, b, r.pos, r.msg)
      OBVIOUS
    <3> HIDE DEF x
    <3>3. Reading("standard", t, b, m, x.pos, x.msg) /\ x.pos \in Nat /\ x.pos > r.pos
      BY <2>1, <2>4, <3>2, ReadingTurns
    <3>4. x.pos > k
      BY <2>1, <3>3
    <3> QED BY <2>1, <3>1, <3>3, <3>4
  <2> QED BY <1>3, <2>1, <2>3, <2>4
<1>7. Len(b) \in S
  <2> HIDE DEF S
  <2>1. 0..Len(b) \subseteq S
    BY <1>3, <1>5, <1>6, AllUpTo
  <2> QED BY <1>3, <2>1
<1>8. ReadRight("standard", t, m, read[Len(b)].msg)
  <2> DEFINE x == read[Len(b)]
  <2>1. Reading("standard", t, b, m, x.pos, x.msg) /\ x.pos > Len(b)
    BY <1>7
  <2> HIDE DEF x
  <2>2. ReadRight("standard", t, m, x.msg)
    BY <2>1, ReadingEnds
  <2> QED BY <2>2 DEF x
<1> QED BY <1>4, <1>8 DEF ReadRight, b

\* What this library has written whole is Marshal's of a message.
Meant ==
  /\ type \in Types /\ phase \in {"idle", "parse", "done", "panicked"}
  /\ phase # "idle" /\ by = "client" => IsMessage(type, sent) /\ buf = Marshal(type, sent)

\* Every step of the machine keeps it so.
LEMMA MeantInductive == Meant /\ [Next]_vars => Meant'
<1> SUFFICES ASSUME Meant, [Next]_vars PROVE Meant'
  OBVIOUS
<1>1. CASE ClientWrites
  <2>1. IsMessage(type, sent') /\ buf' = Marshal(type, sent') /\ type' = type
        /\ phase' = "parse"
    BY <1>1, ClientMeans DEF Meant
  <2> QED BY <2>1 DEF Meant
<1>2. CASE ClientIsCut
  BY <1>2 DEF ClientIsCut, Begin, Meant
<1>3. CASE ServerWrites
  <2>1. by' \in {"server", "other"} /\ type' = type /\ phase' = "parse"
    BY <1>3 DEF ServerWrites, Begin
  <2> QED BY <2>1 DEF Meant
<1>4. CASE ReadField
  BY <1>4 DEF ReadField, Meant
<1>5. CASE Return
  BY <1>5 DEF Return, Meant
<1>6. CASE AnyBytes
  BY <1>6 DEF AnyBytes, Begin, Meant
<1>7. CASE UNCHANGED vars
  BY <1>7 DEF vars, Meant
<1> QED BY <1>1, <1>2, <1>3, <1>4, <1>5, <1>6, <1>7 DEF Next

\* Whatever this library writes is standard protobuf: a standard reader gets
\* out of it what was meant ("Binary encoding follows standard protobuf rules",
\* protocol/messages.go:11).
THEOREM StandardReadersAgree == Spec => []WrittenIsStandard
<1>1. Init => Meant
  BY DEF Init, Meant
<1>2. Meant => WrittenIsStandard
  <2> SUFFICES ASSUME Meant, phase = "parse", by = "client",
                      \A f \in FieldsOf(type) : f.kind = "delimited" => sent[f.name] = <<>>,
                      NEW f \in FieldsOf(type)
               PROVE  StandardRead(type, buf)[f.name] =
                        (IF f.kind = "strings" THEN sent ELSE Kept(type, sent))[f.name]
    BY DEF WrittenIsStandard
  <2>1. type \in Types /\ IsMessage(type, sent) /\ buf = Marshal(type, sent)
    BY DEF Meant
  <2>2. StandardRead(type, buf)[f.name] = KeptValue("standard", f, sent)
    BY <2>1, AnyMessageIsStandard
  <2>3. CASE f.kind = "strings"
    BY <2>2, <2>3 DEF KeptValue
  <2>4. CASE f.kind # "strings"
    <3>1. KeptOf("library", type, f, sent)
      BY <2>1, KeptIs
    <3>2. KeptValue("library", f, sent) = KeptValue("standard", f, sent)
      BY <2>4 DEF KeptValue
    <3> QED BY <2>2, <2>4, <3>1, <3>2 DEF KeptOf
  <2> QED BY <2>3, <2>4
<1> QED BY <1>1, <1>2, MeantInductive, PTL DEF Spec

-----------------------------------------------------------------------------
(* Unmarshal ends.                                                          *)

\* readVarintSafe moves on unless it stands at the end, and not past the end.
LEMMA VarintNext ==
  ASSUME NEW b, Len(b) \in Nat, NEW i \in 1..(Len(b) + 1)
  PROVE  /\ ReadVarint(b, i).next \in i..(Len(b) + 1)
         /\ i <= Len(b) => ReadVarint(b, i).next > i
<1> DEFINE ends == {j \in i..Len(b) : b[j] < 128}
           last == CHOOSE j \in ends : \A k \in ends : j <= k
<1>1. CASE ends = {}
  BY <1>1 DEF ReadVarint
<1>2. CASE ends # {}
  <2>1. ends \in SUBSET Nat OBVIOUS
  <2>2. last \in ends BY <1>2, <2>1, LeastMember
  <2>3. ReadVarint(b, i).next = last + 1 BY <1>2 DEF ReadVarint
  <2> QED BY <2>2, <2>3
<1> QED BY <1>1, <1>2

\* skipEnd stays between where it stands and the end.
LEMMA SkipStays ==
  ASSUME NEW b, Len(b) \in Nat, NEW i \in 1..(Len(b) + 1), NEW wire
  PROVE  SkipEnd(b, i, wire) \in i..(Len(b) + 1)
<1> DEFINE j == CASE wire \in {0, 2} -> ReadVarint(b, i).next
                  [] wire = 1 -> i + 8
                  [] wire = 5 -> i + 4
                  [] OTHER -> i
<1>1. j \in Nat /\ j >= i BY VarintNext
<1>2. SkipEnd(b, i, wire) = IF j > Len(b) THEN Len(b) + 1 ELSE j BY DEF SkipEnd
<1> HIDE DEF j
<1> QED BY <1>1, <1>2

\* What is read of a varint is a number.
LEMMA VarintIsNat ==
  ASSUME NEW b \in Bytes, NEW i \in 1..(Len(b) + 1)
  PROVE  ReadVarint(b, i).val \in Nat
<1> DEFINE ends == {j \in i..Len(b) : b[j] < 128}
           last == CHOOSE j \in ends : \A k \in ends : j <= k
           part == SubSeq(b, i, last)
<1>0. Len(b) \in Nat
  BY InSeq DEF Bytes
<1>1. CASE ends = {}
  BY <1>1 DEF ReadVarint
<1>2. CASE ends # {}
  <2>1. ends \in SUBSET Nat
    BY <1>0
  <2>2. last \in ends
    BY <1>2, <2>1, LeastMember
  <2>3. part \in Bytes
    <3>1. last \in i..Len(b)
      BY <2>2
    <3> HIDE DEF last
    <3> QED BY <1>0, <3>1 DEF Bytes
  <2>4. ReadVarint(b, i).val = VarintValue[part]
    BY <1>2 DEF ReadVarint
  <2> HIDE DEF part
  <2> QED BY <2>3, <2>4, ValueIs
<1> QED BY <1>1, <1>2

\* An int is a number, with a sign.
LEMMA SignedIsInt == \A v \in Nat : SignedInt(v) \in Int
BY WireConstants DEF SignedInt

\* A length, read at i in b, that no int may hold once the index is added.
TooLong(b, i) == ReadVarint(b, i).val + Len(b) >= U64 \div 2

\* Nor does a case of the switch go back or past the end, unless it panics.
LEMMA ValueStays ==
  ASSUME NEW f, NEW b \in Bytes, NEW i \in 1..(Len(b) + 1), NEW m
  PROVE  \/ ReadValue(f, b, i, m).pos \in i..(Len(b) + 1)
         \/ ReadValue(f, b, i, m).pos = Panic /\ TooLong(b, i)
<1> DEFINE r == ReadVarint(b, i)
           n == r.val
           j == r.next
           end == SignedInt(j - 1 + n)
           half == U64 \div 2
<1>1. Len(b) \in Nat /\ half \in Nat
  BY InSeq, WireConstants DEF Bytes
<1>2. j \in i..(Len(b) + 1) /\ n \in Nat
  BY <1>1, VarintNext, VarintIsNat
<1>3. j - 1 + n \in Nat
  <2> HIDE DEF j, n
  <2> QED BY <1>1, <1>2
<1>4. end \in Int
  BY <1>3, SignedIsInt
<1>5. CASE f.kind = "float64"
  BY <1>1, <1>5 DEF ReadValue
<1>6. CASE f.kind # "float64" /\ f.kind \in {"string", "strings"}
  <2>1. ReadValue(f, b, i, m) =
          IF n = 0 \/ end > Len(b) THEN [pos |-> j, msg |-> m]
          ELSE IF end < j - 1 THEN [pos |-> Panic, msg |-> m]
          ELSE [pos |-> end + 1, msg |-> Stored(f, SubSeq(b, j, end), m)]
    BY <1>6 DEF ReadValue
  <2>2. ASSUME end < j - 1 PROVE TooLong(b, i)
    <3> SUFFICES ASSUME ~TooLong(b, i) PROVE FALSE
      OBVIOUS
    <3>1. ~(n + Len(b) >= half)
      BY DEF TooLong
    <3> DEFINE e == j - 1 + n
    <3>2. e \in Nat /\ e < half /\ e >= j - 1
      <4> HIDE DEF j, n, half
      <4> QED BY <1>1, <1>2, <3>1
    <3>3. end = e
      <4> HIDE DEF j, n
      <4> QED BY <3>2, SmallInt
    <3> HIDE DEF e, end, j
    <3> QED BY <1>1, <1>2, <2>2, <3>2, <3>3
  <2> HIDE DEF end, j, n
  <2>3. CASE n = 0 \/ end > Len(b)
    BY <1>1, <1>2, <2>1, <2>3
  <2>4. CASE ~(n = 0 \/ end > Len(b)) /\ end < j - 1
    BY <2>1, <2>2, <2>4
  <2>5. CASE ~(n = 0 \/ end > Len(b)) /\ ~(end < j - 1)
    BY <1>1, <1>2, <1>4, <2>1, <2>5
  <2> QED BY <2>3, <2>4, <2>5
<1>7. CASE f.kind # "float64" /\ f.kind \notin {"string", "strings"}
  <2>1. ReadValue(f, b, i, m).pos = j
    BY <1>7 DEF ReadValue
  <2> QED BY <1>2, <2>1
<1> QED BY <1>5, <1>6, <1>7

\* Every turn of the loop consumes its tag at least and stays within the bytes,
\* for all bytes b and every place i in them, unless it panics over a length
\* that no int holds.
THEOREM TurnAdvances ==
  ASSUME NEW t, NEW b \in Seq(0..255), NEW i \in 1..Len(b), NEW m
  PROVE  \/ ParseField(t, b, i, m).pos \in (i + 1)..(Len(b) + 1)
         \/ ParseField(t, b, i, m).pos = Panic /\ TooLong(b, i + 1)
<1> DEFINE known == {f \in FieldsOf(t) : f.num = b[i] \div 8}
<1> HIDE DEF known
<1>0. b \in Bytes /\ Len(b) \in Nat
  BY InSeq DEF Bytes, Byte
<1>1. ParseField(t, b, i, m) =
        IF i + 1 > Len(b) THEN [pos |-> i + 1, msg |-> m]
        ELSE IF known = {} THEN [pos |-> SkipEnd(b, i + 1, b[i] % 8), msg |-> m]
        ELSE ReadValue(CHOOSE f \in known : TRUE, b, i + 1, m)
  BY DEF ParseField, known
<1>2. i + 1 \in 1..(Len(b) + 1) /\ i + 1 \in (i + 1)..(Len(b) + 1)
  BY <1>0
<1> DEFINE f == CHOOSE f \in known : TRUE
           k == i + 1
<1>3. SkipEnd(b, k, b[i] % 8) \in k..(Len(b) + 1)
  BY <1>0, <1>2, SkipStays
<1>4. \/ ReadValue(f, b, k, m).pos \in k..(Len(b) + 1)
      \/ ReadValue(f, b, k, m).pos = Panic /\ TooLong(b, k)
  <2> HIDE DEF f, k
  <2> QED BY <1>0, <1>2, ValueStays DEF k
<1> QED BY <1>1, <1>2, <1>3, <1>4

\* What is read are bytes, and the index is inside them or just behind.
InBytes == buf \in Seq(0..255) /\ pos \in 1..(Len(buf) + 1)

\* A turn of Unmarshal's loop.
LEMMA TurnOfLoop ==
  ASSUME InBytes, ReadField
  PROVE  /\ phase = "parse" /\ buf' = buf
         /\ \/ phase' = "parse" /\ pos' \in (pos + 1)..(Len(buf) + 1)
            \/ phase' = "panicked" /\ pos' = pos /\ TooLong(buf, pos + 1)
<1> DEFINE r == ParseField(type, buf, pos, got)
<1>1. /\ phase = "parse" /\ pos <= Len(buf) /\ buf' = buf
      /\ \/ r.pos = Panic /\ phase' = "panicked" /\ pos' = pos
         \/ r.pos # Panic /\ phase' = "parse" /\ pos' = r.pos
  BY DEF ReadField
<1>2. pos \in 1..Len(buf) /\ Len(buf) \in Nat
  BY <1>1, InSeq DEF InBytes
<1>3. r.pos \in (pos + 1)..(Len(buf) + 1) \/ (r.pos = Panic /\ TooLong(buf, pos + 1))
  BY <1>2, TurnAdvances DEF InBytes
<1> HIDE DEF r
<1>4. r.pos \in (pos + 1)..(Len(buf) + 1) => r.pos # Panic
  BY <1>2 DEF Panic
<1> QED BY <1>1, <1>3, <1>4

\* Every step of the machine keeps the index inside the bytes.
LEMMA InBytesInductive == InBytes /\ [Next]_vars => InBytes'
<1> SUFFICES ASSUME InBytes, [Next]_vars PROVE InBytes' OBVIOUS
<1>1. ASSUME NEW b, Begin(b) PROVE InBytes'
  BY <1>1 DEF Begin, InBytes
<1>2. CASE ClientWrites BY <1>1, <1>2 DEF ClientWrites
<1>3. CASE ClientIsCut
  <2>1. PICK b : Begin(b) BY <1>3 DEF ClientIsCut
  <2> QED BY <1>1, <2>1
<1>4. CASE ServerWrites BY <1>1, <1>4 DEF ServerWrites
<1>5. CASE AnyBytes BY <1>1, <1>5 DEF AnyBytes
<1>6. CASE ReadField
  <2>1. Len(buf) \in Nat /\ pos \in 1..(Len(buf) + 1) BY InSeq DEF InBytes
  <2>2. buf' = buf /\ pos' \in 1..(Len(buf) + 1)
    BY <1>6, <2>1, TurnOfLoop
  <2> QED BY <2>2 DEF InBytes
<1>7. CASE Return BY <1>7 DEF Return, InBytes
<1>8. CASE UNCHANGED vars BY <1>8 DEF vars, InBytes
<1> QED BY <1>2, <1>3, <1>4, <1>5, <1>6, <1>7, <1>8 DEF Next

\* Whatever the bytes, every turn of Unmarshal's loop comes nearer the end and
\* stays within them, at the end it returns, and it panics over a length only
\* that no int holds.
THEOREM UnmarshalEnds == Spec => ParseAdvances
<1>1. Init => InBytes BY DEF Init, InBytes
<1>2. InBytes /\ [Next]_vars =>
        [phase = "parse" =>
           \/ phase' = "parse" /\ pos' > pos /\ pos' <= Len(buf) + 1
           \/ phase' = "done" /\ pos = Len(buf) + 1
           \/ phase' = "panicked" /\ ReadVarint(buf, pos + 1).val + Len(buf) >= U64 \div 2]_vars
  <2> SUFFICES ASSUME InBytes, Next, phase = "parse"
               PROVE  \/ phase' = "parse" /\ pos' > pos /\ pos' <= Len(buf) + 1
                      \/ phase' = "done" /\ pos = Len(buf) + 1
                      \/ phase' = "panicked"
                         /\ ReadVarint(buf, pos + 1).val + Len(buf) >= U64 \div 2
    OBVIOUS
  <2>1. Len(buf) \in Nat /\ pos \in 1..(Len(buf) + 1) BY InSeq DEF InBytes
  <2>2. ReadField \/ Return
    BY DEF Next, ClientWrites, ClientIsCut, ServerWrites, AnyBytes
  <2>3. CASE ReadField
    <3>1. CASE phase' = "parse" /\ pos' \in (pos + 1)..(Len(buf) + 1)
      BY <2>1, <3>1
    <3>2. CASE phase' = "panicked" /\ TooLong(buf, pos + 1)
      BY <3>2 DEF TooLong
    <3> QED BY <2>3, <3>1, <3>2, TurnOfLoop
  <2>4. CASE Return
    BY <2>1, <2>4 DEF Return
  <2> QED BY <2>2, <2>3, <2>4
<1> QED BY <1>1, <1>2, InBytesInductive, PTL DEF Spec, ParseAdvances
=============================================================================
