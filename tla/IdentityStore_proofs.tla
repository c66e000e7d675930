------------------------- MODULE IdentityStore_proofs -------------------------
(***************************************************************************)
(* Theorems about the files of an identity, wherever and however often     *)
(* LoadOrCreate is stopped.                                                *)
(***************************************************************************)
EXTENDS IdentityStore, TLAPS

Todos == {Order, <<"key", "meta">>, <<"meta">>, <<>>}

TypeInv ==
  /\ file \in [Files -> Ids \cup {None}] /\ tmp \in [Files -> Nat]
  /\ pc \in {"idle", "load", "create", "write", "flush", "rename", "reload"}
  /\ todo \in Todos /\ id \in Nat /\ made \in Nat /\ stops \in Nat /\ loaded \in Nat

\* The files that are there are the first ones of Order, and of one identity.
PrefixInv ==
  /\ file["meta"] # None => file["key"] # None /\ file["meta"] = file["key"]
  /\ file["key"] # None => file["cert"] = file["key"]

\* What Create has still to write is what is missing, and it writes no name
\* before its temporary file is whole.
WriteInv ==
  /\ pc \in {"idle", "load", "create", "reload"} => todo = <<>>
  /\ pc \in {"create", "write", "flush", "rename"} => file["meta"] = None
  /\ pc = "create" => file["key"] = None
  /\ pc \in {"write", "flush", "rename"} =>
       /\ id \in Ids /\ todo # <<>>
       /\ todo \in {Order, <<"key", "meta">>} => file["key"] = None
       /\ todo = <<"key", "meta">> => file["cert"] = id
       /\ todo = <<"meta">> => file["key"] = id
  /\ pc = "rename" => tmp[Head(todo)] = id
  /\ pc = "reload" => file["key"] # None

\* A certificate that was returned is the one on disk, and Create does not run.
LoadedInv ==
  loaded # None => /\ file["key"] # None /\ loaded = file["cert"]
                   /\ pc \in {"idle", "load"}

IdentityInv == TypeInv /\ PrefixInv /\ WriteInv /\ LoadedInv

\* Going through Order from its first to its last file.
LEMMA Todo ==
  /\ Head(Order) = "cert" /\ Tail(Order) = <<"key", "meta">> /\ Len(Order) = 3
  /\ Head(<<"key", "meta">>) = "key" /\ Tail(<<"key", "meta">>) = <<"meta">>
  /\ Len(<<"key", "meta">>) = 2
  /\ Head(<<"meta">>) = "meta" /\ Tail(<<"meta">>) = <<>> /\ Len(<<"meta">>) = 1
  /\ Order # <<"key", "meta">> /\ Order # <<"meta">> /\ Order # <<>>
  /\ <<"key", "meta">> # <<"meta">> /\ <<"key", "meta">> # <<>> /\ <<"meta">> # <<>>
  BY DEF Order

LEMMA IdentityInit == Init => IdentityInv
  BY IdentityConstants
  DEF Init, IdentityInv, TypeInv, PrefixInv, WriteInv, LoadedInv, Todos, None, Files, Ids

\* Nothing on disk changes but by Rename.
LEMMA OtherSteps ==
  IdentityInv /\ (Call \/ Load \/ Generate \/ Reload \/ Stop) => IdentityInv'
<1> SUFFICES ASSUME IdentityInv, Call \/ Load \/ Generate \/ Reload \/ Stop
             PROVE  IdentityInv'
  OBVIOUS
<1> USE IdentityConstants, Todo
    DEF IdentityInv, TypeInv, PrefixInv, WriteInv, LoadedInv, Todos, None, Files, Ids, disk
<1>1. CASE Call
  BY <1>1 DEF Call
<1>2. CASE Load
  BY <1>2 DEF Load, Loads, NotExist
<1>3. CASE Generate
  BY <1>3 DEF Generate
<1>4. CASE Reload
  BY <1>4 DEF Reload, Loads
<1>5. CASE Stop
  BY <1>5 DEF Stop
<1>6. QED
  BY <1>1, <1>2, <1>3, <1>4, <1>5

\* A name gets its whole contents, or none.
LEMMA FileSteps ==
  IdentityInv /\ (WriteTmp \/ FillTmp \/ Rename) => IdentityInv'
<1> SUFFICES ASSUME IdentityInv, WriteTmp \/ FillTmp \/ Rename
             PROVE  IdentityInv'
  OBVIOUS
<1> USE IdentityConstants, Todo
    DEF IdentityInv, TypeInv, PrefixInv, WriteInv, LoadedInv, Todos, None, Files, Ids, disk
<1>1. CASE WriteTmp
  BY <1>1 DEF WriteTmp, Torn
<1>2. CASE FillTmp
  BY <1>2 DEF FillTmp
<1>3. CASE Rename
  <2>1. CASE todo = Order
    <3>1. /\ file' = [file EXCEPT !["cert"] = id] /\ tmp' = [tmp EXCEPT !["cert"] = None]
          /\ todo' = <<"key", "meta">> /\ pc' = "write"
          /\ UNCHANGED <<id, made, stops, loaded>>
      <4>1. Head(todo) = "cert" /\ Tail(todo) = <<"key", "meta">> /\ Len(todo) # 1
        BY <2>1, Todo
      <4>2. tmp["cert"] = id
        BY <1>3, <4>1 DEF Rename
      <4>3. QED
        BY <1>3, <4>1, <4>2 DEF Rename
    <3>2. pc = "rename" /\ id \in Ids /\ file["key"] = None /\ file["meta"] = None
      BY <1>3, <2>1 DEF Rename
    <3>3. TypeInv'
      BY <3>1, <3>2
    <3>4. PrefixInv' /\ WriteInv' /\ LoadedInv'
      BY <3>1, <3>2
    <3>5. QED
      BY <3>3, <3>4
  <2>2. CASE todo = <<"key", "meta">>
    BY <1>3, <2>2 DEF Rename
  <2>3. CASE todo = <<"meta">>
    BY <1>3, <2>3 DEF Rename
  <2>4. QED
    BY <1>3, <2>1, <2>2, <2>3 DEF Rename
<1>4. QED
  BY <1>1, <1>2, <1>3

LEMMA IdentityInductive == IdentityInv /\ [Next]_vars => IdentityInv'
<1>1. IdentityInv /\ UNCHANGED vars => IdentityInv'
  BY DEF IdentityInv, TypeInv, PrefixInv, WriteInv, LoadedInv, vars, disk
<1>2. QED
  BY <1>1, OtherSteps, FileSteps DEF Next

\* Which files there are and what is still to write, wherever it is stopped.
THEOREM IdentityInvariant == Spec => []IdentityInv
  BY IdentityInit, IdentityInductive, PTL DEF Spec

\* Certificate, key and metadata are of one identity as far as they exist,
\* whatever step LoadOrCreate is stopped at and however often.
THEOREM FilesOfOneIdentity == Spec => []FilesMatch
<1>1. IdentityInv => FilesMatch
  BY IdentityConstants
  DEF IdentityInv, TypeInv, PrefixInv, FilesMatch, PairMatches, MetaMatches, Loads, Torn,
      None, Files, Ids
<1>2. QED
  BY <1>1, IdentityInvariant, PTL

\* No LoadOrCreate ever returns another certificate than the first one did.
THEOREM FirstIdentityStays == Spec => IdentityKept
<1>1. IdentityInv /\ [Next]_vars => [loaded # None => loaded' = loaded]_vars
  <2> SUFFICES ASSUME IdentityInv, Next, loaded # None
               PROVE  loaded' = loaded
    BY DEF vars
  <2> USE DEF IdentityInv, LoadedInv
  <2>1. CASE Load
    BY <2>1 DEF Load
  <2>2. ~Reload
    BY DEF Reload
  <2>3. CASE Call \/ Generate \/ WriteTmp \/ FillTmp \/ Rename \/ Stop
    BY <2>3 DEF Call, Generate, WriteTmp, FillTmp, Rename, Stop
  <2>4. QED
    BY <2>1, <2>2, <2>3 DEF Next
<1>2. QED
  BY <1>1, IdentityInvariant, PTL DEF Spec, IdentityKept
=============================================================================
