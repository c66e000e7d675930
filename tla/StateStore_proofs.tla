-------------------------- MODULE StateStore_proofs --------------------------
(***************************************************************************)
(* Theorems about the store, for any sets of sessions, channels and names, *)
(* and any order of calls.                                                 *)
(***************************************************************************)
EXTENDS StateStore, TLAPS

\* A merged user is a user filed under the session of the message.
LEMMA MergedUserIsUser ==
  ASSUME StoreTypeOK, NEW cs,
         cs.session \in Session, cs.name \in Opt(Names),
         cs.channel \in Opt(ChannelId), cs.muted \in BOOLEAN
  PROVE  /\ MergedUser(cs) \in User
         /\ MergedUser(cs).session = cs.session
  BY StoreConstants
     DEF StoreTypeOK, MergedUser, ZeroUser, Sticky, User, Opt

\* An upsert keeps Self equal to the map entry it was copied from: it
\* replaces both or neither.
LEMMA UpsertUserKeepsMirror ==
  ASSUME StoreTypeOK, SelfMirrorsUsers, NEW cs,
         cs.session \in Session, cs.name \in Opt(Names),
         cs.channel \in Opt(ChannelId), cs.muted \in BOOLEAN,
         UpsertUserFromProto(cs)
  PROVE  SelfMirrorsUsers' /\ StoreTypeOK'
<1>1. MergedUser(cs) \in User /\ MergedUser(cs).session = cs.session
  BY MergedUserIsUser
<1>2. CASE self # None /\ self.session = cs.session
  BY <1>1, <1>2
     DEF UpsertUserFromProto, SelfMirrorsUsers, StoreTypeOK, User, Opt
<1>3. CASE ~(self # None /\ self.session = cs.session)
  BY <1>1, <1>3
     DEF UpsertUserFromProto, SelfMirrorsUsers, StoreTypeOK, User, Opt
<1>4. QED
  BY <1>2, <1>3

\* A removed user takes Self along, and nobody else does.
LEMMA RemoveUserKeepsMirror ==
  ASSUME StoreTypeOK, SelfMirrorsUsers, NEW s \in Session, RemoveUser(s)
  PROVE  SelfMirrorsUsers' /\ StoreTypeOK'
  BY DEF RemoveUser, SelfMirrorsUsers, StoreTypeOK, User, Opt

\* The channel methods do not come near users.
LEMMA ChannelsKeepMirror ==
  ASSUME StoreTypeOK, SelfMirrorsUsers,
         \/ \E cs : /\ cs.id \in ChannelId /\ cs.name \in Opt(Names)
                   /\ cs.position \in BOOLEAN
                   /\ UpsertChannelFromProto(cs)
         \/ \E c \in ChannelId : RemoveChannel(c)
  PROVE  SelfMirrorsUsers' /\ StoreTypeOK'
<1>1. ASSUME NEW cs, cs.id \in ChannelId, cs.name \in Opt(Names),
             cs.position \in BOOLEAN, UpsertChannelFromProto(cs)
      PROVE  SelfMirrorsUsers' /\ StoreTypeOK'
  <2>1. MergedChannel(cs) \in Channel
    BY <1>1, StoreConstants
       DEF MergedChannel, ZeroChannel, Channel, Sticky, StoreTypeOK, Opt
  <2>2. QED
    BY <1>1, <2>1
       DEF UpsertChannelFromProto, SelfMirrorsUsers, StoreTypeOK, Opt
<1>2. ASSUME NEW c \in ChannelId, RemoveChannel(c)
      PROVE  SelfMirrorsUsers' /\ StoreTypeOK'
  BY <1>2 DEF RemoveChannel, SelfMirrorsUsers, StoreTypeOK, Opt
<1>3. QED
  BY <1>1, <1>2

\* The inductive step for the store on its own.
LEMMA StoreStep ==
  StoreTypeOK /\ SelfMirrorsUsers /\ [StoreNext]_storeVars
    => SelfMirrorsUsers' /\ StoreTypeOK'
<1> SUFFICES ASSUME StoreTypeOK, SelfMirrorsUsers, [StoreNext]_storeVars
             PROVE  SelfMirrorsUsers' /\ StoreTypeOK'
  OBVIOUS
<1>1. ASSUME NEW cs \in User, UpsertUserFromProto(cs)
      PROVE  SelfMirrorsUsers' /\ StoreTypeOK'
  BY <1>1, UpsertUserKeepsMirror DEF User
<1>2. ASSUME NEW cs \in ChannelMsg, UpsertChannelFromProto(cs)
      PROVE  SelfMirrorsUsers' /\ StoreTypeOK'
  BY <1>2, ChannelsKeepMirror DEF ChannelMsg
<1>3. ASSUME NEW s \in Session, RemoveUser(s)
      PROVE  SelfMirrorsUsers' /\ StoreTypeOK'
  BY <1>3, RemoveUserKeepsMirror
<1>4. ASSUME NEW c \in ChannelId, RemoveChannel(c)
      PROVE  SelfMirrorsUsers' /\ StoreTypeOK'
  BY <1>4, ChannelsKeepMirror
<1>5. ASSUME NEW u \in User, SetSelf(u)
      PROVE  SelfMirrorsUsers' /\ StoreTypeOK'
  BY <1>5 DEF SetSelf, SelfMirrorsUsers, StoreTypeOK, User, Opt
<1>6. CASE MarkReady
  BY <1>6 DEF MarkReady, SelfMirrorsUsers, StoreTypeOK
<1>7. CASE UNCHANGED storeVars
  BY <1>7 DEF storeVars, SelfMirrorsUsers, StoreTypeOK
<1>8. QED
  BY <1>1, <1>2, <1>3, <1>4, <1>5, <1>6, <1>7 DEF StoreNext

\* The store's types hold always: no method stores a half-built entry.
\* Whatever the order of calls, Self is a copy of its entry in Users and
\* never outlives it (SetSelf, UpsertUserFromProto and RemoveUser keep the
\* two in step).
THEOREM SelfMirrored == StoreSpec => [](StoreTypeOK /\ SelfMirrorsUsers)
<1>1. StoreInit => StoreTypeOK /\ SelfMirrorsUsers
  BY DEF StoreInit, StoreTypeOK, SelfMirrorsUsers, Opt
<1>2. QED
  BY <1>1, StoreStep, PTL DEF StoreSpec
=============================================================================
