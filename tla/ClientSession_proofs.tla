------------------------- MODULE ClientSession_proofs -------------------------
(***************************************************************************)
(* Theorems about a session, for any sets of sessions, channels and names, *)
(* any server of the kind modelled and any number of changes and requests. *)
(***************************************************************************)
EXTENDS ClientSession, StateStore_proofs

\* What messageLoop and the application know of the roster between them: the
\* store is ahead of the application by the callback that is due, if any.
MirrorInv ==
  pc = "loop" =>
    /\ event = None => mirror = KnownUsers
    /\ event # None /\ event.type = "UserState" =>
         /\ event.id \in Session
         /\ mirror \cup {event.id} = KnownUsers
    /\ event # None /\ event.type = "UserLeft" => mirror \ {event.id} = KnownUsers
    /\ event # None /\ event.type \in {"ChannelAdded", "ChannelRemoved"}
         => mirror = KnownUsers

\* The inductive invariant: types, the two copies of Self in step, and the
\* application one callback behind at most.
SessionInv ==
  /\ TypeOK
  /\ SelfMirrorsUsers
  /\ MirrorInv
  /\ event # None => pc = "loop"

-----------------------------------------------------------------------------
(* What a frame taken off the wire is. *)

LEMMA ReadFrame ==
  ASSUME TypeOK, NEW type, Read(type)
  PROVE  /\ wire # <<>> /\ Head(wire) \in Msg /\ Head(wire).type = type
         /\ wire' \in Seq(Msg)
  BY DEF TypeOK, Read

LEMMA ReadUserState ==
  ASSUME TypeOK, Read("UserState")
  PROVE  /\ Head(wire).session \in Session /\ Head(wire).name \in Opt(Names)
         /\ Head(wire).channel \in Opt(ChannelId) /\ Head(wire).muted \in BOOLEAN
  BY ReadFrame DEF Msg, UserStateMsg, ChannelStateMsg

LEMMA ReadChannelState ==
  ASSUME TypeOK, Read("ChannelState")
  PROVE  /\ Head(wire).id \in ChannelId /\ Head(wire).name \in Opt(Names)
         /\ Head(wire).position \in BOOLEAN
  BY ReadFrame DEF Msg, UserStateMsg, ChannelStateMsg

LEMMA ReadOther ==
  ASSUME TypeOK, NEW type, Read(type)
  PROVE  /\ type \in {"UserRemove", "ServerSync"} => Head(wire).session \in Session
         /\ type = "ChannelRemove" => Head(wire).id \in ChannelId
  BY ReadFrame DEF Msg, UserStateMsg, ChannelStateMsg

\* An upsert adds the user to the known ones, a removal takes it out.
LEMMA KnownAfterUpsert ==
  ASSUME StoreTypeOK, NEW cs,
         cs.session \in Session, cs.name \in Opt(Names),
         cs.channel \in Opt(ChannelId), cs.muted \in BOOLEAN,
         UpsertUserFromProto(cs)
  PROVE  KnownUsers' = KnownUsers \cup {cs.session}
<1>1. MergedUser(cs) # None
  BY MergedUserIsUser, StoreConstants
<1>2. QED
  BY <1>1 DEF UpsertUserFromProto, KnownUsers, StoreTypeOK

LEMMA KnownAfterRemove ==
  ASSUME StoreTypeOK, NEW s \in Session, RemoveUser(s)
  PROVE  KnownUsers' = KnownUsers \ {s}
  BY DEF RemoveUser, KnownUsers, StoreTypeOK

-----------------------------------------------------------------------------
(* The server and the requests do not touch the store or the roster.        *)

LEMMA AnnounceTyped ==
  ASSUME SessionInv, NEW msg \in Msg, Announce(msg),
         srvUsers' \in [Session -> Opt(User)],
         srvChannels' \in [ChannelId -> Opt(Channel)],
         synced' \in BOOLEAN,
         wish' \in [channel : Opt(ChannelId), muted : Opt(BOOLEAN)]
  PROVE  SessionInv'
<1>1. edits' \in 0..MaxEdits
  BY SessionConstants DEF Announce, SessionInv, TypeOK
<1>2. wire' \in Seq(Msg)
  BY DEF Announce, SessionInv, TypeOK
<1>3. TypeOK'
  BY <1>1, <1>2 DEF Announce, SessionInv, TypeOK, StoreTypeOK, storeVars
<1>4. QED
  BY <1>3
     DEF Announce, SessionInv, SelfMirrorsUsers, MirrorInv, KnownUsers, storeVars

LEMMA ServerStep ==
  SessionInv /\ ServerNext => SessionInv'
<1> SUFFICES ASSUME SessionInv, ServerNext
             PROVE  SessionInv'
  OBVIOUS
<1> USE DEF SessionInv
<1>t. /\ srvUsers \in [Session -> Opt(User)]
      /\ srvChannels \in [ChannelId -> Opt(Channel)]
      /\ synced \in BOOLEAN
      /\ wish \in [channel : Opt(ChannelId), muted : Opt(BOOLEAN)]
      /\ wire \in Seq(Msg)
  BY DEF TypeOK
<1>1. ASSUME NEW c \in ChannelId, NEW n \in Names, SrvAddChannel(c, n)
      PROVE  SessionInv'
  <2>1. ChannelState(c, n, TRUE) \in Msg
    BY DEF ChannelState, Msg, ChannelStateMsg, Opt
  <2>2. srvChannels' \in [ChannelId -> Opt(Channel)]
    BY <1>1, <1>t DEF SrvAddChannel, Opt, Channel
  <2>3. QED
    BY <1>1, <1>t, <2>1, <2>2, AnnounceTyped DEF SrvAddChannel
<1>2. ASSUME NEW c \in ChannelId, NEW n \in Names, SrvRenameChannel(c, n)
      PROVE  SessionInv'
  <2>1. ChannelState(c, n, FALSE) \in Msg
    BY DEF ChannelState, Msg, ChannelStateMsg, Opt
  <2>2. srvChannels' \in [ChannelId -> Opt(Channel)]
    BY <1>2, <1>t DEF SrvRenameChannel, Opt, Channel
  <2>3. QED
    BY <1>2, <1>t, <2>1, <2>2, AnnounceTyped DEF SrvRenameChannel
<1>3. ASSUME NEW c \in ChannelId, SrvRemoveChannel(c)
      PROVE  SessionInv'
  <2>1. ChannelRemove(c) \in Msg
    BY DEF ChannelRemove, Msg
  <2>2. /\ srvChannels' \in [ChannelId -> Opt(Channel)]
        /\ wish' \in [channel : Opt(ChannelId), muted : Opt(BOOLEAN)]
    BY <1>3, <1>t DEF SrvRemoveChannel, Opt
  <2>3. QED
    BY <1>3, <1>t, <2>1, <2>2, AnnounceTyped DEF SrvRemoveChannel
<1>4. ASSUME NEW s \in Session, NEW n \in Names, NEW c \in ChannelId,
             SrvJoin(s, n, c)
      PROVE  SessionInv'
  <2>1. UserState(s, n, c, FALSE) \in Msg
    BY DEF UserState, Msg, UserStateMsg, Opt
  <2>2. srvUsers' \in [Session -> Opt(User)]
    BY <1>4, <1>t DEF SrvJoin, Opt, User
  <2>3. QED
    BY <1>4, <1>t, <2>1, <2>2, AnnounceTyped DEF SrvJoin
<1>5. ASSUME NEW s \in Session, NEW c \in ChannelId, SrvMove(s, c)
      PROVE  SessionInv'
  <2>1. UserState(s, None, c, FALSE) \in Msg
    BY DEF UserState, Msg, UserStateMsg, Opt
  <2>2. srvUsers' \in [Session -> Opt(User)]
    BY <1>5, <1>t DEF SrvMove, Opt, User
  <2>3. wish' \in [channel : Opt(ChannelId), muted : Opt(BOOLEAN)]
    BY <1>5, <1>t DEF SrvMove, Opt
  <2>4. QED
    BY <1>5, <1>t, <2>1, <2>2, <2>3, AnnounceTyped DEF SrvMove
<1>6. ASSUME NEW s \in Session, NEW m \in BOOLEAN, SrvMute(s, m)
      PROVE  SessionInv'
  <2>1. UserState(s, None, None, m) \in Msg
    BY DEF UserState, Msg, UserStateMsg, Opt
  <2>2. srvUsers' \in [Session -> Opt(User)]
    BY <1>6, <1>t DEF SrvMute, Opt, User
  <2>3. wish' \in [channel : Opt(ChannelId), muted : Opt(BOOLEAN)]
    BY <1>6, <1>t DEF SrvMute, Opt
  <2>4. QED
    BY <1>6, <1>t, <2>1, <2>2, <2>3, AnnounceTyped DEF SrvMute
<1>7. ASSUME NEW s \in Session, SrvLeave(s)
      PROVE  SessionInv'
  <2>1. UserRemove(s) \in Msg
    BY DEF UserRemove, Msg
  <2>2. /\ srvUsers' \in [Session -> Opt(User)]
        /\ wish' \in [channel : Opt(ChannelId), muted : Opt(BOOLEAN)]
    BY <1>7, <1>t DEF SrvLeave, Opt, NoWish
  <2>3. QED
    BY <1>7, <1>t, <2>1, <2>2, AnnounceTyped DEF SrvLeave
<1>8. ASSUME SrvSync \/ SrvReject
      PROVE  SessionInv'
  <2>1. ServerSync \in Msg /\ Reject \in Msg
    BY SessionConstants DEF ServerSync, Reject, Msg
  <2>2. wire' \in Seq(Msg)
    <3>1. ASSUME NEW msg \in Msg, wire' = Append(wire, msg)
          PROVE  wire' \in Seq(Msg)
      BY <1>t, <3>1
    <3>2. QED
      BY <1>8, <2>1, <3>1 DEF SrvSync, SrvReject
  <2>3. TypeOK'
    BY <1>8, <2>2
       DEF SrvSync, SrvReject, TypeOK, StoreTypeOK, storeVars, appVars
  <2>4. QED
    BY <1>8, <2>3
       DEF SrvSync, SrvReject, SelfMirrorsUsers, MirrorInv, KnownUsers, storeVars,
           appVars
<1>9. ASSUME SrvApply
      PROVE  SessionInv'
  <2> DEFINE r == Head(upwire)
             known == /\ r.session \in SrvRoster
                      /\ r.channel # None => srvChannels[r.channel] # None
             new == [session |-> r.session,
                     name    |-> srvUsers[r.session].name,
                     channel |-> Sticky(r.channel, srvUsers[r.session].channel),
                     muted   |-> Sticky(r.muted, srvUsers[r.session].muted)]
             msg == UserState(r.session, None, r.channel, r.muted = TRUE)
  <2>1. r \in Request /\ upwire' \in Seq(Request)
    BY <1>9 DEF SrvApply, TypeOK
  <2>2. msg \in Msg
    BY <2>1 DEF UserState, Msg, UserStateMsg, Opt, Request
  <2>3. known => new \in User
    <3>1. SUFFICES ASSUME known PROVE new \in User
      OBVIOUS
    <3>2. srvUsers[r.session] \in User
      BY <3>1, <1>t DEF SrvRoster, Opt
    <3>3. Sticky(r.channel, srvUsers[r.session].channel) \in Opt(ChannelId)
      BY <2>1, <3>2 DEF Sticky, Opt, User, Request
    <3>4. Sticky(r.muted, srvUsers[r.session].muted) \in BOOLEAN
      BY <2>1, <3>2 DEF Sticky, Opt, User, Request
    <3>5. QED
      BY <2>1, <3>2, <3>3, <3>4 DEF User, Request
  <2>4. srvUsers' \in [Session -> Opt(User)] /\ wire' \in Seq(Msg)
    <3>1. CASE known /\ new # srvUsers[r.session]
      <4>1. /\ srvUsers' = [srvUsers EXCEPT ![r.session] = new]
            /\ wire' = Append(wire, msg)
        BY <1>9, <3>1 DEF SrvApply
      <4>2. new \in Opt(User)
        BY <2>3, <3>1 DEF Opt
      <4> HIDE DEF r, known, new, msg
      <4>3. srvUsers' \in [Session -> Opt(User)]
        BY <4>1, <4>2, <1>t
      <4>4. wire' \in Seq(Msg)
        BY <4>1, <1>t, <2>2
      <4>5. QED
        BY <4>3, <4>4
    <3>2. CASE ~(known /\ new # srvUsers[r.session])
      BY <1>9, <3>2, <1>t DEF SrvApply, TypeOK
    <3>3. QED
      BY <3>1, <3>2
  <2>5. wish' \in [channel : Opt(ChannelId), muted : Opt(BOOLEAN)]
    BY <1>9, <1>t DEF SrvApply, NoWish, Opt
  <2>6. TypeOK'
    BY <1>9, <2>1, <2>4, <2>5 DEF SrvApply, TypeOK, StoreTypeOK, storeVars
  <2>7. QED
    BY <1>9, <2>6
       DEF SrvApply, SelfMirrorsUsers, MirrorInv, KnownUsers, storeVars
<1>10. QED
  BY <1>1, <1>2, <1>3, <1>4, <1>5, <1>6, <1>7, <1>8, <1>9 DEF ServerNext

-----------------------------------------------------------------------------
(* The reader.                                                              *)

\* What a step of the reader that leaves the server, the requests and the
\* application alone still has to establish.
LEMMA ReaderFrame ==
  ASSUME SessionInv, clientUnchanged, wire' \in Seq(Msg),
         StoreTypeOK', SelfMirrorsUsers', MirrorInv',
         pc' \in {"handshake", "connected", "loop", "rejected"},
         event' \in Opt(Event), event' # None => pc' = "loop"
  PROVE  SessionInv'
  BY DEF SessionInv, TypeOK, clientUnchanged, serverVars, appVars

LEMMA HandshakeStep ==
  SessionInv /\ (HsChannelState \/ HsUserState \/ HsUserRemove
                   \/ HsChannelRemove \/ HsServerSync \/ HsReject)
    => SessionInv'
<1> SUFFICES ASSUME SessionInv,
                    HsChannelState \/ HsUserState \/ HsUserRemove
                      \/ HsChannelRemove \/ HsServerSync \/ HsReject
             PROVE  SessionInv'
  OBVIOUS
<1> USE DEF SessionInv
<1>t. TypeOK /\ StoreTypeOK /\ SelfMirrorsUsers /\ event \in Opt(Event)
  BY DEF TypeOK
<1>1. CASE HsChannelState
  <2>1. StoreTypeOK' /\ SelfMirrorsUsers'
    BY <1>1, <1>t, ReadChannelState, ChannelsKeepMirror DEF HsChannelState
  <2>2. MirrorInv' /\ wire' \in Seq(Msg)
    BY <1>1, <1>t, ReadFrame DEF HsChannelState, MirrorInv
  <2>3. QED
    BY <1>1, <1>t, <2>1, <2>2, ReaderFrame DEF HsChannelState
<1>2. CASE HsUserState
  <2>1. StoreTypeOK' /\ SelfMirrorsUsers'
    BY <1>2, <1>t, ReadUserState, UpsertUserKeepsMirror DEF HsUserState
  <2>2. MirrorInv' /\ wire' \in Seq(Msg)
    BY <1>2, <1>t, ReadFrame DEF HsUserState, MirrorInv
  <2>3. QED
    BY <1>2, <1>t, <2>1, <2>2, ReaderFrame DEF HsUserState
<1>3. CASE HsUserRemove
  <2>1. StoreTypeOK' /\ SelfMirrorsUsers'
    <3>1. Head(wire).session \in Session
      BY <1>3, <1>t, ReadOther DEF HsUserRemove
    <3>2. CASE RemoveUser(Head(wire).session)
      BY <3>1, <3>2, <1>t, RemoveUserKeepsMirror
    <3>3. CASE UNCHANGED storeVars
      BY <3>3, <1>t DEF storeVars, StoreTypeOK, SelfMirrorsUsers
    <3>4. QED
      BY <1>3, <3>2, <3>3 DEF HsUserRemove
  <2>2. MirrorInv' /\ wire' \in Seq(Msg)
    BY <1>3, <1>t, ReadFrame DEF HsUserRemove, MirrorInv
  <2>3. QED
    BY <1>3, <1>t, <2>1, <2>2, ReaderFrame DEF HsUserRemove
<1>4. CASE HsChannelRemove
  <2>1. StoreTypeOK' /\ SelfMirrorsUsers'
    BY <1>4, <1>t DEF HsChannelRemove, storeVars, StoreTypeOK, SelfMirrorsUsers
  <2>2. MirrorInv' /\ wire' \in Seq(Msg)
    BY <1>4, <1>t, ReadFrame DEF HsChannelRemove, MirrorInv
  <2>3. QED
    BY <1>4, <1>t, <2>1, <2>2, ReaderFrame DEF HsChannelRemove
<1>5. CASE HsServerSync
  <2>1. Head(wire).session \in Session /\ wire' \in Seq(Msg)
    BY <1>5, <1>t, ReadOther, ReadFrame DEF HsServerSync
  <2>2. ZeroUser(Head(wire).session) \in User
    BY <2>1 DEF ZeroUser, User, Opt
  <2>3. StoreTypeOK'
    BY <1>5, <1>t, <2>2 DEF HsServerSync, StoreTypeOK, Opt
  <2>4. SelfMirrorsUsers'
    <3>1. Head(wire).session # 0
      BY <2>1, StoreConstants
    <3>2. /\ self' = ZeroUser(Head(wire).session)
          /\ users' = [users EXCEPT ![Head(wire).session]
                                     = ZeroUser(Head(wire).session)]
      BY <1>5, <3>1 DEF HsServerSync
    <3>3. ZeroUser(Head(wire).session).session = Head(wire).session
      BY DEF ZeroUser
    <3>4. users \in [Session -> Opt(User)]
      BY <1>t DEF StoreTypeOK
    <3>5. QED
      BY <2>1, <3>2, <3>3, <3>4 DEF SelfMirrorsUsers
  <2>5. MirrorInv'
    BY <1>5 DEF HsServerSync, MirrorInv
  <2>6. QED
    BY <1>5, <1>t, <2>1, <2>3, <2>4, <2>5, ReaderFrame DEF HsServerSync
<1>6. CASE HsReject
  <2>1. StoreTypeOK' /\ SelfMirrorsUsers'
    BY <1>6, <1>t DEF HsReject, storeVars, StoreTypeOK, SelfMirrorsUsers
  <2>2. MirrorInv' /\ wire' \in Seq(Msg)
    BY <1>6, <1>t, ReadFrame DEF HsReject, MirrorInv
  <2>3. QED
    BY <1>6, <1>t, <2>1, <2>2, ReaderFrame DEF HsReject
<1>7. QED
  BY <1>1, <1>2, <1>3, <1>4, <1>5, <1>6

LEMMA LoopStep ==
  SessionInv /\ (LoopChannelState \/ LoopChannelRemove \/ LoopUserState
                   \/ LoopUserRemove)
    => SessionInv'
<1> SUFFICES ASSUME SessionInv,
                    LoopChannelState \/ LoopChannelRemove \/ LoopUserState
                      \/ LoopUserRemove
             PROVE  SessionInv'
  OBVIOUS
<1> USE DEF SessionInv
<1>t. /\ TypeOK /\ StoreTypeOK /\ SelfMirrorsUsers
      /\ event \in Opt(Event) /\ None \notin Event
  BY SessionConstants DEF TypeOK
<1>1. CASE LoopChannelState
  <2> DEFINE e == [type |-> "ChannelAdded", id |-> Head(wire).id]
  <2>1. StoreTypeOK' /\ SelfMirrorsUsers' /\ wire' \in Seq(Msg)
    BY <1>1, <1>t, ReadChannelState, ReadFrame, ChannelsKeepMirror
       DEF LoopChannelState
  <2>2. e \in Event /\ e # None /\ event' = e
    BY <1>1, <1>t, ReadChannelState DEF LoopChannelState, Event
  <2>3. KnownUsers' = KnownUsers /\ mirror = KnownUsers /\ mirror' = mirror
    BY <1>1
       DEF LoopChannelState, loopUnchanged, clientUnchanged, appVars, MirrorInv,
           UpsertChannelFromProto, KnownUsers
  <2>4. MirrorInv'
    BY <2>2, <2>3 DEF MirrorInv
  <2>5. QED
    BY <1>1, <1>t, <2>1, <2>2, <2>4, ReaderFrame
       DEF LoopChannelState, loopUnchanged, Opt
<1>2. CASE LoopChannelRemove
  <2>1. wire' \in Seq(Msg) /\ Head(wire).id \in ChannelId
    BY <1>2, <1>t, ReadFrame, ReadOther DEF LoopChannelRemove
  <2>2. mirror = KnownUsers /\ mirror' = mirror
    BY <1>2
       DEF LoopChannelRemove, loopUnchanged, clientUnchanged, appVars, MirrorInv
  <2>3. CASE Head(wire).id # 0
    <3>1. /\ RemoveChannel(Head(wire).id)
          /\ event' = [type |-> "ChannelRemoved", id |-> Head(wire).id]
      BY <1>2, <2>3 DEF LoopChannelRemove
    <3>2. StoreTypeOK' /\ SelfMirrorsUsers'
      BY <1>t, <2>1, <3>1, ChannelsKeepMirror
    <3>3. event' \in Event
      BY <2>1, <3>1 DEF Event
    <3>4. MirrorInv'
      BY <1>t, <2>2, <3>1, <3>3 DEF MirrorInv, RemoveChannel, KnownUsers
    <3>5. QED
      BY <1>2, <1>t, <2>1, <3>2, <3>3, <3>4, ReaderFrame
         DEF LoopChannelRemove, loopUnchanged, Opt
  <2>4. CASE Head(wire).id = 0
    <3>1. UNCHANGED <<storeVars, event>>
      BY <1>2, <2>4 DEF LoopChannelRemove
    <3>2. StoreTypeOK' /\ SelfMirrorsUsers'
      BY <1>t, <3>1 DEF storeVars, StoreTypeOK, SelfMirrorsUsers
    <3>3. MirrorInv'
      BY <1>2, <2>2, <3>1 DEF LoopChannelRemove, MirrorInv, KnownUsers, storeVars
    <3>4. QED
      BY <1>2, <1>t, <2>1, <3>1, <3>2, <3>3, ReaderFrame
         DEF LoopChannelRemove, loopUnchanged
  <2>5. QED
    BY <2>3, <2>4
<1>3. CASE LoopUserState
  <2> DEFINE s == Head(wire).session
  <2>1. wire' \in Seq(Msg) /\ s \in Session
    BY <1>3, <1>t, ReadFrame, ReadUserState DEF LoopUserState
  <2>2. StoreTypeOK' /\ SelfMirrorsUsers' /\ KnownUsers' = KnownUsers \cup {s}
    BY <1>3, <1>t, ReadUserState, UpsertUserKeepsMirror, KnownAfterUpsert
       DEF LoopUserState
  <2>3. mirror = KnownUsers /\ mirror' = mirror
    BY <1>3
       DEF LoopUserState, loopUnchanged, clientUnchanged, appVars, MirrorInv
  <2>4. s # 0 /\ event' = [type |-> "UserState", id |-> s]
    BY <1>3, <2>1, StoreConstants DEF LoopUserState
  <2>5. event' \in Event
    BY <2>1, <2>4 DEF Event
  <2>6. MirrorInv'
    BY <1>t, <2>1, <2>2, <2>3, <2>4, <2>5 DEF MirrorInv
  <2>7. QED
    BY <1>3, <1>t, <2>1, <2>2, <2>5, <2>6, ReaderFrame
       DEF LoopUserState, loopUnchanged, Opt
<1>4. CASE LoopUserRemove
  <2> DEFINE s == Head(wire).session
  <2>1. wire' \in Seq(Msg) /\ s \in Session
    BY <1>4, <1>t, ReadFrame, ReadOther DEF LoopUserRemove
  <2>2. RemoveUser(s) /\ event' = [type |-> "UserLeft", id |-> s]
    BY <1>4, <2>1, StoreConstants DEF LoopUserRemove
  <2>3. StoreTypeOK' /\ SelfMirrorsUsers' /\ KnownUsers' = KnownUsers \ {s}
    BY <1>t, <2>1, <2>2, RemoveUserKeepsMirror, KnownAfterRemove
  <2>4. mirror = KnownUsers /\ mirror' = mirror
    BY <1>4
       DEF LoopUserRemove, loopUnchanged, clientUnchanged, appVars, MirrorInv
  <2>5. event' \in Event
    BY <2>1, <2>2 DEF Event
  <2>6. MirrorInv'
    BY <1>t, <2>2, <2>3, <2>4, <2>5 DEF MirrorInv
  <2>7. QED
    BY <1>4, <1>t, <2>1, <2>3, <2>5, <2>6, ReaderFrame
       DEF LoopUserRemove, loopUnchanged, Opt
<1>5. QED
  BY <1>1, <1>2, <1>3, <1>4

LEMMA CallbackStep ==
  SessionInv /\ (EmitConnect \/ Emit) => SessionInv'
<1> SUFFICES ASSUME SessionInv, EmitConnect \/ Emit
             PROVE  SessionInv'
  OBVIOUS
<1> USE DEF SessionInv
<1>t. /\ TypeOK /\ StoreTypeOK /\ SelfMirrorsUsers
      /\ event \in Opt(Event) /\ None \notin Event
  BY SessionConstants DEF TypeOK
<1>1. UNCHANGED storeVars
  BY DEF EmitConnect, Emit
<1>2. StoreTypeOK' /\ SelfMirrorsUsers' /\ KnownUsers' = KnownUsers
  BY <1>1, <1>t DEF storeVars, StoreTypeOK, SelfMirrorsUsers, KnownUsers
<1>3. mirror' = KnownUsers /\ event' = None /\ pc' = "loop"
  <2>1. CASE EmitConnect
    BY <2>1 DEF EmitConnect
  <2>2. CASE Emit
    <3>1. event \in Event
      BY <2>2, <1>t DEF Emit, Opt
    <3>2. event.type \in {"UserState", "UserLeft", "ChannelAdded", "ChannelRemoved"}
      BY <3>1 DEF Event
    <3>3. QED
      BY <2>2, <3>2 DEF Emit, MirrorInv
  <2>3. QED
    BY <2>1, <2>2
<1>4. MirrorInv'
  BY <1>2, <1>3 DEF MirrorInv
<1>5. mirror' \subseteq Session
  BY <1>3 DEF KnownUsers
<1>6. QED
  BY <1>t, <1>2, <1>3, <1>4, <1>5 DEF EmitConnect, Emit, TypeOK, serverVars, Opt

\* A request carries this client's session, and nothing but the request and
\* the application's own record of it changes.
LEMMA RequestStep ==
  SessionInv /\ AppNext => SessionInv'
<1> SUFFICES ASSUME SessionInv, AppNext
             PROVE  SessionInv'
  OBVIOUS
<1> USE DEF SessionInv
<1>1. ASSUME CanRequest
      PROVE  SelfSession \in Session
  BY <1>1 DEF CanRequest, SelfSession, TypeOK, StoreTypeOK, Opt, User
<1>2. ASSUME NEW us, SendUserState(us), us.session \in Session,
             us.channel \in ChannelId, us.muted \in BOOLEAN,
             wish' \in [channel : Opt(ChannelId), muted : Opt(BOOLEAN)]
      PROVE  SessionInv'
  <2>1. OnTheWire(us) \in Request
    BY <1>2 DEF OnTheWire, Request, Opt
  <2>2. upwire' \in Seq(Request) /\ commands' \in 0..MaxCommands
    BY <1>2, <2>1, SessionConstants DEF SendUserState, TypeOK
  <2>3. TypeOK'
    BY <1>2, <2>2 DEF SendUserState, TypeOK, StoreTypeOK, storeVars, serverVars
  <2>4. QED
    BY <1>2, <2>3
       DEF SendUserState, SelfMirrorsUsers, MirrorInv, KnownUsers, storeVars
<1>3. ASSUME NEW c \in ChannelId, JoinChannel(c)
      PROVE  SessionInv'
  <2>1. wish' \in [channel : Opt(ChannelId), muted : Opt(BOOLEAN)]
    BY <1>3 DEF JoinChannel, TypeOK, Opt
  <2>2. QED
    BY <1>1, <1>2, <1>3, <2>1 DEF JoinChannel
<1>4. ASSUME NEW n \in Names, JoinChannelByName(n)
      PROVE  SessionInv'
  BY <1>3, <1>4 DEF JoinChannelByName, KnownChannels
<1>5. ASSUME NEW m \in BOOLEAN, SetSelfMute(m)
      PROVE  SessionInv'
  <2>1. wish' \in [channel : Opt(ChannelId), muted : Opt(BOOLEAN)]
    BY <1>5 DEF SetSelfMute, TypeOK, Opt
  <2>2. QED
    BY <1>1, <1>2, <1>5, <2>1, SessionConstants DEF SetSelfMute
<1>6. QED
  BY <1>3, <1>4, <1>5 DEF AppNext

-----------------------------------------------------------------------------

LEMMA SessionInit == Init => SessionInv
  BY SessionConstants
     DEF Init, SessionInv, TypeOK, StoreInit, StoreTypeOK, SelfMirrorsUsers,
         MirrorInv, NoWish, Opt

LEMMA SessionInductive == SessionInv /\ [Next]_vars => SessionInv'
<1>1. SessionInv /\ UNCHANGED vars => SessionInv'
  BY DEF SessionInv, TypeOK, StoreTypeOK, SelfMirrorsUsers, MirrorInv, KnownUsers,
         vars
<1>2. QED
  BY <1>1, ServerStep, HandshakeStep, LoopStep, CallbackStep, RequestStep
     DEF Next, ClientNext

\* Types, the own user, and the application an event behind, in every state.
THEOREM SessionInvariant == Spec => []SessionInv
  BY SessionInit, SessionInductive, PTL DEF Spec

\* Every frame, request and store entry is of its type, for all constants.
THEOREM SessionTyped == Spec => []TypeOK
<1>1. SessionInv => TypeOK
  BY DEF SessionInv
<1>2. QED
  BY <1>1, SessionInvariant, PTL

\* The store driven by the handshake and by messageLoop keeps Self and its
\* entry in Users equal, ServerSync's combined update included.
THEOREM SessionSelfMirrored == Spec => []SelfMirrorsUsers
<1>1. SessionInv => SelfMirrorsUsers
  BY DEF SessionInv
<1>2. QED
  BY <1>1, SessionInvariant, PTL

\* An application that snapshots the store in OnConnect and follows the
\* callbacks has the store's roster whenever no callback is due.
THEOREM ApplicationFollows == Spec => []MirrorSynced
<1>1. SessionInv => MirrorSynced
  BY DEF SessionInv, MirrorInv, MirrorSynced
<1>2. QED
  BY <1>1, SessionInvariant, PTL

-----------------------------------------------------------------------------
(* What a queue of frames will make of whoever reads it.                    *)

\* There is no frame of C on it.
Silent(w, C) == \A i \in DOMAIN w : w[i] \notin C

\* Of the frames of C, which overrule each other, the last one is in G.
Final(w, C, G) ==
  \A i \in DOMAIN w :
    w[i] \in C /\ (\A j \in DOMAIN w : j > i => w[j] \notin C) => w[i] \in G

\* A frame of C is never followed by one of D.
NoneAfter(w, C, D) ==
  \A i, j \in DOMAIN w : i < j /\ w[i] \in C => w[j] \notin D

LEMMA Appended ==
  ASSUME NEW S, NEW w \in Seq(S), NEW m \in S, NEW C, NEW G
  PROVE  /\ Silent(Append(w, m), C) <=> Silent(w, C) /\ m \notin C
         /\ m \notin C /\ Final(w, C, G) => Final(Append(w, m), C, G)
         /\ m \in C /\ m \in G => Final(Append(w, m), C, G)
         /\ NoneAfter(w, C, G) /\ (Silent(w, C) \/ m \notin G)
              => NoneAfter(Append(w, m), C, G)
<1> DEFINE v == Append(w, m)
<1>1. /\ DOMAIN w = 1..Len(w) /\ DOMAIN v = 1..Len(w) + 1 /\ Len(w) \in Nat
      /\ \A i \in 1..Len(w) : v[i] = w[i]
      /\ v[Len(w) + 1] = m
  OBVIOUS
<1> HIDE DEF v
<1>2. Silent(v, C) <=> Silent(w, C) /\ m \notin C
  BY <1>1 DEF Silent
<1>3. NoneAfter(w, C, G) /\ (Silent(w, C) \/ m \notin G) => NoneAfter(v, C, G)
  BY <1>1 DEF Silent, NoneAfter
<1>4. m \notin C /\ Final(w, C, G) => Final(v, C, G)
  BY <1>1 DEF Final
<1>5. m \in C /\ m \in G => Final(v, C, G)
  BY <1>1 DEF Final
<1>6. QED
  BY <1>2, <1>3, <1>4, <1>5 DEF v

LEMMA Taken ==
  ASSUME NEW S, NEW w \in Seq(S), w # <<>>, NEW C, NEW G
  PROVE  /\ Silent(w, C) <=> Head(w) \notin C /\ Silent(Tail(w), C)
         /\ Final(w, C, G) => Final(Tail(w), C, G)
         /\ Head(w) \in C /\ Silent(Tail(w), C) /\ Final(w, C, G) => Head(w) \in G
         /\ NoneAfter(w, C, G) => NoneAfter(Tail(w), C, G)
         /\ NoneAfter(w, C, G) /\ Head(w) \in C => Silent(Tail(w), G)
<1> DEFINE v == Tail(w)
<1>1. /\ DOMAIN w = 1..Len(w) /\ DOMAIN v = 1..Len(w) - 1
      /\ Len(w) \in Nat /\ Len(w) > 0
      /\ \A i \in 1..Len(w) - 1 : v[i] = w[i + 1]
      /\ Head(w) = w[1]
  OBVIOUS
<1>2. \A i \in 2..Len(w) : i - 1 \in 1..Len(w) - 1 /\ w[i] = v[i - 1]
  BY <1>1
<1> HIDE DEF v
<1>3. Final(w, C, G) => Final(v, C, G)
  <2> SUFFICES ASSUME Final(w, C, G), NEW i \in DOMAIN v, v[i] \in C,
                      \A j \in DOMAIN v : j > i => v[j] \notin C
               PROVE  v[i] \in G
    BY DEF Final
  <2>1. i + 1 \in DOMAIN w /\ w[i + 1] = v[i]
    BY <1>1
  <2>2. ASSUME NEW j \in DOMAIN w, j > i + 1
        PROVE  w[j] \notin C
    <3>1. j - 1 \in DOMAIN v /\ w[j] = v[j - 1] /\ j - 1 > i
      BY <1>1, <1>2, <2>2
    <3>2. QED
      BY <3>1
  <2>3. QED
    BY <2>1, <2>2 DEF Final
<1>4. Silent(w, C) <=> Head(w) \notin C /\ Silent(v, C)
  <2>1. \A i \in DOMAIN w : i = 1 \/ i \in 2..Len(w)
    BY <1>1
  <2>2. 1 \in DOMAIN w /\ \A i \in DOMAIN v : i + 1 \in DOMAIN w
    BY <1>1
  <2>3. QED
    BY <1>1, <1>2, <2>1, <2>2 DEF Silent
<1>5. Head(w) \in C /\ Silent(v, C) /\ Final(w, C, G) => Head(w) \in G
  <2> SUFFICES ASSUME w[1] \in C, Silent(v, C), Final(w, C, G)
               PROVE  w[1] \in G
    BY <1>1
  <2>1. ASSUME NEW j \in DOMAIN w, j > 1
        PROVE  w[j] \notin C
    <3>1. j - 1 \in DOMAIN v /\ w[j] = v[j - 1]
      BY <1>1, <1>2, <2>1
    <3>2. QED
      BY <3>1 DEF Silent
  <2>2. QED
    BY <1>1, <2>1 DEF Final
<1>6. NoneAfter(w, C, G) => NoneAfter(v, C, G)
  <2>1. \A i \in DOMAIN v : i \in Nat /\ i + 1 \in DOMAIN w /\ v[i] = w[i + 1]
    BY <1>1
  <2>2. QED
    BY <2>1 DEF NoneAfter
<1>7. NoneAfter(w, C, G) /\ Head(w) \in C => Silent(v, G)
  <2>1. 1 \in DOMAIN w /\ \A i \in DOMAIN v : i + 1 \in DOMAIN w /\ 1 < i + 1
    BY <1>1
  <2>2. QED
    BY <1>1, <2>1 DEF NoneAfter, Silent
<1>8. QED
  BY <1>3, <1>4, <1>5, <1>6, <1>7 DEF v

-----------------------------------------------------------------------------
(* The roster: the store's entry for a user, brought up to date by the      *)
(* frames about it that are on their way, is the server's.                  *)

About(s) ==
  {m \in Msg : m.type \in {"UserState", "UserRemove", "ServerSync"} /\ m.session = s}

\* Those that overrule what was known of the name, and of the place.
Naming(s)  == {m \in About(s) : m.type = "UserState" => m.name # None}
Placing(s) == {m \in About(s) : m.type = "UserState" => m.channel # None}

Coming    == {m \in Msg : m.type \in {"UserState", "ServerSync"}}
Leaving   == {m \in Msg : m.type = "UserRemove"}
Named(n)  == {m \in Msg : m.type = "UserState" /\ m.name = n}
Placed(c) == {m \in Msg : m.type = "UserState" /\ m.channel = c}

KnownAt(s) ==
  /\ Silent(wire, About(s)) => (users[s] = None <=> srvUsers[s] = None)
  /\ srvUsers[s] = None => Final(wire, About(s), Leaving)
  /\ srvUsers[s] # None => Final(wire, About(s), Coming)

NamedAt(s) ==
  srvUsers[s] # None =>
    /\ Silent(wire, Naming(s)) =>
         users[s] # None /\ users[s].name = srvUsers[s].name
    /\ Final(wire, Naming(s), Named(srvUsers[s].name))

PlacedAt(s) ==
  srvUsers[s] # None =>
    /\ Silent(wire, Placing(s)) =>
         users[s] # None /\ users[s].channel = srvUsers[s].channel
    /\ Final(wire, Placing(s), Placed(srvUsers[s].channel))

UserAt(s) == KnownAt(s) /\ (s # Me => NamedAt(s) /\ PlacedAt(s))

RosterInv == \A s \in Session : UserAt(s)

\* A frame tells what the server did to the user with session s.
Tells(msg, s) ==
  \/ msg \notin About(s) /\ srvUsers'[s] = srvUsers[s]
  \/ msg \in About(s) /\ msg.type = "UserRemove" /\ srvUsers'[s] = None
  \/ /\ msg \in About(s) /\ msg.type = "UserState" /\ srvUsers'[s] # None
     /\ srvUsers[s] = None => msg.name # None /\ msg.channel # None
     /\ srvUsers'[s].name = Sticky(msg.name, srvUsers[s].name)
     /\ srvUsers'[s].channel = Sticky(msg.channel, srvUsers[s].channel)
  \/ /\ msg.type = "ServerSync" /\ s = Me
     /\ srvUsers'[s] = srvUsers[s] /\ srvUsers[s] # None

LEMMA ToldKnown ==
  ASSUME wire \in Seq(Msg), NEW msg \in Msg, NEW s \in Session, UserAt(s),
         wire' = Append(wire, msg), users' = users, Tells(msg, s)
  PROVE  KnownAt(s)'
<1>1. CASE msg \notin About(s) /\ srvUsers'[s] = srvUsers[s]
  BY <1>1, Appended DEF KnownAt, UserAt
<1>2. CASE msg \in About(s) /\ msg.type = "UserRemove" /\ srvUsers'[s] = None
  <2>1. msg \in Leaving
    BY <1>2 DEF Leaving
  <2>2. QED
    BY <1>2, <2>1, Appended DEF KnownAt, UserAt
<1>3. CASE msg \in About(s) /\ msg.type = "UserState" /\ srvUsers'[s] # None
  <2>1. msg \in Coming
    BY <1>3 DEF Coming
  <2>2. QED
    BY <1>3, <2>1, Appended DEF KnownAt, UserAt
<1>4. CASE /\ msg.type = "ServerSync" /\ s = Me
           /\ srvUsers'[s] = srvUsers[s] /\ srvUsers[s] # None
  <2>1. msg \in Coming
    BY <1>4 DEF Coming
  <2>2. CASE msg \in About(s)
    BY <1>4, <2>1, <2>2, Appended DEF KnownAt, UserAt
  <2>3. CASE msg \notin About(s)
    BY <1>4, <2>3, Appended DEF KnownAt, UserAt
  <2>4. QED
    BY <2>2, <2>3
<1>5. QED
  BY <1>1, <1>2, <1>3, <1>4 DEF Tells

LEMMA ToldNamed ==
  ASSUME wire \in Seq(Msg), NEW msg \in Msg, NEW s \in Session, UserAt(s), s # Me,
         wire' = Append(wire, msg), users' = users, Tells(msg, s)
  PROVE  NamedAt(s)'
<1>1. CASE msg \notin About(s) /\ srvUsers'[s] = srvUsers[s]
  <2>1. msg \notin Naming(s)
    BY <1>1 DEF Naming
  <2>2. QED
    BY <1>1, <2>1, Appended DEF NamedAt, UserAt
<1>2. CASE srvUsers'[s] = None
  BY <1>2 DEF NamedAt
<1>3. CASE /\ msg \in About(s) /\ msg.type = "UserState"
           /\ srvUsers[s] = None => msg.name # None
           /\ srvUsers'[s].name = Sticky(msg.name, srvUsers[s].name)
  <2>1. CASE msg.name = None
    <3>1. msg \notin Naming(s)
      BY <1>3, <2>1 DEF Naming
    <3>2. srvUsers[s] # None /\ srvUsers'[s].name = srvUsers[s].name
      BY <1>3, <2>1 DEF Sticky
    <3>3. QED
      BY <3>1, <3>2, Appended DEF NamedAt, UserAt
  <2>2. CASE msg.name # None
    <3>1. msg \in Naming(s) /\ msg \in Named(srvUsers'[s].name)
      BY <1>3, <2>2 DEF Naming, Named, Sticky
    <3>2. QED
      BY <3>1, Appended DEF NamedAt
  <2>3. QED
    BY <2>1, <2>2
<1>4. QED
  BY <1>1, <1>2, <1>3 DEF Tells

LEMMA ToldPlaced ==
  ASSUME wire \in Seq(Msg), NEW msg \in Msg, NEW s \in Session, UserAt(s), s # Me,
         wire' = Append(wire, msg), users' = users, Tells(msg, s)
  PROVE  PlacedAt(s)'
<1>1. CASE msg \notin About(s) /\ srvUsers'[s] = srvUsers[s]
  <2>1. msg \notin Placing(s)
    BY <1>1 DEF Placing
  <2>2. QED
    BY <1>1, <2>1, Appended DEF PlacedAt, UserAt
<1>2. CASE srvUsers'[s] = None
  BY <1>2 DEF PlacedAt
<1>3. CASE /\ msg \in About(s) /\ msg.type = "UserState"
           /\ srvUsers[s] = None => msg.channel # None
           /\ srvUsers'[s].channel = Sticky(msg.channel, srvUsers[s].channel)
  <2>1. CASE msg.channel = None
    <3>1. msg \notin Placing(s)
      BY <1>3, <2>1 DEF Placing
    <3>2. srvUsers[s] # None /\ srvUsers'[s].channel = srvUsers[s].channel
      BY <1>3, <2>1 DEF Sticky
    <3>3. QED
      BY <3>1, <3>2, Appended DEF PlacedAt, UserAt
  <2>2. CASE msg.channel # None
    <3>1. msg \in Placing(s) /\ msg \in Placed(srvUsers'[s].channel)
      BY <1>3, <2>2 DEF Placing, Placed, Sticky
    <3>2. QED
      BY <3>1, Appended DEF PlacedAt
  <2>3. QED
    BY <2>1, <2>2
<1>4. QED
  BY <1>1, <1>2, <1>3 DEF Tells
LEMMA RosterTold ==
  ASSUME wire \in Seq(Msg), RosterInv, NEW msg \in Msg,
         wire' = Append(wire, msg), users' = users,
         \A s \in Session : Tells(msg, s)
  PROVE  RosterInv'
<1> SUFFICES ASSUME NEW s \in Session
             PROVE  UserAt(s)'
  BY DEF RosterInv
<1>1. UserAt(s) /\ Tells(msg, s)
  BY DEF RosterInv
<1>2. KnownAt(s)'
  BY <1>1, ToldKnown
<1>3. s # Me => NamedAt(s)' /\ PlacedAt(s)'
  BY <1>1, ToldNamed, ToldPlaced
<1>4. QED
  BY <1>2, <1>3 DEF UserAt

-----------------------------------------------------------------------------
(* Channels.                                                                *)

AboutChannel(c) ==
  {m \in Msg : m.type \in {"ChannelState", "ChannelRemove"} /\ m.id = c}

Removal  == {m \in Msg : m.type = "ChannelRemove"}
Gone     == {m \in Removal : m.id # 0}
Title(n) == {m \in Msg : m.type = "ChannelState" /\ m.name = n /\ n # None}

ChannelAt(c) ==
  /\ Silent(wire, AboutChannel(c)) =>
       /\ channels[c] = None <=> srvChannels[c] = None
       /\ channels[c] # None => channels[c].name = srvChannels[c].name
  /\ srvChannels[c] = None => Final(wire, AboutChannel(c), Gone)
  /\ srvChannels[c] # None => Final(wire, AboutChannel(c), Title(srvChannels[c].name))

\* A frame tells what the server did to channel c.
TellsChannel(msg, c) ==
  \/ msg \notin AboutChannel(c) /\ srvChannels'[c] = srvChannels[c]
  \/ msg \in AboutChannel(c) /\ msg \in Gone /\ srvChannels'[c] = None
  \/ /\ msg \in AboutChannel(c) /\ srvChannels'[c] # None
     /\ msg \in Title(srvChannels'[c].name)

LEMMA ChannelTold ==
  ASSUME wire \in Seq(Msg), NEW msg \in Msg, NEW c \in ChannelId, ChannelAt(c),
         wire' = Append(wire, msg), channels' = channels, TellsChannel(msg, c)
  PROVE  ChannelAt(c)'
<1>1. CASE msg \notin AboutChannel(c) /\ srvChannels'[c] = srvChannels[c]
  BY <1>1, Appended DEF ChannelAt
<1>2. CASE msg \in AboutChannel(c) /\ msg \in Gone /\ srvChannels'[c] = None
  BY <1>2, Appended DEF ChannelAt
<1>3. CASE /\ msg \in AboutChannel(c) /\ srvChannels'[c] # None
           /\ msg \in Title(srvChannels'[c].name)
  BY <1>3, Appended DEF ChannelAt
<1>4. QED
  BY <1>1, <1>2, <1>3 DEF TellsChannel

-----------------------------------------------------------------------------
(* What the server says: every change of its state is told by the frame     *)
(* that goes with it, and some things are not said before the handshake     *)
(* ends, or after this client has left.                                     *)

\* What ends the handshake.
Ending == {m \in Msg : m.type \in {"ServerSync", "Reject"}}

\* The end of this client.
Farewell == {m \in Msg : m.type = "UserRemove" /\ m.session = Me}

\* A ServerSync for somebody else.
Stray == {m \in Msg : m.type = "ServerSync" /\ m.session # Me}

Says(msg) ==
  /\ msg \in Msg /\ msg \notin Stray /\ wire' = Append(wire, msg)
  /\ \A s \in Session : Tells(msg, s)
  /\ \A c \in ChannelId : TellsChannel(msg, c)
  /\ synced' = (synced \/ msg \in Ending)
  /\ msg \in Ending => ~synced
  /\ msg \in Removal => synced \/ EarlyRemoval
  /\ msg \in Farewell => synced
  /\ msg \in About(Me) /\ synced => srvUsers[Me] # None

LEMMA ServerSays ==
  ASSUME SessionInv, ServerNext
  PROVE  /\ UNCHANGED <<users, channels, self, pc>>
         /\ \/ UNCHANGED <<wire, srvUsers, srvChannels, synced>>
            \/ \E msg : Says(msg)
<1>t. /\ srvUsers \in [Session -> Opt(User)]
      /\ srvChannels \in [ChannelId -> Opt(Channel)]
      /\ synced \in BOOLEAN
      /\ None \notin Session \cup ChannelId \cup Names \cup User \cup Channel
      /\ Me \in Session
  BY StoreConstants, SessionConstants DEF SessionInv, TypeOK
<1>1. ASSUME NEW c \in ChannelId, NEW n \in Names, SrvAddChannel(c, n)
      PROVE  UNCHANGED <<users, channels, self, pc>> /\ Says(ChannelState(c, n, TRUE))
  <2> DEFINE msg == ChannelState(c, n, TRUE)
  <2>1. /\ msg \in Msg /\ msg.type = "ChannelState" /\ msg.id = c /\ msg.name = n
        /\ n # None
    BY <1>t DEF ChannelState, Msg, ChannelStateMsg, Opt
  <2>2. srvChannels' = [srvChannels EXCEPT ![c] = [name |-> n, position |-> TRUE]]
    BY <1>1 DEF SrvAddChannel
  <2>3. [name |-> n, position |-> TRUE] # None
    <3>1. [name |-> n, position |-> TRUE] \in Channel
      BY DEF Channel, Opt
    <3>2. QED
      BY <1>t, <3>1
  <2>4. /\ UNCHANGED <<users, channels, self, pc, srvUsers, synced>>
        /\ wire' = Append(wire, msg)
    BY <1>1 DEF SrvAddChannel, Announce, storeVars
  <2> HIDE DEF msg
  <2>5. \A d \in ChannelId : TellsChannel(msg, d)
    BY <1>t, <2>1, <2>2, <2>3 DEF TellsChannel, AboutChannel, Title
  <2>6. /\ \A s \in Session : Tells(msg, s)
        /\ msg \notin Ending \cup Removal \cup Farewell \cup Stray \cup About(Me)
    BY <2>1, <2>4 DEF Tells, About, Ending, Removal, Farewell, Stray
  <2>7. QED
    BY <1>t, <2>1, <2>4, <2>5, <2>6 DEF Says, msg
<1>2. ASSUME NEW c \in ChannelId, NEW n \in Names, SrvRenameChannel(c, n)
      PROVE  UNCHANGED <<users, channels, self, pc>> /\ Says(ChannelState(c, n, FALSE))
  <2> DEFINE msg == ChannelState(c, n, FALSE)
  <2>1. /\ msg \in Msg /\ msg.type = "ChannelState" /\ msg.id = c /\ msg.name = n
        /\ n # None
    BY <1>t DEF ChannelState, Msg, ChannelStateMsg, Opt
  <2>2. srvChannels' = [srvChannels EXCEPT ![c].name = n] /\ srvChannels[c] # None
    BY <1>2 DEF SrvRenameChannel
  <2>3. /\ srvChannels'[c] \in Channel /\ srvChannels'[c].name = n
        /\ \A d \in ChannelId : d # c => srvChannels'[d] = srvChannels[d]
    BY <1>t, <2>2 DEF Channel, Opt
  <2>4. /\ UNCHANGED <<users, channels, self, pc, srvUsers, synced>>
        /\ wire' = Append(wire, msg)
    BY <1>2 DEF SrvRenameChannel, Announce, storeVars
  <2> HIDE DEF msg
  <2>5. \A d \in ChannelId : TellsChannel(msg, d)
    BY <1>t, <2>1, <2>3 DEF TellsChannel, AboutChannel, Title
  <2>6. /\ \A s \in Session : Tells(msg, s)
        /\ msg \notin Ending \cup Removal \cup Farewell \cup Stray \cup About(Me)
    BY <2>1, <2>4 DEF Tells, About, Ending, Removal, Farewell, Stray
  <2>7. QED
    BY <1>t, <2>1, <2>4, <2>5, <2>6 DEF Says, msg
<1>3. ASSUME NEW c \in ChannelId, SrvRemoveChannel(c)
      PROVE  UNCHANGED <<users, channels, self, pc>> /\ Says(ChannelRemove(c))
  <2> DEFINE msg == ChannelRemove(c)
  <2>1. msg \in Msg /\ msg.type = "ChannelRemove" /\ msg.id = c /\ c # 0
    BY <1>3 DEF SrvRemoveChannel, ChannelRemove, Msg
  <2>2. srvChannels' = [srvChannels EXCEPT ![c] = None]
    BY <1>3 DEF SrvRemoveChannel
  <2>3. /\ UNCHANGED <<users, channels, self, pc, srvUsers, synced>>
        /\ wire' = Append(wire, msg) /\ (synced \/ EarlyRemoval)
    BY <1>3 DEF SrvRemoveChannel, Announce, storeVars
  <2> HIDE DEF msg
  <2>4. \A d \in ChannelId : TellsChannel(msg, d)
    BY <1>t, <2>1, <2>2 DEF TellsChannel, AboutChannel, Gone, Removal
  <2>5. /\ \A s \in Session : Tells(msg, s)
        /\ msg \notin Ending \cup Farewell \cup Stray \cup About(Me)
    BY <2>1, <2>3 DEF Tells, About, Ending, Farewell, Stray
  <2>6. QED
    BY <1>t, <2>1, <2>3, <2>4, <2>5 DEF Says, msg
<1>4. ASSUME NEW s \in Session, NEW n \in Names, NEW c \in ChannelId,
             SrvJoin(s, n, c)
      PROVE  UNCHANGED <<users, channels, self, pc>> /\ Says(UserState(s, n, c, FALSE))
  <2> DEFINE msg == UserState(s, n, c, FALSE)
             new == [session |-> s, name |-> n, channel |-> c, muted |-> FALSE]
  <2>1. /\ msg \in Msg /\ msg.type = "UserState" /\ msg.session = s
        /\ msg.name = n /\ msg.channel = c /\ n # None /\ c # None
    BY <1>t DEF UserState, Msg, UserStateMsg, Opt
  <2>2. srvUsers' = [srvUsers EXCEPT ![s] = new] /\ srvUsers[s] = None
    BY <1>4 DEF SrvJoin
  <2>3. new # None /\ new.name = n /\ new.channel = c
    <3>1. new \in User
      BY DEF User, Opt
    <3>2. new # None
      BY <1>t, <3>1
    <3>3. QED
      BY <3>2
  <2>4. /\ UNCHANGED <<users, channels, self, pc, srvChannels, synced>>
        /\ wire' = Append(wire, msg) /\ (s = Me => ~synced)
    BY <1>4 DEF SrvJoin, Announce, storeVars
  <2> HIDE DEF msg, new
  <2>5. \A d \in Session : Tells(msg, d)
    BY <1>t, <2>1, <2>2, <2>3 DEF Tells, About, Sticky
  <2>6. /\ \A d \in ChannelId : TellsChannel(msg, d)
        /\ msg \notin Ending \cup Removal \cup Farewell \cup Stray
        /\ msg \in About(Me) => s = Me
    BY <2>1, <2>4 DEF TellsChannel, AboutChannel, Ending, Removal, Farewell, Stray, About
  <2>7. QED
    BY <1>t, <2>1, <2>4, <2>5, <2>6 DEF Says, msg
<1>5. ASSUME NEW s \in Session, NEW c \in ChannelId, SrvMove(s, c)
      PROVE  UNCHANGED <<users, channels, self, pc>> /\ Says(UserState(s, None, c, FALSE))
  <2> DEFINE msg == UserState(s, None, c, FALSE)
  <2>1. /\ msg \in Msg /\ msg.type = "UserState" /\ msg.session = s
        /\ msg.name = None /\ msg.channel = c /\ c # None
    BY <1>t DEF UserState, Msg, UserStateMsg, Opt
  <2>2. srvUsers' = [srvUsers EXCEPT ![s].channel = c] /\ srvUsers[s] # None
    BY <1>5 DEF SrvMove
  <2>3. /\ srvUsers'[s] \in User /\ srvUsers'[s].channel = c
        /\ srvUsers'[s].name = srvUsers[s].name
        /\ \A d \in Session : d # s => srvUsers'[d] = srvUsers[d]
    BY <1>t, <2>2 DEF User, Opt
  <2>4. /\ UNCHANGED <<users, channels, self, pc, srvChannels, synced>>
        /\ wire' = Append(wire, msg)
    BY <1>5 DEF SrvMove, Announce, storeVars
  <2> HIDE DEF msg
  <2>5. \A d \in Session : Tells(msg, d)
    BY <1>t, <2>1, <2>2, <2>3 DEF Tells, About, Sticky
  <2>6. /\ \A d \in ChannelId : TellsChannel(msg, d)
        /\ msg \notin Ending \cup Removal \cup Farewell \cup Stray
        /\ msg \in About(Me) => s = Me
    BY <2>1, <2>4 DEF TellsChannel, AboutChannel, Ending, Removal, Farewell, Stray, About
  <2>7. QED
    BY <1>t, <2>1, <2>2, <2>4, <2>5, <2>6 DEF Says, msg
<1>6. ASSUME NEW s \in Session, NEW m \in BOOLEAN, SrvMute(s, m)
      PROVE  UNCHANGED <<users, channels, self, pc>> /\ Says(UserState(s, None, None, m))
  <2> DEFINE msg == UserState(s, None, None, m)
  <2>1. /\ msg \in Msg /\ msg.type = "UserState" /\ msg.session = s
        /\ msg.name = None /\ msg.channel = None
    BY <1>t DEF UserState, Msg, UserStateMsg, Opt
  <2>2. srvUsers' = [srvUsers EXCEPT ![s].muted = m] /\ srvUsers[s] # None
    BY <1>6 DEF SrvMute
  <2>3. /\ srvUsers'[s] \in User /\ srvUsers'[s].channel = srvUsers[s].channel
        /\ srvUsers'[s].name = srvUsers[s].name
        /\ \A d \in Session : d # s => srvUsers'[d] = srvUsers[d]
    BY <1>t, <2>2 DEF User, Opt
  <2>4. /\ UNCHANGED <<users, channels, self, pc, srvChannels, synced>>
        /\ wire' = Append(wire, msg)
    BY <1>6 DEF SrvMute, Announce, storeVars
  <2> HIDE DEF msg
  <2>5. \A d \in Session : Tells(msg, d)
    BY <1>t, <2>1, <2>2, <2>3 DEF Tells, About, Sticky
  <2>6. /\ \A d \in ChannelId : TellsChannel(msg, d)
        /\ msg \notin Ending \cup Removal \cup Farewell \cup Stray
        /\ msg \in About(Me) => s = Me
    BY <2>1, <2>4 DEF TellsChannel, AboutChannel, Ending, Removal, Farewell, Stray, About
  <2>7. QED
    BY <1>t, <2>1, <2>2, <2>4, <2>5, <2>6 DEF Says, msg
<1>7. ASSUME NEW s \in Session, SrvLeave(s)
      PROVE  UNCHANGED <<users, channels, self, pc>> /\ Says(UserRemove(s))
  <2> DEFINE msg == UserRemove(s)
  <2>1. msg \in Msg /\ msg.type = "UserRemove" /\ msg.session = s
    BY DEF UserRemove, Msg
  <2>2. srvUsers' = [srvUsers EXCEPT ![s] = None] /\ srvUsers[s] # None
    BY <1>7 DEF SrvLeave
  <2>3. /\ UNCHANGED <<users, channels, self, pc, srvChannels, synced>>
        /\ wire' = Append(wire, msg) /\ (s = Me => synced)
    BY <1>7 DEF SrvLeave, Announce, storeVars
  <2> HIDE DEF msg
  <2>4. \A d \in Session : Tells(msg, d)
    BY <1>t, <2>1, <2>2 DEF Tells, About
  <2>5. /\ \A d \in ChannelId : TellsChannel(msg, d)
        /\ msg \notin Ending \cup Removal \cup Stray
        /\ msg \in About(Me) \cup Farewell => s = Me
    BY <2>1, <2>3 DEF TellsChannel, AboutChannel, Ending, Removal, Farewell, Stray, About
  <2>6. QED
    BY <1>t, <2>1, <2>2, <2>3, <2>4, <2>5 DEF Says, msg
<1>8. ASSUME SrvSync
      PROVE  UNCHANGED <<users, channels, self, pc>> /\ Says(ServerSync)
  <2>1. /\ ServerSync \in Msg /\ ServerSync.type = "ServerSync"
        /\ ServerSync.session = Me
    BY <1>t DEF ServerSync, Msg
  <2>2. /\ UNCHANGED <<users, channels, self, pc, srvUsers, srvChannels>>
        /\ wire' = Append(wire, ServerSync) /\ ~synced /\ synced' = TRUE
        /\ srvUsers[Me] # None
    BY <1>8 DEF SrvSync, storeVars
  <2>3. /\ \A s \in Session : Tells(ServerSync, s)
        /\ \A c \in ChannelId : TellsChannel(ServerSync, c)
    BY <2>1, <2>2 DEF Tells, About, TellsChannel, AboutChannel
  <2>4. /\ ServerSync \in Ending
        /\ ServerSync \notin Removal \cup Farewell \cup Stray
    BY <2>1 DEF Ending, Removal, Farewell, Stray
  <2>5. QED
    BY <1>t, <2>1, <2>2, <2>3, <2>4 DEF Says
<1>9. ASSUME SrvReject
      PROVE  UNCHANGED <<users, channels, self, pc>> /\ Says(Reject)
  <2>1. Reject \in Msg /\ Reject.type = "Reject"
    BY DEF Reject, Msg
  <2>2. /\ UNCHANGED <<users, channels, self, pc, srvUsers, srvChannels>>
        /\ wire' = Append(wire, Reject) /\ ~synced /\ synced' = TRUE
    BY <1>9 DEF SrvReject, storeVars
  <2>3. /\ \A s \in Session : Tells(Reject, s)
        /\ \A c \in ChannelId : TellsChannel(Reject, c)
        /\ Reject \notin About(Me)
    BY <2>1, <2>2 DEF Tells, About, TellsChannel, AboutChannel
  <2>4. /\ Reject \in Ending
        /\ Reject \notin Removal \cup Farewell \cup Stray
    BY <2>1 DEF Ending, Removal, Farewell, Stray
  <2>5. QED
    BY <1>t, <2>1, <2>2, <2>3, <2>4 DEF Says
<1>10. ASSUME SrvApply
       PROVE  /\ UNCHANGED <<users, channels, self, pc>>
              /\ \/ UNCHANGED <<wire, srvUsers, srvChannels, synced>>
                 \/ \E msg : Says(msg)
  <2> DEFINE r == Head(upwire)
             known == /\ r.session \in SrvRoster
                      /\ r.channel # None => srvChannels[r.channel] # None
             new == [session |-> r.session,
                     name    |-> srvUsers[r.session].name,
                     channel |-> Sticky(r.channel, srvUsers[r.session].channel),
                     muted   |-> Sticky(r.muted, srvUsers[r.session].muted)]
             msg == UserState(r.session, None, r.channel, r.muted = TRUE)
  <2>1. UNCHANGED <<users, channels, self, pc, srvChannels, synced>>
    BY <1>10 DEF SrvApply, storeVars
  <2>2. CASE ~(known /\ new # srvUsers[r.session])
    BY <1>10, <2>1, <2>2 DEF SrvApply
  <2>3. CASE known /\ new # srvUsers[r.session]
    <3>1. /\ srvUsers' = [srvUsers EXCEPT ![r.session] = new]
          /\ wire' = Append(wire, msg)
      BY <1>10, <2>3 DEF SrvApply
    <3>2. r \in Request
      BY <1>10 DEF SrvApply, SessionInv, TypeOK
    <3>3. /\ r.session \in Session /\ srvUsers[r.session] # None
          /\ srvUsers[r.session] \in User
      BY <1>t, <2>3, <3>2 DEF SrvRoster, Request, Opt
    <3>4. /\ msg \in Msg /\ msg.type = "UserState" /\ msg.session = r.session
          /\ msg.name = None /\ msg.channel = r.channel
      BY <3>2 DEF UserState, Msg, UserStateMsg, Opt, Request
    <3>5. /\ new \in User /\ new.name = srvUsers[r.session].name
          /\ new.channel = Sticky(r.channel, srvUsers[r.session].channel)
      <4>1. Sticky(r.channel, srvUsers[r.session].channel) \in Opt(ChannelId)
        BY <3>2, <3>3 DEF Sticky, Opt, User, Request
      <4>2. Sticky(r.muted, srvUsers[r.session].muted) \in BOOLEAN
        BY <3>2, <3>3 DEF Sticky, Opt, User, Request
      <4>3. QED
        BY <3>3, <4>1, <4>2 DEF User
    <3>6. new # None
      BY <1>t, <3>5
    <3> HIDE DEF msg, new, known
    <3>7. \A d \in Session : Tells(msg, d)
      <4> SUFFICES ASSUME NEW d \in Session PROVE Tells(msg, d)
        OBVIOUS
      <4>1. CASE d = r.session
        <5>1. srvUsers'[d] = new
          BY <1>t, <3>1, <4>1
        <5>2. msg \in About(d)
          BY <3>4, <4>1 DEF About
        <5>3. Sticky(msg.name, srvUsers[d].name) = srvUsers[d].name
          BY <3>4 DEF Sticky
        <5>4. QED
          BY <3>3, <3>4, <3>5, <3>6, <4>1, <5>1, <5>2, <5>3 DEF Tells
      <4>2. CASE d # r.session
        BY <1>t, <3>1, <3>4, <4>2 DEF Tells, About
      <4>3. QED
        BY <4>1, <4>2
    <3>8. /\ \A d \in ChannelId : TellsChannel(msg, d)
          /\ msg \notin Ending \cup Removal \cup Farewell \cup Stray
          /\ msg \in About(Me) => r.session = Me
      BY <2>1, <3>4
         DEF TellsChannel, AboutChannel, Ending, Removal, Farewell, Stray, About
    <3>9. Says(msg)
      BY <1>t, <2>1, <3>1, <3>3, <3>4, <3>7, <3>8 DEF Says
    <3>10. QED
      BY <2>1, <3>9
  <2>4. QED
    BY <2>2, <2>3
<1>11. QED
  BY <1>1, <1>2, <1>3, <1>4, <1>5, <1>6, <1>7, <1>8, <1>9, <1>10 DEF ServerNext
-----------------------------------------------------------------------------
(* What the reader makes of the next frame.                                 *)

next == Head(wire)

\* The store's entry for s is changed by the frames about s only.
Learns(s) ==
  \/ next \notin About(s) /\ users'[s] = users[s]
  \/ /\ next \in About(s) /\ next.type = "UserState" /\ users'[s] # None
     /\ users[s] # None \/ next.name # None =>
          users'[s].name = Sticky(next.name, users[s].name)
     /\ users[s] # None \/ next.channel # None =>
          users'[s].channel = Sticky(next.channel, users[s].channel)
  \/ next \in About(s) /\ next.type = "UserRemove" /\ users'[s] = None
  \/ next \in About(s) /\ next.type = "ServerSync" /\ users'[s] # None

LearnsChannel(c) ==
  \/ next \notin AboutChannel(c) /\ channels'[c] = channels[c]
  \/ /\ next \in AboutChannel(c) /\ next.type = "ChannelState" /\ channels'[c] # None
     /\ next.name # None => channels'[c].name = next.name
  \/ /\ next \in AboutChannel(c) /\ next.type = "ChannelRemove"
     /\ next.id # 0 /\ pc # "handshake" => channels'[c] = None

\* Self follows its entry, and is set by ServerSync only.
LearnsSelf ==
  /\ next.type = "ServerSync" => self' # None /\ self'.session = next.session
  /\ next.type # "ServerSync" /\ self' # None =>
       self # None /\ self'.session = self.session
  /\ self # None /\ self' = None =>
       next.type = "UserRemove" /\ next.session = self.session

LEMMA LearnedKnown ==
  ASSUME wire \in Seq(Msg), wire # <<>>, NEW s \in Session, UserAt(s),
         wire' = Tail(wire), srvUsers' = srvUsers, Learns(s)
  PROVE  KnownAt(s)'
<1>1. /\ next \notin About(s) /\ Silent(Tail(wire), About(s)) => Silent(wire, About(s))
      /\ \A G \in {Leaving, Coming} :
           /\ Final(wire, About(s), G) => Final(Tail(wire), About(s), G)
           /\ next \in About(s) /\ Silent(Tail(wire), About(s))
                /\ Final(wire, About(s), G) => next \in G
  BY Taken DEF next
<1>2. Silent(wire', About(s)) => (users'[s] = None <=> srvUsers'[s] = None)
  <2>1. CASE next \notin About(s) /\ users'[s] = users[s]
    BY <1>1, <2>1 DEF UserAt, KnownAt
  <2>2. CASE next \in About(s) /\ next.type = "UserRemove" /\ users'[s] = None
    <3>1. next \notin Coming
      BY <2>2 DEF Coming
    <3>2. QED
      BY <1>1, <2>2, <3>1 DEF UserAt, KnownAt
  <2>3. CASE /\ next \in About(s) /\ next.type \in {"UserState", "ServerSync"}
             /\ users'[s] # None
    <3>1. next \notin Leaving
      BY <2>3 DEF Leaving
    <3>2. QED
      BY <1>1, <2>3, <3>1 DEF UserAt, KnownAt
  <2>4. QED
    BY <2>1, <2>2, <2>3 DEF Learns
<1>3. QED
  BY <1>1, <1>2 DEF UserAt, KnownAt

LEMMA LearnedNamed ==
  ASSUME wire \in Seq(Msg), wire # <<>>, NEW s \in Session, UserAt(s), s # Me,
         wire' = Tail(wire), srvUsers' = srvUsers, Learns(s)
  PROVE  NamedAt(s)'
<1> SUFFICES ASSUME srvUsers[s] # None
             PROVE  NamedAt(s)'
  BY DEF NamedAt
<1> DEFINE G == Named(srvUsers[s].name)
<1>1. /\ next \notin Naming(s) /\ Silent(Tail(wire), Naming(s)) => Silent(wire, Naming(s))
      /\ Final(wire, Naming(s), G) => Final(Tail(wire), Naming(s), G)
      /\ next \in Naming(s) /\ Silent(Tail(wire), Naming(s))
           /\ Final(wire, Naming(s), G) => next \in G
  BY Taken DEF next
<1>2. /\ Final(wire, Naming(s), G)
      /\ Silent(wire, Naming(s)) => users[s] # None /\ users[s].name = srvUsers[s].name
  BY DEF UserAt, NamedAt
<1>3. ASSUME Silent(wire', Naming(s))
      PROVE  users'[s] # None /\ users'[s].name = srvUsers[s].name
  <2>1. CASE next \notin About(s) /\ users'[s] = users[s]
    <3>1. next \notin Naming(s)
      BY <2>1 DEF Naming
    <3>2. QED
      BY <1>1, <1>2, <1>3, <2>1, <3>1
  <2>2. CASE /\ next \in About(s) /\ next.type = "UserState" /\ users'[s] # None
             /\ users[s] # None \/ next.name # None =>
                  users'[s].name = Sticky(next.name, users[s].name)
    <3>1. CASE next.name = None
      <4>1. next \notin Naming(s)
        BY <2>2, <3>1 DEF Naming
      <4>2. QED
        BY <1>1, <1>2, <1>3, <2>2, <3>1, <4>1 DEF Sticky
    <3>2. CASE next.name # None
      <4>1. next \in Naming(s)
        BY <2>2, <3>2 DEF Naming
      <4>2. next.name = srvUsers[s].name
        BY <1>1, <1>2, <1>3, <4>1 DEF Named
      <4>3. QED
        BY <2>2, <3>2, <4>2 DEF Sticky
    <3>3. QED
      BY <3>1, <3>2
  <2>3. CASE next \in About(s) /\ next.type # "UserState"
    <3>1. next \in Naming(s) /\ next \notin G
      BY <2>3 DEF Naming, Named
    <3>2. QED
      BY <1>1, <1>2, <1>3, <3>1
  <2>4. QED
    BY <2>1, <2>2, <2>3 DEF Learns
<1>4. QED
  BY <1>1, <1>2, <1>3 DEF NamedAt

LEMMA LearnedPlaced ==
  ASSUME wire \in Seq(Msg), wire # <<>>, NEW s \in Session, UserAt(s), s # Me,
         wire' = Tail(wire), srvUsers' = srvUsers, Learns(s)
  PROVE  PlacedAt(s)'
<1> SUFFICES ASSUME srvUsers[s] # None
             PROVE  PlacedAt(s)'
  BY DEF PlacedAt
<1> DEFINE G == Placed(srvUsers[s].channel)
<1>1. /\ next \notin Placing(s) /\ Silent(Tail(wire), Placing(s)) => Silent(wire, Placing(s))
      /\ Final(wire, Placing(s), G) => Final(Tail(wire), Placing(s), G)
      /\ next \in Placing(s) /\ Silent(Tail(wire), Placing(s))
           /\ Final(wire, Placing(s), G) => next \in G
  BY Taken DEF next
<1>2. /\ Final(wire, Placing(s), G)
      /\ Silent(wire, Placing(s)) =>
           users[s] # None /\ users[s].channel = srvUsers[s].channel
  BY DEF UserAt, PlacedAt
<1>3. ASSUME Silent(wire', Placing(s))
      PROVE  users'[s] # None /\ users'[s].channel = srvUsers[s].channel
  <2>1. CASE next \notin About(s) /\ users'[s] = users[s]
    <3>1. next \notin Placing(s)
      BY <2>1 DEF Placing
    <3>2. QED
      BY <1>1, <1>2, <1>3, <2>1, <3>1
  <2>2. CASE /\ next \in About(s) /\ next.type = "UserState" /\ users'[s] # None
             /\ users[s] # None \/ next.channel # None =>
                  users'[s].channel = Sticky(next.channel, users[s].channel)
    <3>1. CASE next.channel = None
      <4>1. next \notin Placing(s)
        BY <2>2, <3>1 DEF Placing
      <4>2. QED
        BY <1>1, <1>2, <1>3, <2>2, <3>1, <4>1 DEF Sticky
    <3>2. CASE next.channel # None
      <4>1. next \in Placing(s)
        BY <2>2, <3>2 DEF Placing
      <4>2. next.channel = srvUsers[s].channel
        BY <1>1, <1>2, <1>3, <4>1 DEF Placed
      <4>3. QED
        BY <2>2, <3>2, <4>2 DEF Sticky
    <3>3. QED
      BY <3>1, <3>2
  <2>3. CASE next \in About(s) /\ next.type # "UserState"
    <3>1. next \in Placing(s) /\ next \notin G
      BY <2>3 DEF Placing, Placed
    <3>2. QED
      BY <1>1, <1>2, <1>3, <3>1
  <2>4. QED
    BY <2>1, <2>2, <2>3 DEF Learns
<1>4. QED
  BY <1>1, <1>2, <1>3 DEF PlacedAt

LEMMA RosterLearned ==
  ASSUME wire \in Seq(Msg), wire # <<>>, RosterInv,
         wire' = Tail(wire), srvUsers' = srvUsers,
         \A s \in Session : Learns(s)
  PROVE  RosterInv'
<1> SUFFICES ASSUME NEW s \in Session
             PROVE  UserAt(s)'
  BY DEF RosterInv
<1>1. UserAt(s) /\ Learns(s)
  BY DEF RosterInv
<1>2. KnownAt(s)'
  BY <1>1, LearnedKnown
<1>3. s # Me => NamedAt(s)' /\ PlacedAt(s)'
  BY <1>1, LearnedNamed, LearnedPlaced
<1>4. QED
  BY <1>2, <1>3 DEF UserAt

\* A removal that comes up during the handshake would be missed.
LEMMA ChannelLearned ==
  ASSUME wire \in Seq(Msg), wire # <<>>, NEW c \in ChannelId, ChannelAt(c),
         wire' = Tail(wire), srvChannels' = srvChannels, LearnsChannel(c),
         next \in Removal => pc # "handshake"
  PROVE  ChannelAt(c)'
<1> DEFINE T == Title(srvChannels[c].name)
<1>1. /\ next \notin AboutChannel(c) /\ Silent(Tail(wire), AboutChannel(c))
           => Silent(wire, AboutChannel(c))
      /\ Final(wire, AboutChannel(c), Gone) => Final(Tail(wire), AboutChannel(c), Gone)
      /\ Final(wire, AboutChannel(c), T) => Final(Tail(wire), AboutChannel(c), T)
      /\ next \in AboutChannel(c) /\ Silent(Tail(wire), AboutChannel(c)) =>
           /\ Final(wire, AboutChannel(c), Gone) => next \in Gone
           /\ Final(wire, AboutChannel(c), T) => next \in T
  BY Taken DEF next
<1>2. ASSUME Silent(wire', AboutChannel(c))
      PROVE  /\ channels'[c] = None <=> srvChannels[c] = None
             /\ channels'[c] # None => channels'[c].name = srvChannels[c].name
  <2>1. CASE next \notin AboutChannel(c) /\ channels'[c] = channels[c]
    BY <1>1, <1>2, <2>1 DEF ChannelAt
  <2>2. CASE /\ next \in AboutChannel(c) /\ next.type = "ChannelState"
             /\ channels'[c] # None
             /\ next.name # None => channels'[c].name = next.name
    <3>1. next \notin Gone
      BY <2>2 DEF Gone, Removal
    <3>2. srvChannels[c] # None /\ next \in T
      BY <1>1, <1>2, <2>2, <3>1 DEF ChannelAt
    <3>3. QED
      BY <2>2, <3>2 DEF Title
  <2>3. CASE /\ next \in AboutChannel(c) /\ next.type = "ChannelRemove"
             /\ next.id # 0 /\ pc # "handshake" => channels'[c] = None
    <3>1. next \notin T /\ next \in Removal
      BY <2>3 DEF Title, Removal, AboutChannel
    <3>2. srvChannels[c] = None /\ next \in Gone
      BY <1>1, <1>2, <2>3, <3>1 DEF ChannelAt
    <3>3. QED
      BY <2>3, <3>1, <3>2 DEF Gone
  <2>4. QED
    BY <2>1, <2>2, <2>3 DEF LearnsChannel
<1>3. QED
  BY <1>1, <1>2 DEF ChannelAt
\* The store after an upsert, of the user upserted and of the others.
LEMMA UpsertLearns ==
  ASSUME TypeOK, Read("UserState"), UpsertUserFromProto(next)
  PROVE  /\ \A s \in Session : Learns(s)
         /\ self' # None <=> self # None
         /\ self # None => self'.session = self.session
<1>1. /\ next \in Msg /\ next.type = "UserState" /\ next.session \in Session
      /\ next.name \in Opt(Names) /\ next.channel \in Opt(ChannelId)
      /\ next.muted \in BOOLEAN
  BY ReadFrame, ReadUserState DEF next
<1>2. MergedUser(next) \in User /\ MergedUser(next) # None
  BY <1>1, MergedUserIsUser, StoreConstants DEF TypeOK
<1>3. /\ users' = [users EXCEPT ![next.session] = MergedUser(next)]
      /\ users \in [Session -> Opt(User)]
      /\ self' = IF self # None /\ self.session = next.session
                 THEN MergedUser(next) ELSE self
  BY DEF UpsertUserFromProto, TypeOK, StoreTypeOK
<1>4. /\ MergedUser(next).session = next.session
      /\ users[next.session] # None \/ next.name # None =>
           MergedUser(next).name = Sticky(next.name, users[next.session].name)
      /\ users[next.session] # None \/ next.channel # None =>
           MergedUser(next).channel = Sticky(next.channel, users[next.session].channel)
  BY DEF MergedUser, Sticky
<1>5. ASSUME NEW s \in Session
      PROVE  Learns(s)
  <2>1. CASE s = next.session
    <3>1. users'[s] = MergedUser(next) /\ next \in About(s)
      BY <1>1, <1>3, <2>1 DEF About
    <3>2. QED
      BY <1>1, <1>2, <1>4, <2>1, <3>1 DEF Learns
  <2>2. CASE s # next.session
    BY <1>1, <1>3, <2>2 DEF Learns, About
  <2>3. QED
    BY <2>1, <2>2
<1>6. QED
  BY <1>2, <1>3, <1>4, <1>5

LEMMA RemoveLearns ==
  ASSUME TypeOK, Read("UserRemove"), RemoveUser(next.session)
  PROVE  (\A s \in Session : Learns(s)) /\ LearnsSelf
<1>1. next \in Msg /\ next.type = "UserRemove" /\ next.session \in Session
  BY ReadFrame, ReadOther DEF next
<1>2. /\ users' = [users EXCEPT ![next.session] = None]
      /\ users \in [Session -> Opt(User)]
      /\ self' = IF self # None /\ self.session = next.session THEN None ELSE self
  BY DEF RemoveUser, TypeOK, StoreTypeOK
<1>3. \A s \in Session : Learns(s)
  BY <1>1, <1>2 DEF Learns, About
<1>4. QED
  BY <1>1, <1>2, <1>3 DEF LearnsSelf

LEMMA ChannelUpsertLearns ==
  ASSUME TypeOK, Read("ChannelState"), UpsertChannelFromProto(next)
  PROVE  \A c \in ChannelId : LearnsChannel(c)
<1>1. /\ next \in Msg /\ next.type = "ChannelState" /\ next.id \in ChannelId
      /\ next.name \in Opt(Names) /\ next.position \in BOOLEAN
  BY ReadFrame, ReadChannelState DEF next
<1>2. /\ channels' = [channels EXCEPT ![next.id] = MergedChannel(next)]
      /\ channels \in [ChannelId -> Opt(Channel)]
  BY DEF UpsertChannelFromProto, TypeOK, StoreTypeOK
<1>3. /\ MergedChannel(next) # None
      /\ next.name # None => MergedChannel(next).name = next.name
  <2>1. MergedChannel(next) \in Channel
    BY <1>1, <1>2 DEF MergedChannel, Channel, Sticky, Opt, ZeroChannel
  <2>2. next.name # None => MergedChannel(next).name = next.name
    BY DEF MergedChannel, Sticky
  <2>3. QED
    BY <2>1, <2>2, StoreConstants
<1>4. QED
  BY <1>1, <1>2, <1>3 DEF LearnsChannel, AboutChannel

Reads ==
  /\ pc \in {"handshake", "loop"} /\ wire # <<>> /\ wire' = Tail(wire)
  /\ \A s \in Session : Learns(s)
  /\ \A c \in ChannelId : LearnsChannel(c)
  /\ LearnsSelf
  /\ next.type = "ServerSync" => pc = "handshake" /\ pc' = "connected"
  /\ next.type = "Reject" => pc = "handshake" /\ pc' = "rejected"
  /\ next \notin Ending => pc' = pc

LEMMA ReaderReads ==
  ASSUME SessionInv, ClientNext
  PROVE  /\ UNCHANGED <<srvUsers, srvChannels, synced, upwire, wish>>
         /\ \/ Reads
            \/ /\ UNCHANGED <<users, channels, self, wire>>
               /\ pc \in {"connected", "loop"} /\ pc' = "loop"
<1>t. TypeOK /\ users \in [Session -> Opt(User)]
  BY DEF SessionInv, TypeOK, StoreTypeOK
<1> USE DEF clientUnchanged, loopUnchanged, serverVars, appVars
<1>1. CASE HsChannelState \/ LoopChannelState
  <2>1. /\ Read("ChannelState") /\ UpsertChannelFromProto(next)
        /\ pc \in {"handshake", "loop"} /\ pc' = pc
        /\ UNCHANGED <<srvUsers, srvChannels, synced, upwire, wish>>
    BY <1>1 DEF HsChannelState, LoopChannelState, next
  <2>2. next.type = "ChannelState" /\ wire # <<>> /\ wire' = Tail(wire)
    BY <2>1 DEF Read, next
  <2>3. UNCHANGED <<users, self>>
    BY <2>1 DEF UpsertChannelFromProto
  <2>4. (\A s \in Session : Learns(s)) /\ LearnsSelf
    BY <2>2, <2>3 DEF Learns, About, LearnsSelf
  <2>5. QED
    BY <1>t, <2>1, <2>2, <2>4, ChannelUpsertLearns DEF Reads
<1>2. CASE HsUserState \/ LoopUserState
  <2>1. /\ Read("UserState") /\ UpsertUserFromProto(next)
        /\ pc \in {"handshake", "loop"} /\ pc' = pc
        /\ UNCHANGED <<srvUsers, srvChannels, synced, upwire, wish>>
    BY <1>2 DEF HsUserState, LoopUserState, next
  <2>2. next.type = "UserState" /\ wire # <<>> /\ wire' = Tail(wire)
    BY <2>1 DEF Read, next
  <2>3. channels' = channels
    BY <2>1 DEF UpsertUserFromProto
  <2>4. \A c \in ChannelId : LearnsChannel(c)
    BY <2>2, <2>3 DEF LearnsChannel, AboutChannel
  <2>5. (\A s \in Session : Learns(s)) /\ LearnsSelf
    BY <1>t, <2>1, <2>2, UpsertLearns DEF LearnsSelf
  <2>6. QED
    BY <2>1, <2>2, <2>4, <2>5 DEF Reads
<1>3. CASE HsUserRemove \/ LoopUserRemove
  <2>1. /\ Read("UserRemove") /\ pc \in {"handshake", "loop"} /\ pc' = pc
        /\ UNCHANGED <<srvUsers, srvChannels, synced, upwire, wish>>
    BY <1>3 DEF HsUserRemove, LoopUserRemove
  <2>2. next.type = "UserRemove" /\ wire # <<>> /\ wire' = Tail(wire)
    BY <2>1 DEF Read, next
  <2>3. next.session \in Session /\ next.session # 0
    BY <1>t, <2>1, ReadOther, StoreConstants DEF next
  <2>4. RemoveUser(next.session)
    BY <1>3, <2>3 DEF HsUserRemove, LoopUserRemove, next
  <2>5. \A c \in ChannelId : LearnsChannel(c)
    BY <2>2, <2>4 DEF RemoveUser, LearnsChannel, AboutChannel
  <2>6. (\A s \in Session : Learns(s)) /\ LearnsSelf
    BY <1>t, <2>1, <2>4, RemoveLearns
  <2>7. QED
    BY <2>1, <2>2, <2>5, <2>6 DEF Reads
<1>4. CASE HsChannelRemove \/ LoopChannelRemove
  <2>1. /\ Read("ChannelRemove") /\ pc \in {"handshake", "loop"} /\ pc' = pc
        /\ UNCHANGED <<srvUsers, srvChannels, synced, upwire, wish>>
        /\ UNCHANGED <<users, self>>
    BY <1>4 DEF HsChannelRemove, LoopChannelRemove, RemoveChannel, storeVars
  <2>2. /\ next.type = "ChannelRemove" /\ wire # <<>> /\ wire' = Tail(wire)
        /\ next \in Msg /\ next.id \in ChannelId
    BY <1>t, <2>1, ReadFrame, ReadOther DEF Read, next
  <2>3. (\A s \in Session : Learns(s)) /\ LearnsSelf
    BY <2>1, <2>2 DEF Learns, About, LearnsSelf
  <2>4. \A c \in ChannelId : LearnsChannel(c)
    <3>1. CASE UNCHANGED channels /\ (next.id = 0 \/ pc = "handshake")
      BY <2>2, <3>1 DEF LearnsChannel, AboutChannel
    <3>2. CASE channels' = [channels EXCEPT ![next.id] = None]
      <4>1. channels \in [ChannelId -> Opt(Channel)]
        BY <1>t DEF TypeOK, StoreTypeOK
      <4>2. QED
        BY <2>2, <3>2, <4>1 DEF LearnsChannel, AboutChannel
    <3>3. QED
      BY <1>4, <3>1, <3>2
         DEF HsChannelRemove, LoopChannelRemove, RemoveChannel, storeVars, next
  <2>5. QED
    BY <2>1, <2>2, <2>3, <2>4 DEF Reads
<1>5. CASE HsServerSync
  <2>1. /\ Read("ServerSync") /\ pc = "handshake" /\ pc' = "connected"
        /\ UNCHANGED <<srvUsers, srvChannels, synced, upwire, wish, channels>>
    BY <1>5 DEF HsServerSync
  <2>2. /\ next.type = "ServerSync" /\ wire # <<>> /\ wire' = Tail(wire)
        /\ next \in Msg /\ next.session \in Session /\ next.session # 0
    BY <1>t, <2>1, ReadFrame, ReadOther, StoreConstants DEF Read, next
  <2>3. /\ self' = ZeroUser(next.session)
        /\ users' = [users EXCEPT ![next.session] = ZeroUser(next.session)]
    BY <1>5, <2>2 DEF HsServerSync, next
  <2>4. ZeroUser(next.session) # None /\ ZeroUser(next.session).session = next.session
    <3>1. ZeroUser(next.session) \in User
      BY <2>2 DEF ZeroUser, User, Opt
    <3>2. QED
      BY <3>1, StoreConstants DEF ZeroUser
  <2>5. (\A s \in Session : Learns(s)) /\ LearnsSelf
    BY <1>t, <2>2, <2>3, <2>4 DEF Learns, About, LearnsSelf
  <2>6. \A c \in ChannelId : LearnsChannel(c)
    BY <2>1, <2>2 DEF LearnsChannel, AboutChannel
  <2>7. next \in Ending
    BY <2>2 DEF Ending
  <2>8. QED
    BY <2>1, <2>2, <2>5, <2>6, <2>7 DEF Reads
<1>6. CASE HsReject
  <2>1. /\ Read("Reject") /\ pc = "handshake" /\ pc' = "rejected"
        /\ UNCHANGED <<srvUsers, srvChannels, synced, upwire, wish>>
        /\ UNCHANGED <<users, channels, self>>
    BY <1>6 DEF HsReject, storeVars
  <2>2. next.type = "Reject" /\ wire # <<>> /\ wire' = Tail(wire) /\ next \in Ending
    BY <1>t, <2>1, ReadFrame DEF Read, next, Ending
  <2>3. /\ \A s \in Session : Learns(s)
        /\ \A c \in ChannelId : LearnsChannel(c)
        /\ LearnsSelf
    BY <2>1, <2>2 DEF Learns, About, LearnsChannel, AboutChannel, LearnsSelf
  <2>4. QED
    BY <2>1, <2>2, <2>3 DEF Reads
<1>7. CASE EmitConnect \/ Emit
  BY <1>7 DEF EmitConnect, Emit, storeVars
<1>8. QED
  BY <1>1, <1>2, <1>3, <1>4, <1>5, <1>6, <1>7 DEF ClientNext
-----------------------------------------------------------------------------
(* The handshake and this client's own entry.                               *)

\* What ends the handshake is said once, and is on its way when the server is
\* done with it and the client is not.
HandshakeInv ==
  /\ Silent(wire, Ending) \/ (synced /\ pc = "handshake")
  /\ NoneAfter(wire, Ending, Ending)
  /\ Silent(wire, Stray)
  /\ pc = "handshake" /\ synced => ~Silent(wire, Ending)
  /\ pc # "handshake" => synced

\* The server takes this client off the roster once, and has nothing to say
\* about it after that.
SelfInv ==
  /\ self # None => self.session = Me /\ pc \in {"connected", "loop"}
  /\ NoneAfter(wire, Farewell, About(Me))
  /\ ~Silent(wire, Farewell) => synced /\ srvUsers[Me] = None
  /\ pc \in {"connected", "loop"} /\ self = None =>
       users[Me] = None /\ srvUsers[Me] = None /\ Silent(wire, About(Me))

\* The inductive invariant of what the session knows of users.
KnowledgeInv == RosterInv /\ HandshakeInv /\ SelfInv

LEMMA SaidKnowledge ==
  ASSUME SessionInv, KnowledgeInv, UNCHANGED <<users, channels, self, pc>>,
         NEW msg, Says(msg)
  PROVE  KnowledgeInv'
<1>t. wire \in Seq(Msg) /\ Me \in Session /\ synced \in BOOLEAN
  BY SessionConstants DEF SessionInv, TypeOK
<1> USE DEF KnowledgeInv
<1>a. /\ \A C : Silent(wire', C) <=> Silent(wire, C) /\ msg \notin C
      /\ \A C, D : NoneAfter(wire, C, D) /\ (Silent(wire, C) \/ msg \notin D)
                     => NoneAfter(wire', C, D)
  BY <1>t, Appended DEF Says
<1>1. RosterInv'
  BY <1>t, RosterTold DEF Says
<1>2. HandshakeInv'
  <2>1. msg \in Ending => ~synced /\ synced' /\ pc = "handshake" /\ Silent(wire, Ending)
    BY DEF Says, HandshakeInv
  <2>2. msg \notin Ending => synced' = synced
    BY <1>t DEF Says
  <2>3. msg \notin Stray
    BY DEF Says
  <2>4. QED
    BY <1>a, <2>1, <2>2, <2>3 DEF HandshakeInv
<1>3. SelfInv'
  <2>1. synced => synced'
    BY DEF Says
  <2>2. msg \in About(Me) => ~synced \/ srvUsers[Me] # None
    BY DEF Says
  <2>3. msg \in Farewell => synced /\ srvUsers'[Me] = None
    BY <1>t DEF Says, Tells, Farewell, About
  <2>4. msg \notin About(Me) => srvUsers'[Me] = srvUsers[Me]
    BY <1>t DEF Says, Tells
  <2>5. msg \in Farewell => msg \in About(Me)
    BY DEF Farewell, About
  <2>6. NoneAfter(wire', Farewell, About(Me))
    BY <1>a, <2>2 DEF SelfInv
  <2>7. ~Silent(wire', Farewell) => synced' /\ srvUsers'[Me] = None
    BY <1>a, <2>1, <2>2, <2>3, <2>4 DEF SelfInv
  <2>8. pc' \in {"connected", "loop"} /\ self' = None =>
          users'[Me] = None /\ srvUsers'[Me] = None /\ Silent(wire', About(Me))
    <3>1. pc \in {"connected", "loop"} => synced
      BY DEF HandshakeInv
    <3>2. QED
      BY <1>a, <2>2, <2>4, <3>1 DEF SelfInv
  <2>9. QED
    BY <2>6, <2>7, <2>8 DEF SelfInv
<1>4. QED
  BY <1>1, <1>2, <1>3

LEMMA ReadKnowledge ==
  ASSUME SessionInv, KnowledgeInv, UNCHANGED <<srvUsers, srvChannels, synced>>, Reads
  PROVE  KnowledgeInv'
<1>t. /\ wire \in Seq(Msg) /\ wire # <<>> /\ wire' = Tail(wire) /\ next \in Msg
      /\ Me \in Session /\ pc' \in {"handshake", "connected", "loop", "rejected"}
  <2>1. wire \in Seq(Msg) /\ wire # <<>> /\ wire' = Tail(wire) /\ Me \in Session
    BY SessionConstants DEF SessionInv, TypeOK, Reads
  <2>2. next \in Msg
    BY <2>1 DEF next
  <2>3. next \in Ending => next.type \in {"ServerSync", "Reject"}
    BY DEF Ending
  <2>4. QED
    BY <2>1, <2>2, <2>3 DEF Reads
<1> USE DEF KnowledgeInv
<1>a. /\ \A C : Silent(wire, C) <=> next \notin C /\ Silent(wire', C)
      /\ \A C, D : NoneAfter(wire, C, D) =>
           NoneAfter(wire', C, D) /\ (next \in C => Silent(wire', D))
  BY <1>t, Taken DEF next
<1>e. /\ next \in Ending => next.type \in {"ServerSync", "Reject"}
      /\ next.type \in {"ServerSync", "Reject"} => next \in Ending
      /\ next.type = "ServerSync" => next.session = Me
  <2>1. next \notin Stray
    BY <1>a DEF HandshakeInv
  <2>2. QED
    BY <1>t, <2>1 DEF Ending, Stray
<1>1. RosterInv'
  BY <1>t, RosterLearned DEF Reads
<1>2. HandshakeInv'
  <2>1. CASE next \in Ending
    <3>1. pc' \in {"connected", "rejected"} /\ synced'
      BY <1>a, <1>e, <2>1 DEF Reads, HandshakeInv
    <3>2. QED
      BY <1>a, <2>1, <3>1 DEF HandshakeInv
  <2>2. CASE next \notin Ending
    <3>1. pc' = pc
      BY <2>2 DEF Reads
    <3>2. QED
      BY <1>a, <2>2, <3>1 DEF HandshakeInv
  <2>3. QED
    BY <2>1, <2>2
<1>3. SelfInv'
  <2>1. self' # None => self'.session = Me /\ pc' \in {"connected", "loop"}
    <3>1. CASE next.type = "ServerSync"
      BY <1>e, <3>1 DEF Reads, LearnsSelf
    <3>2. CASE next.type # "ServerSync" /\ self' # None
      <4>1. self # None /\ self'.session = self.session /\ pc = "loop"
        BY <3>2 DEF Reads, LearnsSelf, SelfInv
      <4>2. pc' = pc
        BY <1>e, <3>2, <4>1 DEF Reads
      <4>3. QED
        BY <4>1, <4>2 DEF SelfInv
    <3>3. QED
      BY <3>1, <3>2
  <2>2. ASSUME pc' \in {"connected", "loop"}, self' = None
        PROVE  users'[Me] = None /\ srvUsers'[Me] = None /\ Silent(wire', About(Me))
    <3>1. next.type # "ServerSync"
      BY <2>2 DEF Reads, LearnsSelf
    <3>2. pc = "loop"
      BY <1>e, <2>2, <3>1 DEF Reads
    <3>3. Learns(Me)
      BY <1>t DEF Reads
    <3>4. CASE self = None
      BY <1>a, <3>2, <3>3, <3>4 DEF SelfInv, Learns
    <3>5. CASE self # None
      <4>1. next.type = "UserRemove" /\ next.session = Me
        BY <2>2, <3>5 DEF Reads, LearnsSelf, SelfInv
      <4>2. next \in Farewell /\ next \in About(Me)
        BY <1>t, <4>1 DEF Farewell, About
      <4>3. QED
        BY <1>a, <3>3, <4>1, <4>2 DEF SelfInv, Learns
    <3>6. QED
      BY <3>4, <3>5
  <2>3. QED
    BY <1>a, <2>1, <2>2 DEF SelfInv
<1>4. QED
  BY <1>1, <1>2, <1>3

LEMMA KnowledgeInit == Init => KnowledgeInv
<1> SUFFICES ASSUME Init PROVE KnowledgeInv
  OBVIOUS
<1>1. /\ wire = <<>> /\ pc = "handshake" /\ synced = FALSE /\ self = None
      /\ \A s \in Session : users[s] = None /\ srvUsers[s] = None
  BY DEF Init, StoreInit
<1>2. \A C, D : Silent(wire, C) /\ Final(wire, C, D) /\ NoneAfter(wire, C, D)
  BY <1>1 DEF Silent, Final, NoneAfter
<1>3. QED
  BY <1>1, <1>2, SessionConstants
     DEF KnowledgeInv, RosterInv, UserAt, KnownAt, NamedAt, PlacedAt, HandshakeInv,
         SelfInv

LEMMA KnowledgeKept ==
  ASSUME KnowledgeInv, UNCHANGED <<users, self, wire, srvUsers, synced>>,
         \/ pc' = pc
         \/ pc \in {"connected", "loop"} /\ pc' = "loop"
  PROVE  KnowledgeInv'
<1>1. RosterInv'
  BY DEF KnowledgeInv, RosterInv, UserAt, KnownAt, NamedAt, PlacedAt
<1>2. HandshakeInv'
  BY DEF KnowledgeInv, HandshakeInv
<1>3. SelfInv'
  BY DEF KnowledgeInv, SelfInv
<1>4. QED
  BY <1>1, <1>2, <1>3 DEF KnowledgeInv

LEMMA KnowledgeStep == SessionInv /\ KnowledgeInv /\ [Next]_vars => KnowledgeInv'
<1> SUFFICES ASSUME SessionInv, KnowledgeInv, [Next]_vars
             PROVE  KnowledgeInv'
  OBVIOUS
<1>1. CASE ServerNext
  BY <1>1, ServerSays, SaidKnowledge, KnowledgeKept
<1>2. CASE ClientNext
  BY <1>2, ReaderReads, ReadKnowledge, KnowledgeKept
<1>3. CASE AppNext
  <2>1. UNCHANGED <<users, self, wire, srvUsers, synced, pc>>
    BY <1>3
       DEF AppNext, JoinChannelByName, JoinChannel, SetSelfMute, SendUserState,
           storeVars, serverVars
  <2>2. QED
    BY <2>1, KnowledgeKept
<1>4. CASE UNCHANGED vars
  BY <1>4, KnowledgeKept DEF vars
<1>5. QED
  BY <1>1, <1>2, <1>3, <1>4 DEF Next

LEMMA KnowledgeInvariant == Spec => [](SessionInv /\ KnowledgeInv)
<1>1. SessionInv /\ KnowledgeInv /\ [Next]_vars => (SessionInv /\ KnowledgeInv)'
  BY SessionInductive, KnowledgeStep
<1>2. QED
  BY <1>1, SessionInit, KnowledgeInit, PTL DEF Spec

\* "Store keeps the latest server snapshot": when everything announced has been
\* handled, the store has the server's users, and each other user has the name
\* and the place last announced.
THEOREM StoreKeepsUp == Spec => []RosterSynced
<1>1. SessionInv /\ KnowledgeInv => RosterSynced
  <2> SUFFICES ASSUME KnowledgeInv, Settled
               PROVE  /\ KnownUsers = SrvRoster
                      /\ \A s \in SrvRoster \ {Me} :
                           /\ users[s].name = srvUsers[s].name
                           /\ users[s].channel = srvUsers[s].channel
    BY DEF RosterSynced
  <2>1. \A C : Silent(wire, C)
    BY DEF Settled, Silent
  <2>2. \A s \in Session : users[s] = None <=> srvUsers[s] = None
    BY <2>1 DEF KnowledgeInv, RosterInv, UserAt, KnownAt
  <2>3. \A s \in SrvRoster \ {Me} :
          /\ users[s].name = srvUsers[s].name
          /\ users[s].channel = srvUsers[s].channel
    BY <2>1 DEF KnowledgeInv, RosterInv, UserAt, NamedAt, PlacedAt, SrvRoster
  <2>4. QED
    BY <2>2, <2>3 DEF KnownUsers, SrvRoster
<1>2. QED
  BY <1>1, KnowledgeInvariant, PTL

\* SelfSession, which every request depends on, is this client's session as
\* long as the server knows it, and no session when the server has removed it.
THEOREM SelfKeepsUp == Spec => []SelfIsMe
<1>1. SessionInv /\ KnowledgeInv => SelfIsMe
  <2> SUFFICES ASSUME SessionInv, KnowledgeInv, Settled
               PROVE  SelfSession = IF srvUsers[Me] = None THEN 0 ELSE Me
    BY DEF SelfIsMe
  <2>1. users[Me] = None <=> srvUsers[Me] = None
    BY SessionConstants DEF Settled, Silent, KnowledgeInv, RosterInv, UserAt, KnownAt
  <2>2. CASE self = None
    BY <2>2 DEF Settled, KnowledgeInv, SelfInv, SelfSession
  <2>3. CASE self # None
    <3>1. self.session = Me /\ users[Me] = self
      BY <2>3 DEF KnowledgeInv, SelfInv, SessionInv, SelfMirrorsUsers
    <3>2. QED
      BY <2>1, <2>3, <3>1 DEF SelfSession
  <2>4. QED
    BY <2>2, <2>3
<1>2. QED
  BY <1>1, KnowledgeInvariant, PTL
-----------------------------------------------------------------------------
(* Channels, for a server that removes none before ServerSync: the          *)
(* handshake loop would not notice.                                         *)

ChannelsInv ==
  /\ \A c \in ChannelId : ChannelAt(c)
  /\ ~Silent(wire, Removal) => synced
  /\ NoneAfter(wire, Removal, Ending)

LEMMA ChannelsKept ==
  ASSUME ChannelsInv, UNCHANGED <<channels, wire, srvChannels, synced>>
  PROVE  ChannelsInv'
BY DEF ChannelsInv, ChannelAt

LEMMA ChannelsStep ==
  ASSUME ~EarlyRemoval, SessionInv, KnowledgeInv, ChannelsInv, [Next]_vars
  PROVE  ChannelsInv'
<1>t. wire \in Seq(Msg) /\ synced \in BOOLEAN
  BY DEF SessionInv, TypeOK
<1>1. ASSUME NEW msg, Says(msg), channels' = channels
      PROVE  ChannelsInv'
  <2>1. \A c \in ChannelId : ChannelAt(c)'
    BY <1>t, <1>1, ChannelTold DEF Says, ChannelsInv
  <2>2. /\ Silent(wire', Removal) <=> Silent(wire, Removal) /\ msg \notin Removal
        /\ NoneAfter(wire, Removal, Ending) /\ (Silent(wire, Removal) \/ msg \notin Ending)
             => NoneAfter(wire', Removal, Ending)
    BY <1>t, <1>1, Appended DEF Says
  <2>3. /\ msg \in Ending => ~synced
        /\ msg \in Removal => synced
        /\ synced => synced'
    BY <1>1 DEF Says
  <2>4. QED
    BY <2>1, <2>2, <2>3 DEF ChannelsInv
<1>2. ASSUME Reads, UNCHANGED <<srvChannels, synced>>
      PROVE  ChannelsInv'
  <2>1. wire # <<>> /\ wire' = Tail(wire)
    BY <1>2 DEF Reads
  <2>2. /\ \A C : Silent(wire, C) <=> next \notin C /\ Silent(wire', C)
        /\ NoneAfter(wire, Removal, Ending) =>
             /\ NoneAfter(wire', Removal, Ending)
             /\ next \in Removal => Silent(wire', Ending)
    BY <1>t, <2>1, Taken DEF next
  <2>3. next \in Removal => pc # "handshake"
    <3>1. next \in Removal => next \notin Ending
      BY DEF Removal, Ending
    <3>2. QED
      BY <2>2, <3>1 DEF ChannelsInv, KnowledgeInv, HandshakeInv
  <2>4. \A c \in ChannelId : ChannelAt(c)'
    BY <1>t, <1>2, <2>1, <2>3, ChannelLearned DEF Reads, ChannelsInv
  <2>5. QED
    BY <1>2, <2>2, <2>4 DEF ChannelsInv
<1>3. CASE ServerNext
  BY <1>1, <1>3, ServerSays, ChannelsKept
<1>4. CASE ClientNext
  BY <1>2, <1>4, ReaderReads, ChannelsKept
<1>5. CASE AppNext
  <2>1. UNCHANGED <<channels, wire, srvChannels, synced>>
    BY <1>5
       DEF AppNext, JoinChannelByName, JoinChannel, SetSelfMute, SendUserState,
           storeVars, serverVars
  <2>2. QED
    BY <2>1, ChannelsKept
<1>6. CASE UNCHANGED vars
  BY <1>6, ChannelsKept DEF vars
<1>7. QED
  BY <1>3, <1>4, <1>5, <1>6 DEF Next

\* The same of the channels and their names, of a server that removes no
\* channel while this client connects.
THEOREM ChannelsKeepUp ==
  ASSUME ~EarlyRemoval
  PROVE  Spec => []ChannelsSynced
<1>1. Init => ChannelsInv
  <2> SUFFICES ASSUME Init PROVE ChannelsInv
    OBVIOUS
  <2>1. wire = <<>> /\ \A c \in ChannelId : channels[c] = None /\ srvChannels[c] = None
    BY DEF Init, StoreInit
  <2>2. \A C, D : Silent(wire, C) /\ Final(wire, C, D) /\ NoneAfter(wire, C, D)
    BY <2>1 DEF Silent, Final, NoneAfter
  <2>3. QED
    BY <2>1, <2>2 DEF ChannelsInv, ChannelAt
<1>2. SessionInv /\ KnowledgeInv /\ ChannelsInv /\ [Next]_vars => ChannelsInv'
  BY ChannelsStep
<1>3. ChannelsInv => ChannelsSynced
  BY DEF ChannelsInv, ChannelAt, ChannelsSynced, Settled, Silent
<1>4. QED
  BY <1>1, <1>2, <1>3, KnowledgeInvariant, PTL DEF Spec

-----------------------------------------------------------------------------
(* Requests: the last one of a kind that is on its way is what the          *)
(* application asked for last, and when none is, the server has it so.      *)

Foreign == {r \in Request : r.session # Me}
Moving  == {r \in Request : r.channel # None}
Muting  == {r \in Request : r.muted # None}
To(c)   == {r \in Request : r.channel = c}
On      == {r \in Request : r.muted = TRUE}

\* wish, upwire and this client as the server has it, of one moment.
MoveWish(w, up, me) ==
  w.channel \notin {None, 0} =>
    /\ Silent(up, Moving) /\ me # None => me.channel = w.channel
    /\ Final(up, Moving, To(w.channel))

MuteWish(w, up, me) ==
  w.muted = TRUE =>
    /\ Silent(up, Muting) /\ me # None => me.muted
    /\ Final(up, Muting, On)

RequestsInv ==
  /\ Silent(upwire, Foreign)
  /\ ~synced => wish = NoWish
  /\ MoveWish(wish, upwire, srvUsers[Me])
  /\ MuteWish(wish, upwire, srvUsers[Me])

\* Nothing is wished for.
LEMMA Wishless ==
  ASSUME NEW up, NEW me
  PROVE  MoveWish(NoWish, up, me) /\ MuteWish(NoWish, up, me)
BY SessionConstants DEF NoWish, MoveWish, MuteWish

LEMMA RequestsKept ==
  ASSUME RequestsInv, UNCHANGED <<upwire, wish, synced>>, srvUsers'[Me] = srvUsers[Me]
  PROVE  RequestsInv'
BY DEF RequestsInv

\* The application asks for something.
LEMMA Requested ==
  ASSUME SessionInv, KnowledgeInv, RequestsInv, AppNext
  PROVE  RequestsInv'
<1>t. /\ upwire \in Seq(Request) /\ None \notin ChannelId /\ None \notin BOOLEAN
      /\ 0 \in ChannelId /\ Me \in Session
      /\ wish \in [channel : Opt(ChannelId), muted : Opt(BOOLEAN)]
  BY StoreConstants, SessionConstants DEF SessionInv, TypeOK
<1>1. ASSUME CanRequest
      PROVE  synced /\ SelfSession = Me
  BY <1>1 DEF CanRequest, SelfSession, KnowledgeInv, HandshakeInv, SelfInv
<1>2. ASSUME NEW c \in ChannelId, JoinChannel(c)
      PROVE  RequestsInv'
  <2> DEFINE r == [session |-> Me, channel |-> IF c = 0 THEN None ELSE c, muted |-> None]
  <2>1. synced /\ SelfSession = Me
    BY <1>1, <1>2 DEF JoinChannel
  <2>2. /\ upwire' = Append(upwire, r) /\ UNCHANGED <<srvUsers, synced>>
        /\ wish' = [wish EXCEPT !.channel = c]
    BY <1>t, <1>2, <2>1 DEF JoinChannel, SendUserState, OnTheWire, serverVars
  <2>3. wish'.channel = c /\ wish'.muted = wish.muted
    BY <1>t, <2>2
  <2>4. /\ r \in Request /\ r.session = Me /\ r.muted = None
        /\ c # 0 => r.channel = c /\ r.channel # None
    BY <1>t DEF Request, Opt
  <2> HIDE DEF r
  <2>5. /\ r \notin Foreign /\ r \notin Muting
        /\ c # 0 => r \in Moving /\ r \in To(c)
    BY <2>4 DEF Foreign, Muting, Moving, To
  <2>6. Silent(upwire', Foreign)
    BY <1>t, <2>2, <2>4, <2>5, Appended DEF RequestsInv
  <2>7. MoveWish(wish', upwire', srvUsers'[Me])
    BY <1>t, <2>2, <2>3, <2>4, <2>5, Appended DEF MoveWish
  <2>8. MuteWish(wish', upwire', srvUsers'[Me])
    BY <1>t, <2>2, <2>3, <2>4, <2>5, Appended DEF MuteWish, RequestsInv
  <2>9. QED
    BY <2>1, <2>2, <2>6, <2>7, <2>8 DEF RequestsInv
<1>3. ASSUME NEW n \in Names, JoinChannelByName(n)
      PROVE  RequestsInv'
  BY <1>2, <1>3 DEF JoinChannelByName, KnownChannels
<1>4. ASSUME NEW m \in BOOLEAN, SetSelfMute(m)
      PROVE  RequestsInv'
  <2> DEFINE r == [session |-> Me, channel |-> None,
                   muted |-> IF m = TRUE THEN TRUE ELSE None]
  <2>1. synced /\ SelfSession = Me
    BY <1>1, <1>4 DEF SetSelfMute
  <2>2. /\ upwire' = Append(upwire, r) /\ UNCHANGED <<srvUsers, synced>>
        /\ wish' = [wish EXCEPT !.muted = m]
    BY <1>t, <1>4, <2>1 DEF SetSelfMute, SendUserState, OnTheWire, serverVars
  <2>3. wish'.channel = wish.channel /\ wish'.muted = m
    BY <1>t, <2>2
  <2>4. /\ r \in Request /\ r.session = Me /\ r.channel = None
        /\ m => r.muted = TRUE /\ r.muted # None
    BY <1>t DEF Request, Opt
  <2> HIDE DEF r
  <2>5. /\ r \notin Foreign /\ r \notin Moving
        /\ m => r \in Muting /\ r \in On
    BY <2>4 DEF Foreign, Muting, Moving, On
  <2>6. Silent(upwire', Foreign)
    BY <1>t, <2>2, <2>4, <2>5, Appended DEF RequestsInv
  <2>7. MoveWish(wish', upwire', srvUsers'[Me])
    BY <1>t, <2>2, <2>3, <2>4, <2>5, Appended DEF MoveWish, RequestsInv
  <2>8. MuteWish(wish', upwire', srvUsers'[Me])
    BY <1>t, <2>2, <2>3, <2>4, <2>5, Appended DEF MuteWish
  <2>9. QED
    BY <2>1, <2>2, <2>6, <2>7, <2>8 DEF RequestsInv
<1>5. QED
  BY <1>2, <1>3, <1>4 DEF AppNext

\* The server answers the oldest request.
LEMMA Answered ==
  ASSUME SessionInv, RequestsInv, SrvApply
  PROVE  RequestsInv'
<1> DEFINE r == Head(upwire)
           me == srvUsers[Me]
           known == r.session \in SrvRoster /\ (r.channel # None => srvChannels[r.channel] # None)
<1>t. /\ upwire \in Seq(Request) /\ upwire # <<>> /\ upwire' = Tail(upwire)
      /\ r \in Request /\ srvUsers \in [Session -> Opt(User)] /\ Me \in Session
      /\ None \notin BOOLEAN /\ synced' = synced
  BY SessionConstants DEF SessionInv, TypeOK, SrvApply
<1>1. /\ \A C : Silent(upwire, C) <=> r \notin C /\ Silent(upwire', C)
      /\ \A C, G : /\ Final(upwire, C, G) => Final(upwire', C, G)
                   /\ r \in C /\ Silent(upwire', C) /\ Final(upwire, C, G) => r \in G
  BY <1>t, Taken
<1>2. r.session = Me /\ Silent(upwire', Foreign)
  BY <1>t, <1>1 DEF RequestsInv, Foreign
<1>3. CASE ~known
  <2>1. wish' = NoWish
    BY <1>2, <1>3 DEF SrvApply
  <2>2. QED
    BY <1>2, <2>1, Wishless DEF RequestsInv
<1>4. CASE known
  <2>1. /\ wish' = wish /\ me # None /\ me \in User
        /\ r.channel \in Opt(ChannelId) /\ r.muted \in Opt(BOOLEAN)
    BY <1>t, <1>2, <1>4 DEF SrvApply, SrvRoster, Opt, Request
  <2>2. /\ srvUsers'[Me].channel = Sticky(r.channel, me.channel)
        /\ srvUsers'[Me].muted = Sticky(r.muted, me.muted)
    <3> DEFINE new == [session |-> r.session, name |-> me.name,
                       channel |-> Sticky(r.channel, me.channel),
                       muted   |-> Sticky(r.muted, me.muted)]
    <3>1. srvUsers' = IF new # me THEN [srvUsers EXCEPT ![Me] = new] ELSE srvUsers
      BY <1>2, <1>4 DEF SrvApply
    <3>2. srvUsers'[Me] = new
      BY <1>t, <3>1
    <3>3. QED
      BY <3>2
  <2> HIDE DEF r, me, known
  <2>3. MoveWish(wish', upwire', srvUsers'[Me])
    <3> SUFFICES ASSUME wish.channel \notin {None, 0}
                 PROVE  /\ Silent(upwire', Moving) => srvUsers'[Me].channel = wish.channel
                        /\ Final(upwire', Moving, To(wish.channel))
      BY <2>1 DEF MoveWish
    <3>1. /\ Silent(upwire, Moving) => me.channel = wish.channel
          /\ Final(upwire, Moving, To(wish.channel))
      BY <2>1 DEF RequestsInv, MoveWish, me
    <3>2. CASE r \in Moving
      <4>1. r.channel # None /\ (r \in To(wish.channel) => r.channel = wish.channel)
        BY <3>2 DEF Moving, To
      <4>2. QED
        BY <1>1, <2>2, <3>1, <3>2, <4>1 DEF Sticky
    <3>3. CASE r \notin Moving
      <4>1. r.channel = None
        BY <1>t, <3>3 DEF Moving
      <4>2. QED
        BY <1>1, <2>2, <3>1, <3>3, <4>1 DEF Sticky
    <3>4. QED
      BY <3>2, <3>3
  <2>4. MuteWish(wish', upwire', srvUsers'[Me])
    <3> SUFFICES ASSUME wish.muted = TRUE
                 PROVE  /\ Silent(upwire', Muting) => srvUsers'[Me].muted = TRUE
                        /\ Final(upwire', Muting, On)
      BY <2>1 DEF MuteWish
    <3>1. /\ Silent(upwire, Muting) => me.muted = TRUE
          /\ Final(upwire, Muting, On)
      BY <2>1 DEF RequestsInv, MuteWish, me, User
    <3>2. CASE r \in Muting
      <4>1. r.muted # None /\ (r \in On => r.muted = TRUE)
        BY <3>2 DEF Muting, On
      <4>2. QED
        BY <1>1, <2>2, <3>1, <3>2, <4>1 DEF Sticky
    <3>3. CASE r \notin Muting
      <4>1. r.muted = None
        BY <1>t, <3>3 DEF Muting
      <4>2. QED
        BY <1>1, <2>2, <3>1, <3>3, <4>1 DEF Sticky
    <3>4. QED
      BY <3>2, <3>3
  <2>5. QED
    BY <1>t, <1>2, <2>1, <2>3, <2>4 DEF RequestsInv
<1>5. QED
  BY <1>3, <1>4
\* The server makes a change of its own: that overrules the wish, if it is
\* about what was wished for.
LEMMA Overruled ==
  ASSUME SessionInv, RequestsInv, ServerNext
  PROVE  RequestsInv'
<1>t. /\ srvUsers \in [Session -> Opt(User)] /\ Me \in Session
      /\ wish \in [channel : Opt(ChannelId), muted : Opt(BOOLEAN)]
      /\ synced \in BOOLEAN
      /\ None \notin Session \cup ChannelId \cup Names \cup User \cup Channel
  BY StoreConstants, SessionConstants DEF SessionInv, TypeOK
<1>1. ASSUME wish' = NoWish, upwire' = upwire
      PROVE  RequestsInv'
  BY <1>1, Wishless DEF RequestsInv
<1>2. ASSUME UNCHANGED <<upwire, synced>>, wish' = [wish EXCEPT !.channel = None],
             synced \/ wish' = NoWish,
             srvUsers'[Me] # None => srvUsers[Me] # None /\ srvUsers'[Me].muted = srvUsers[Me].muted
      PROVE  RequestsInv'
  <2>1. wish'.channel = None /\ wish'.muted = wish.muted
    BY <1>t, <1>2
  <2>2. MoveWish(wish', upwire', srvUsers'[Me])
    BY <2>1 DEF MoveWish
  <2>3. MuteWish(wish', upwire', srvUsers'[Me])
    BY <1>2, <2>1 DEF MuteWish, RequestsInv
  <2>4. QED
    BY <1>2, <2>2, <2>3 DEF RequestsInv
<1>w. NoWish = [NoWish EXCEPT !.channel = None] /\ NoWish = [NoWish EXCEPT !.muted = None]
  BY DEF NoWish
<1>3. ASSUME NEW c \in ChannelId, NEW n \in Names,
             SrvAddChannel(c, n) \/ SrvRenameChannel(c, n)
      PROVE  RequestsInv'
  BY <1>3, RequestsKept DEF SrvAddChannel, SrvRenameChannel, Announce
<1>4. ASSUME NEW c \in ChannelId, SrvRemoveChannel(c)
      PROVE  RequestsInv'
  <2>1. UNCHANGED <<upwire, synced, srvUsers>>
    BY <1>4 DEF SrvRemoveChannel, Announce
  <2>2. CASE wish' = wish
    BY <2>1, <2>2, RequestsKept
  <2>3. CASE wish' = [wish EXCEPT !.channel = None]
    BY <1>2, <1>w, <2>1, <2>3 DEF RequestsInv
  <2>4. QED
    BY <1>4, <2>2, <2>3 DEF SrvRemoveChannel
<1>5. ASSUME NEW s \in Session, NEW n \in Names, NEW c \in ChannelId,
             SrvJoin(s, n, c)
      PROVE  RequestsInv'
  <2>1. CASE s = Me
    <3>1. wish' = NoWish /\ upwire' = upwire
      BY <1>5, <2>1 DEF SrvJoin, Announce, RequestsInv
    <3>2. QED
      BY <1>1, <3>1
  <2>2. CASE s # Me
    BY <1>t, <1>5, <2>2, RequestsKept DEF SrvJoin, Announce
  <2>3. QED
    BY <2>1, <2>2
<1>6. ASSUME NEW s \in Session, NEW c \in ChannelId, SrvMove(s, c)
      PROVE  RequestsInv'
  <2>1. /\ UNCHANGED <<upwire, synced>> /\ srvUsers[s] # None
        /\ srvUsers' = [srvUsers EXCEPT ![s].channel = c]
    BY <1>6 DEF SrvMove, Announce
  <2>2. CASE s = Me
    <3>1. wish' = [wish EXCEPT !.channel = None]
      BY <1>6, <2>2 DEF SrvMove
    <3>2. srvUsers[Me] \in User
      BY <1>t, <2>1, <2>2 DEF Opt
    <3>3. srvUsers'[Me].muted = srvUsers[Me].muted
      BY <1>t, <2>1, <2>2, <3>2 DEF User
    <3>4. QED
      BY <1>2, <1>w, <2>1, <2>2, <3>1, <3>3 DEF RequestsInv
  <2>3. CASE s # Me
    BY <1>t, <1>6, <2>1, <2>3, RequestsKept DEF SrvMove
  <2>4. QED
    BY <2>2, <2>3
<1>7. ASSUME NEW s \in Session, NEW m \in BOOLEAN, SrvMute(s, m)
      PROVE  RequestsInv'
  <2>1. /\ UNCHANGED <<upwire, synced>> /\ srvUsers[s] # None
        /\ srvUsers' = [srvUsers EXCEPT ![s].muted = m]
    BY <1>7 DEF SrvMute, Announce
  <2>2. CASE s = Me
    <3>1. wish' = [wish EXCEPT !.muted = None]
      BY <1>7, <2>2 DEF SrvMute
    <3>2. wish'.muted = None /\ wish'.channel = wish.channel
      BY <1>t, <3>1
    <3>3. srvUsers[Me] \in User
      BY <1>t, <2>1, <2>2 DEF Opt
    <3>4. srvUsers'[Me].channel = srvUsers[Me].channel
      BY <1>t, <2>1, <2>2, <3>3 DEF User
    <3>5. MoveWish(wish', upwire', srvUsers'[Me])
      BY <2>1, <2>2, <3>2, <3>4 DEF MoveWish, RequestsInv
    <3>6. MuteWish(wish', upwire', srvUsers'[Me])
      BY <3>2, SessionConstants DEF MuteWish
    <3>7. ~synced => wish' = NoWish
      BY <1>w, <3>1 DEF RequestsInv
    <3>8. QED
      BY <2>1, <3>5, <3>6, <3>7 DEF RequestsInv
  <2>3. CASE s # Me
    BY <1>t, <1>7, <2>1, <2>3, RequestsKept DEF SrvMute
  <2>4. QED
    BY <2>2, <2>3
<1>8. ASSUME NEW s \in Session, SrvLeave(s)
      PROVE  RequestsInv'
  <2>1. CASE s = Me
    <3>1. wish' = NoWish /\ upwire' = upwire
      BY <1>8, <2>1 DEF SrvLeave, Announce
    <3>2. QED
      BY <1>1, <3>1
  <2>2. CASE s # Me
    BY <1>t, <1>8, <2>2, RequestsKept DEF SrvLeave, Announce
  <2>3. QED
    BY <2>1, <2>2
<1>9. CASE SrvSync \/ SrvReject
  BY <1>9, <1>t DEF SrvSync, SrvReject, appVars, RequestsInv
<1>10. CASE SrvApply
  BY <1>10, Answered
<1>11. QED
  BY <1>3, <1>4, <1>5, <1>6, <1>7, <1>8, <1>9, <1>10 DEF ServerNext

\* A request the codec can carry is about this client, and holds until the
\* server overrules it.
THEOREM RequestsKeepUp == Spec => []RequestsHonoured
<1>1. Init => RequestsInv
  <2> SUFFICES ASSUME Init PROVE RequestsInv
    OBVIOUS
  <2>1. upwire = <<>> /\ wish = NoWish
    BY DEF Init
  <2>2. \A C : Silent(upwire, C)
    BY <2>1 DEF Silent
  <2>3. QED
    BY <2>1, <2>2, Wishless DEF RequestsInv
<1>2. SessionInv /\ KnowledgeInv /\ RequestsInv /\ [Next]_vars => RequestsInv'
  <2> SUFFICES ASSUME SessionInv, KnowledgeInv, RequestsInv, [Next]_vars
               PROVE  RequestsInv'
    OBVIOUS
  <2>1. CASE ClientNext
    BY <2>1, ReaderReads, RequestsKept
  <2>2. CASE UNCHANGED vars
    BY <2>2, RequestsKept DEF vars
  <2>3. QED
    BY <2>1, <2>2, Overruled, Requested DEF Next
<1>3. SessionInv /\ RequestsInv => RequestsHonoured
  <2> SUFFICES ASSUME RequestsInv, Settled, srvUsers[Me] # None
               PROVE  /\ \/ wish.channel \in {None, 0}
                         \/ srvUsers[Me].channel = wish.channel
                      /\ wish.muted = TRUE => srvUsers[Me].muted
    BY DEF RequestsHonoured
  <2>1. \A C : Silent(upwire, C)
    BY DEF Settled, Silent
  <2>2. QED
    BY <2>1 DEF RequestsInv, MoveWish, MuteWish
<1>4. QED
  BY <1>1, <1>2, <1>3, KnowledgeInvariant, PTL DEF Spec
=============================================================================
