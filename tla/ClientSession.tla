---------------------------- MODULE ClientSession ----------------------------
(***************************************************************************)
(* One session of client.Client with its server, as seen through the       *)
(* control channel: what the server announces, what the handshake loop and *)
(* then messageLoop make of it in the store, what the application is told, *)
(* and what becomes of the application's requests on the way up.           *)
(*                                                                         *)
(* One goroutine reads the connection at a time - Connect during the       *)
(* handshake, messageLoop afterwards - so the reader is one process with a *)
(* program counter.  A frame is handled in two steps once messageLoop      *)
(* runs: the store is updated, then the callback is called; whoever reads  *)
(* the store in between sees the first without the second.                 *)
(*                                                                         *)
(* Left to other modules: goroutine start and stop (ClientLifecycle).      *)
(* Frames that touch neither the store nor the roster events (Ping,        *)
(* TextMessage, CodecVersion, CryptSetup, UDPTunnel, PermissionDenied,     *)
(* ServerConfig) are left out.  The server is external: it is the server   *)
(* this client is written for, which announces every user and channel,     *)
(* then sends ServerSync, and afterwards sends a change as a message that  *)
(* carries the changed fields only.                                        *)
(***************************************************************************)
EXTENDS StateStore, Sequences

CONSTANTS
  Me,           \* the session the server assigns to this client
  EarlyRemoval, \* whether the server removes channels during the handshake
  MaxEdits,     \* bound: changes the server makes
  MaxCommands   \* bound: requests the application makes

VARIABLES
  srvUsers,     \* the server's roster: session -> user or None
  srvChannels,  \* the server's channels
  synced,       \* the server has sent ServerSync (or Reject)
  edits,        \* changes made so far
  wire,         \* frames on their way to the client, in TCP order
  pc,           \* where the reader is
  event,        \* the callback messageLoop is about to call, or None
  mirror,       \* the roster an application builds from its callbacks
  upwire,       \* UserState frames on their way to the server
  commands,     \* requests made so far
  wish          \* the field values last requested and not overruled since

serverVars == <<srvUsers, srvChannels, synced, edits>>
appVars    == <<mirror, commands, wish>>
vars == <<users, channels, self, ready, srvUsers, srvChannels, synced, edits,
          wire, pc, event, mirror, upwire, commands, wish>>

NoWish == [channel |-> None, muted |-> None]

Init ==
  /\ StoreInit
  /\ srvUsers = [s \in Session |-> None]
  /\ srvChannels = [c \in ChannelId |-> None]
  /\ synced = FALSE /\ edits = 0
  /\ wire = <<>> /\ upwire = <<>>
  /\ pc = "handshake" /\ event = None
  /\ mirror = {} /\ commands = 0 /\ wish = NoWish

-----------------------------------------------------------------------------
(* The server (external).  An absent flag reads as FALSE at the client.     *)

UserState(s, n, c, m) ==
  [type |-> "UserState", session |-> s, name |-> n, channel |-> c, muted |-> m]
ChannelState(c, n, p) ==
  [type |-> "ChannelState", id |-> c, name |-> n, position |-> p]
UserRemove(s)    == [type |-> "UserRemove", session |-> s]
ChannelRemove(c) == [type |-> "ChannelRemove", id |-> c]
ServerSync       == [type |-> "ServerSync", session |-> Me]
Reject           == [type |-> "Reject"]

\* The frames modelled, and the requests as they are on the wire.
UserStateMsg ==
  [type : {"UserState"}, session : Session, name : Opt(Names),
   channel : Opt(ChannelId), muted : BOOLEAN]
ChannelStateMsg ==
  [type : {"ChannelState"}, id : ChannelId, name : Opt(Names), position : BOOLEAN]
Msg ==
  UserStateMsg \cup ChannelStateMsg
    \cup [type : {"UserRemove", "ServerSync"}, session : Session]
    \cup [type : {"ChannelRemove"}, id : ChannelId]
    \cup [type : {"Reject"}]
Request == [session : Session, channel : Opt(ChannelId), muted : Opt(BOOLEAN)]

\* The callbacks messageLoop makes of them.
Event == [type : {"UserState", "UserLeft", "ChannelAdded", "ChannelRemoved"},
          id : Session \cup ChannelId]

ASSUME SessionConstants ==
  /\ Me \in Session
  /\ 0 \in ChannelId
  /\ EarlyRemoval \in BOOLEAN
  /\ MaxEdits \in Nat /\ MaxCommands \in Nat
  /\ None \notin Event \cup BOOLEAN

SrvRoster == {s \in Session : srvUsers[s] # None}

\* A change of the server's state together with the frame announcing it.
Announce(msg) ==
  /\ edits < MaxEdits /\ edits' = edits + 1
  /\ wire' = Append(wire, msg)
  /\ UNCHANGED <<storeVars, pc, event, mirror, upwire, commands>>

SrvAddChannel(c, n) ==
  /\ srvChannels[c] = None
  /\ srvChannels' = [srvChannels EXCEPT ![c] = [name |-> n, position |-> TRUE]]
  /\ Announce(ChannelState(c, n, TRUE))
  /\ UNCHANGED <<srvUsers, synced, wish>>

SrvRenameChannel(c, n) ==
  /\ srvChannels[c] # None /\ srvChannels[c].name # n
  /\ srvChannels' = [srvChannels EXCEPT ![c].name = n]
  /\ Announce(ChannelState(c, n, FALSE))
  /\ UNCHANGED <<srvUsers, synced, wish>>

\* The root stays, and a channel is emptied before it goes.
SrvRemoveChannel(c) ==
  /\ synced \/ EarlyRemoval
  /\ c # 0 /\ srvChannels[c] # None
  /\ \A s \in SrvRoster : srvUsers[s].channel # c
  /\ srvChannels' = [srvChannels EXCEPT ![c] = None]
  /\ Announce(ChannelRemove(c))
  /\ wish' = IF wish.channel = c THEN [wish EXCEPT !.channel = None] ELSE wish
  /\ UNCHANGED <<srvUsers, synced>>

\* Somebody joins, or is announced to the newcomer; this client is there
\* before ServerSync and its session is not given out again.
SrvJoin(s, n, c) ==
  /\ srvUsers[s] = None /\ srvChannels[c] # None
  /\ s = Me => ~synced
  /\ srvUsers' = [srvUsers EXCEPT ![s] =
                    [session |-> s, name |-> n, channel |-> c, muted |-> FALSE]]
  /\ Announce(UserState(s, n, c, FALSE))
  /\ UNCHANGED <<srvChannels, synced, wish>>

SrvMove(s, c) ==
  /\ srvUsers[s] # None /\ srvChannels[c] # None /\ srvUsers[s].channel # c
  /\ srvUsers' = [srvUsers EXCEPT ![s].channel = c]
  /\ Announce(UserState(s, None, c, FALSE))
  /\ wish' = IF s = Me THEN [wish EXCEPT !.channel = None] ELSE wish
  /\ UNCHANGED <<srvChannels, synced>>

SrvMute(s, m) ==
  /\ srvUsers[s] # None /\ srvUsers[s].muted # m
  /\ srvUsers' = [srvUsers EXCEPT ![s].muted = m]
  /\ Announce(UserState(s, None, None, m))
  /\ wish' = IF s = Me THEN [wish EXCEPT !.muted = None] ELSE wish
  /\ UNCHANGED <<srvChannels, synced>>

SrvLeave(s) ==
  /\ srvUsers[s] # None
  /\ s = Me => synced
  /\ srvUsers' = [srvUsers EXCEPT ![s] = None]
  /\ Announce(UserRemove(s))
  /\ wish' = IF s = Me THEN NoWish ELSE wish
  /\ UNCHANGED <<srvChannels, synced>>

SrvSync ==
  /\ ~synced /\ srvUsers[Me] # None
  /\ synced' = TRUE
  /\ wire' = Append(wire, ServerSync)
  /\ UNCHANGED <<storeVars, srvUsers, srvChannels, edits, pc, event, appVars, upwire>>

SrvReject ==
  /\ ~synced /\ edits = 0
  /\ synced' = TRUE
  /\ wire' = Append(wire, Reject)
  /\ UNCHANGED <<storeVars, srvUsers, srvChannels, edits, pc, event, appVars, upwire>>

\* The server applies the fields a request carries and announces them.  A
\* request that changes nothing is dropped, one about a user or a channel it
\* does not know is denied; of this client's own, that overrules the wish.
SrvApply ==
  /\ upwire # <<>>
  /\ upwire' = Tail(upwire)
  /\ LET r == Head(upwire)
         known == /\ r.session \in SrvRoster
                  /\ r.channel # None => srvChannels[r.channel] # None
         new == [session |-> r.session,
                 name    |-> srvUsers[r.session].name,
                 channel |-> Sticky(r.channel, srvUsers[r.session].channel),
                 muted   |-> Sticky(r.muted, srvUsers[r.session].muted)]
     IN  /\ IF known /\ new # srvUsers[r.session]
            THEN /\ srvUsers' = [srvUsers EXCEPT ![r.session] = new]
                 /\ wire' = Append(wire, UserState(r.session, None, r.channel,
                                                   r.muted = TRUE))
            ELSE UNCHANGED <<srvUsers, wire>>
         /\ wish' = IF ~known /\ r.session = Me THEN NoWish ELSE wish
  /\ UNCHANGED <<storeVars, srvChannels, synced, edits, pc, event, mirror, commands>>

ServerNext ==
  \/ \E c \in ChannelId, n \in Names : SrvAddChannel(c, n)
  \/ \E c \in ChannelId, n \in Names : SrvRenameChannel(c, n)
  \/ \E c \in ChannelId : SrvRemoveChannel(c)
  \/ \E s \in Session, n \in Names, c \in ChannelId : SrvJoin(s, n, c)
  \/ \E s \in Session, c \in ChannelId : SrvMove(s, c)
  \/ \E s \in Session, m \in BOOLEAN : SrvMute(s, m)
  \/ \E s \in Session : SrvLeave(s)
  \/ SrvSync
  \/ SrvReject
  \/ SrvApply

-----------------------------------------------------------------------------
(* The handshake loop: Connect's goroutine, no callbacks.                   *)

\* Reading a frame: the next one in TCP order.
Read(type) ==
  /\ wire # <<>> /\ Head(wire).type = type
  /\ wire' = Tail(wire)

clientUnchanged == UNCHANGED <<serverVars, upwire, appVars>>

HsChannelState ==
  /\ pc = "handshake" /\ Read("ChannelState")
  /\ UpsertChannelFromProto(Head(wire))
  /\ UNCHANGED <<pc, event>> /\ clientUnchanged

\* A bug: the handshake skips the users listed before ServerSync, the way it
\* skips the frames it has no case for.
HsSkipsUserState ==
  /\ pc = "handshake" /\ Read("UserState")
  /\ UNCHANGED <<storeVars, pc, event>> /\ clientUnchanged

HsUserState ==
  /\ pc = "handshake" /\ Read("UserState")
  /\ UpsertUserFromProto(Head(wire))
  /\ UNCHANGED <<pc, event>> /\ clientUnchanged

HsUserRemove ==
  /\ pc = "handshake" /\ Read("UserRemove")
  /\ IF Head(wire).session # 0 THEN RemoveUser(Head(wire).session)
                               ELSE UNCHANGED storeVars
  /\ UNCHANGED <<pc, event>> /\ clientUnchanged

\* The loop has no case for ChannelRemove: the default branch only logs.
HsChannelRemove ==
  /\ pc = "handshake" /\ Read("ChannelRemove")
  /\ UNCHANGED <<storeVars, pc, event>> /\ clientUnchanged

\* SetSelf files a bare user {Session} over whatever the map had for it,
\* then MarkReady; the handshake returns.
HsServerSync ==
  /\ pc = "handshake" /\ Read("ServerSync")
  /\ LET s == Head(wire).session IN
     IF s # 0 THEN /\ self' = ZeroUser(s)
                   /\ users' = [users EXCEPT ![s] = ZeroUser(s)]
              ELSE UNCHANGED <<self, users>>
  /\ ready' = TRUE
  /\ pc' = "connected"
  /\ UNCHANGED <<channels, event>> /\ clientUnchanged

HsReject ==
  /\ pc = "handshake" /\ Read("Reject")
  /\ pc' = "rejected"
  /\ UNCHANGED <<storeVars, event>> /\ clientUnchanged

\* OnConnect, called by Connect before the loops start.  The application
\* takes its first roster from the store here.
EmitConnect ==
  /\ pc = "connected"
  /\ mirror' = KnownUsers
  /\ pc' = "loop"
  /\ UNCHANGED <<storeVars, serverVars, wire, event, upwire, commands, wish>>

-----------------------------------------------------------------------------
(* messageLoop.                                                             *)

loopUnchanged == UNCHANGED pc /\ clientUnchanged

LoopChannelState ==
  /\ pc = "loop" /\ event = None /\ Read("ChannelState")
  /\ UpsertChannelFromProto(Head(wire))
  /\ event' = [type |-> "ChannelAdded", id |-> Head(wire).id]
  /\ loopUnchanged

LoopChannelRemove ==
  /\ pc = "loop" /\ event = None /\ Read("ChannelRemove")
  /\ IF Head(wire).id # 0
     THEN /\ RemoveChannel(Head(wire).id)
          /\ event' = [type |-> "ChannelRemoved", id |-> Head(wire).id]
     ELSE UNCHANGED <<storeVars, event>>
  /\ loopUnchanged

LoopUserState ==
  /\ pc = "loop" /\ event = None /\ Read("UserState")
  /\ UpsertUserFromProto(Head(wire))
  /\ event' = IF Head(wire).session # 0
              THEN [type |-> "UserState", id |-> Head(wire).session] ELSE None
  /\ loopUnchanged

\* A bug: the store forgets the user and nobody is told.
LoopUserRemoveSilently ==
  /\ pc = "loop" /\ event = None /\ Read("UserRemove")
  /\ RemoveUser(Head(wire).session)
  /\ UNCHANGED event
  /\ loopUnchanged

LoopUserRemove ==
  /\ pc = "loop" /\ event = None /\ Read("UserRemove")
  /\ IF Head(wire).session # 0
     THEN /\ RemoveUser(Head(wire).session)
          /\ event' = [type |-> "UserLeft", id |-> Head(wire).session]
     ELSE UNCHANGED <<storeVars, event>>
  /\ loopUnchanged

\* The callback.  The application keeps its roster up to date with it.
Emit ==
  /\ pc = "loop" /\ event # None
  /\ mirror' = CASE event.type = "UserState" -> mirror \cup {event.id}
                 [] event.type = "UserLeft"  -> mirror \ {event.id}
                 [] OTHER -> mirror
  /\ event' = None
  /\ UNCHANGED <<storeVars, serverVars, wire, pc, upwire, commands, wish>>

-----------------------------------------------------------------------------
(* Requests, from any goroutine of the application.                         *)

\* What UserState.Marshal puts on the wire of a request: a field at its zero
\* value is left out (HasChannelID is never set by the callers here).
OnTheWire(us) ==
  [session |-> us.session,
   channel |-> IF us.channel = 0 THEN None ELSE us.channel,
   muted   |-> IF us.muted = TRUE THEN TRUE ELSE None]

SendUserState(us) ==
  /\ commands < MaxCommands /\ commands' = commands + 1
  /\ upwire' = Append(upwire, OnTheWire(us))
  /\ UNCHANGED <<storeVars, serverVars, wire, pc, event, mirror>>

\* A connection there is, so the only refusal is "session not assigned".
CanRequest == pc \in {"connected", "loop"} /\ SelfSession # 0

\* A bug: the request does not say whose channel is to change.
JoinChannelAnonymously(c) ==
  /\ CanRequest
  /\ SendUserState([session |-> 0, channel |-> c, muted |-> FALSE])
  /\ wish' = [wish EXCEPT !.channel = c]

JoinChannel(c) ==
  /\ CanRequest
  /\ SendUserState([session |-> SelfSession, channel |-> c, muted |-> FALSE])
  /\ wish' = [wish EXCEPT !.channel = c]

JoinChannelByName(n) ==
  \E c \in KnownChannels : channels[c].name = n /\ JoinChannel(c)

\* SetSelfMute, and SetSelfDeaf, which is the same code.
SetSelfMute(m) ==
  /\ CanRequest
  /\ SendUserState([session |-> SelfSession, channel |-> 0, muted |-> m])
  /\ wish' = [wish EXCEPT !.muted = m]

ClientNext ==
  \/ HsChannelState \/ HsUserState \/ HsUserRemove \/ HsChannelRemove
  \/ HsServerSync \/ HsReject
  \/ EmitConnect
  \/ LoopChannelState \/ LoopChannelRemove \/ LoopUserState \/ LoopUserRemove
  \/ Emit

AppNext ==
  \/ \E c \in ChannelId : JoinChannel(c)
  \/ \E n \in Names : JoinChannelByName(n)
  \/ \E m \in BOOLEAN : SetSelfMute(m)

Next == ServerNext \/ ClientNext \/ AppNext

\* A goroutine that is not blocked runs: the reader handles what has
\* arrived, and the server, once it has listed the client, completes the
\* handshake and answers requests.
Fairness == WF_vars(ClientNext) /\ WF_vars(SrvSync) /\ WF_vars(SrvApply)

Spec == Init /\ [][Next]_vars /\ Fairness

-----------------------------------------------------------------------------
(* Properties.                                                              *)

\* The type invariant: every queue holds frames of the kinds modelled.
TypeOK ==
  /\ StoreTypeOK
  /\ srvUsers \in [Session -> Opt(User)]
  /\ srvChannels \in [ChannelId -> Opt(Channel)]
  /\ synced \in BOOLEAN /\ edits \in 0..MaxEdits
  /\ wire \in Seq(Msg) /\ upwire \in Seq(Request)
  /\ pc \in {"handshake", "connected", "loop", "rejected"}
  /\ event \in Opt(Event)
  /\ mirror \subseteq Session
  /\ commands \in 0..MaxCommands
  /\ wish \in [channel : Opt(ChannelId), muted : Opt(BOOLEAN)]

\* Everything announced has been handled and every request answered.
Settled == pc = "loop" /\ event = None /\ wire = <<>> /\ upwire = <<>>

\* "Store keeps the latest server snapshot" (state/store.go:5), as far as the
\* code keeps it: when everything announced has been handled, the store has
\* exactly the server's users, whether they came before or after ServerSync,
\* and each other user has the name and place last announced, through whatever
\* sequence of updates that carry a changed field only.
RosterSynced ==
  Settled =>
    /\ KnownUsers = SrvRoster
    /\ \A s \in SrvRoster \ {Me} :
         /\ users[s].name = srvUsers[s].name
         /\ users[s].channel = srvUsers[s].channel

\* The same of the channels and their names.
ChannelsSynced ==
  Settled => \A c \in ChannelId :
    /\ channels[c] = None <=> srvChannels[c] = None
    /\ channels[c] # None => channels[c].name = srvChannels[c].name

\* SelfSession, which every request depends on, says who this client is for
\* as long as the server knows it, and stops when the server removes it.
SelfIsMe == Settled => SelfSession = IF srvUsers[Me] = None THEN 0 ELSE Me

\* An application that takes the roster from the store in OnConnect and then
\* follows OnUserState and OnUserLeft misses nobody: the snapshot is taken
\* before messageLoop can change the store, and every later change is told.
MirrorSynced == pc = "loop" /\ event = None => mirror = KnownUsers

\* A request the codec can carry reaches the server with the session it is
\* about, and holds until the server overrules it.
RequestsHonoured ==
  Settled /\ srvUsers[Me] # None =>
    /\ \/ wish.channel \in {None, 0}
       \/ srvChannels[wish.channel] = None
       \/ srvUsers[Me].channel = wish.channel
    /\ wish.muted = TRUE => srvUsers[Me].muted

\* However the frames interleave, once the server stops making changes the
\* store and the application's roster end up at the server's roster for good.
EventuallySynced ==
  <>[](synced /\ pc # "rejected" => KnownUsers = SrvRoster /\ mirror = SrvRoster)

-----------------------------------------------------------------------------
(* What comments of the repository say and the code does not do.            *)

\* state/store.go:5, of a channel removed while the handshake is under way.
NoGhostChannels ==
  Settled => \A c \in KnownChannels : srvChannels[c] # None

\* state/store.go:5, of the fields without a presence flag: a message about
\* something else resets them.
FlagsSynced ==
  Settled => \A s \in SrvRoster \ {Me} : users[s].muted = srvUsers[s].muted
=============================================================================
