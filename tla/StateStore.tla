------------------------------ MODULE StateStore ------------------------------
(***************************************************************************)
(* state.Store: the client's copy of what the server announced.  Every     *)
(* method holds s.mu from its first line to its return, so each is one     *)
(* atomic action here.  A Go map is a function that is None outside the    *)
(* keys the map has.                                                       *)
(*                                                                         *)
(* Data that the code treats alike is one field:                           *)
(*   name     stands for the fields an upsert keeps when the message has   *)
(*            no value for them (Name, Texture, TextureHash,               *)
(*            CertificateHash, PluginIdentity, PluginContext; of a         *)
(*            channel: Name, ParentID, Description);                       *)
(*   muted    stands for the fields an upsert overwrites with the          *)
(*            message's value, absent or not (UserID, Muted, Deafened,     *)
(*            SelfMute, SelfDeaf, Suppress, Recording);                    *)
(*   position stands for the same of a channel (Position, Links,           *)
(*            Temporary, MaxUsers).                                        *)
(***************************************************************************)
EXTENDS Naturals

CONSTANTS
  Session,    \* session ids the server hands out; 0 is Go's "no session"
  ChannelId,  \* channel ids; 0 is the root channel
  Names,      \* the non-empty values of a name-like field
  None        \* an absent key, an empty field, a nil pointer

Opt(S) == S \cup {None}

\* The zero value of state.User but for Session, and of state.Channel.
ZeroUser(s) == [session |-> s, name |-> None, channel |-> None, muted |-> FALSE]
ZeroChannel == [name |-> None, position |-> FALSE]

User    == [session : Session, name : Opt(Names), channel : Opt(ChannelId),
            muted : BOOLEAN]
Channel == [name : Opt(Names), position : BOOLEAN]

ASSUME StoreConstants ==
  /\ Session \subseteq Nat \ {0}
  /\ ChannelId \subseteq Nat
  /\ None \notin Session \cup ChannelId \cup Names \cup User \cup Channel

VARIABLES
  users,      \* Store.Users
  channels,   \* Store.Channels
  self,       \* what Store.Self points to: a copy of a user, or nil
  ready       \* Store.Ready

storeVars == <<users, channels, self, ready>>

StoreInit ==
  /\ users = [s \in Session |-> None]
  /\ channels = [c \in ChannelId |-> None]
  /\ self = None
  /\ ready = FALSE

-----------------------------------------------------------------------------
(* What the readers under RLock return. *)

SelfSession   == IF self = None THEN 0 ELSE self.session
KnownUsers    == {s \in Session : users[s] # None}
KnownChannels == {c \in ChannelId : channels[c] # None}

-----------------------------------------------------------------------------
(* The writers.  A parsed UserState has the fields of a User, a parsed      *)
(* ChannelState those of a Channel and an id: what the frame did not carry  *)
(* is None, or FALSE in a field that has no presence flag.                  *)

\* The value of a sticky field after an upsert.
Sticky(new, old) == IF new # None THEN new ELSE old

\* A bug: a user that is new to the map is stored without its session.
MergedUserUnfiled(cs) ==
  LET old == IF users[cs.session] = None THEN ZeroUser(0) ELSE users[cs.session]
  IN  [session |-> old.session,
       name    |-> Sticky(cs.name, old.name),
       channel |-> Sticky(cs.channel, old.channel),
       muted   |-> cs.muted]

MergedUser(cs) ==
  LET old == IF users[cs.session] = None THEN ZeroUser(cs.session)
                                         ELSE users[cs.session]
  IN  [session |-> cs.session,
       name    |-> Sticky(cs.name, old.name),
       channel |-> Sticky(cs.channel, old.channel),
       muted   |-> cs.muted]

\* A bug: the merged user goes into the map only, and the copy that Self
\* points to is left as it was.
UpsertLeavesSelfStale(cs) ==
  /\ users' = [users EXCEPT ![cs.session] = MergedUser(cs)]
  /\ UNCHANGED <<self, channels, ready>>

UpsertUserFromProto(cs) ==
  /\ users' = [users EXCEPT ![cs.session] = MergedUser(cs)]
  /\ self' = IF self # None /\ self.session = cs.session
             THEN MergedUser(cs) ELSE self
  /\ UNCHANGED <<channels, ready>>

MergedChannel(cs) ==
  LET old == IF channels[cs.id] = None THEN ZeroChannel ELSE channels[cs.id]
  IN  [name |-> Sticky(cs.name, old.name), position |-> cs.position]

UpsertChannelFromProto(cs) ==
  /\ channels' = [channels EXCEPT ![cs.id] = MergedChannel(cs)]
  /\ UNCHANGED <<users, self, ready>>

\* A bug: Self still points to a user that is gone.
RemoveUserKeepsSelf(session) ==
  /\ users' = [users EXCEPT ![session] = None]
  /\ UNCHANGED <<self, channels, ready>>

RemoveUser(session) ==
  /\ users' = [users EXCEPT ![session] = None]
  /\ self' = IF self # None /\ self.session = session THEN None ELSE self
  /\ UNCHANGED <<channels, ready>>

\* A bug: the entry is emptied and stays in the map.
RemoveChannelEmptiesIt(id) ==
  /\ channels' = [channels EXCEPT ![id] = ZeroChannel]
  /\ UNCHANGED <<users, self, ready>>

RemoveChannel(id) ==
  /\ channels' = [channels EXCEPT ![id] = None]
  /\ UNCHANGED <<users, self, ready>>

SetSelf(u) ==
  /\ self' = u
  /\ users' = [users EXCEPT ![u.session] = u]
  /\ UNCHANGED <<channels, ready>>

MarkReady ==
  /\ ready' = TRUE
  /\ UNCHANGED <<users, channels, self>>

-----------------------------------------------------------------------------
(* The store on its own: Client.State() hands the pointer out, so any       *)
(* goroutine may call any method at any time.                               *)

ChannelMsg == [id : ChannelId, name : Opt(Names), position : BOOLEAN]

StoreNext ==
  \/ \E cs \in User : UpsertUserFromProto(cs)
  \/ \E cs \in ChannelMsg : UpsertChannelFromProto(cs)
  \/ \E s \in Session : RemoveUser(s)
  \/ \E c \in ChannelId : RemoveChannel(c)
  \/ \E u \in User : SetSelf(u)
  \/ MarkReady

StoreSpec == StoreInit /\ [][StoreNext]_storeVars

\* The type invariant: every entry of the maps, and Self, is a user or a
\* channel of the store's types.
StoreTypeOK ==
  /\ users \in [Session -> Opt(User)]
  /\ channels \in [ChannelId -> Opt(Channel)]
  /\ self \in Opt(User)
  /\ ready \in BOOLEAN

\* Self is a copy of a map entry, not a reference to it, and three methods
\* maintain the two separately: whatever the order of calls, the copy is the
\* entry, and it never outlives the entry.
SelfMirrorsUsers == self # None => users[self.session] = self
=============================================================================
