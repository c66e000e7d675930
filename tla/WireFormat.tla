----------------------------- MODULE WireFormat -----------------------------
(***************************************************************************)
(* protocol/messages.go: the control messages, Marshal and Unmarshal.      *)
(*                                                                         *)
(* All messages are coded alike, so a message type is the sequence of its  *)
(* fields in the order of Marshal, and one Encode and one ParseField stand *)
(* for the code of every type.  Bytes are bytes.  The values of a uint32   *)
(* and of a uint64 are scaled down to the constants U32 and U64; with      *)
(* U64 = 128^3 the ten bytes of a negative number become three.  An int is *)
(* as wide as a uint64 and has a sign.  A string or []byte is a sequence   *)
(* of bytes.  Authenticate.CeltVersions is neither written nor read.       *)
(*                                                                         *)
(* The machine: a message is marshalled, by this library or by a server,   *)
(* or any other bytes come, and Unmarshal reads them field by field.       *)
(***************************************************************************)
EXTENDS Integers, Sequences, SequencesExt

CONSTANTS
  U32, U64,   \* how many values a uint32 and a uint64 have; every tag is a uint64
  Numbers,    \* sample numbers of fields, 0 among them
  Texts,      \* sample contents of strings and []byte, <<>> among them
  Strays      \* bytes that need not be a message

ASSUME WireConstants ==
  /\ U32 \in Nat \ {0, 1} /\ U64 \in Nat /\ U32 <= U64 /\ U64 % U32 = 0 /\ U64 % 2 = 0 /\ 255 < U64
  /\ 0 \in Numbers /\ Numbers \subseteq 0..(U32 - 1)
  /\ <<>> \in Texts /\ Texts \subseteq Seq(0..255) /\ \A s \in Texts : Len(s) < U64
  /\ Strays \subseteq Seq(0..255)

VARIABLES
  type,    \* the type of the message
  by,      \* who wrote it: "client" (this library), "server", or "other"
  sent,    \* the message
  buf,     \* its bytes
  pos,     \* Unmarshal's index i, counted from 1
  got,     \* what Unmarshal has filled in
  phase    \* "idle", "parse", "done" when it has returned, or "panicked"

vars == <<type, by, sent, buf, pos, got, phase>>

-----------------------------------------------------------------------------
(* The message types.                                                       *)

Field(n, k, x) == [num |-> n, kind |-> k, name |-> x, flag |-> "none"]
\* A field with a flag: "opt", written when the flag or the number says so;
\* "include", written when the flag says so, which Unmarshal does not set.
Flagged(n, k, x, flag) == [num |-> n, kind |-> k, name |-> x, flag |-> flag]

Version == <<Field(1, "uint32", "Version"), Field(2, "string", "Release"),
             Field(3, "string", "OS"), Field(4, "string", "OSVersion")>>

Authenticate == <<Field(1, "string", "Username"), Field(2, "string", "Password"),
                  Field(3, "strings", "Tokens"), Field(4, "bool", "Opus"),
                  Field(6, "string", "Ping")>>

ServerSync == <<Field(1, "uint64", "Session"), Field(2, "uint32", "MaxBandwidth"),
                Field(3, "string", "WelcomeText"), Field(4, "string", "ServerIDHash"),
                Field(5, "string", "WelcomeText2")>>

ChannelState ==
  <<Flagged(1, "opt", "ChannelID", "HasChannelID"),
    Flagged(2, "opt", "Parent", "HasParent"), Field(3, "string", "Name"),
    Field(4, "numbers", "Links"), Field(5, "string", "Description"),
    Field(6, "numbers", "LinksAdd"), Field(7, "numbers", "LinksRemove"),
    Field(8, "bool", "Temporary"), Field(9, "int32", "Position"),
    Field(10, "string", "DescriptionHash"), Field(11, "uint32", "MaxUsers"),
    Field(12, "bool", "IsEnterRestricted"), Field(13, "bool", "CanEnter")>>

UserState ==
  <<Field(1, "uint32", "Session"), Field(2, "uint32", "Actor"),
    Field(3, "string", "Name"), Flagged(4, "include", "UserID", "IncludeUserID"),
    Flagged(5, "opt", "ChannelID", "HasChannelID"), Field(6, "bool", "Mute"),
    Field(7, "bool", "Deaf"), Field(8, "bool", "Suppress"),
    Field(9, "bool", "SelfMute"), Field(10, "bool", "SelfDeaf"),
    Field(11, "string", "Texture"), Field(12, "string", "PluginContext"),
    Field(13, "string", "PluginIdentity"), Field(14, "string", "Comment"),
    Field(15, "string", "CertificateHash"), Field(16, "string", "CommentHash"),
    Field(17, "string", "TextureHash"), Field(18, "bool", "PrioritySpeaker"),
    Field(19, "bool", "Recording"), Field(20, "strings", "TemporaryAccessTokens"),
    Field(21, "numbers", "ListeningChannelAdd"),
    Field(22, "numbers", "ListeningChannelRemove")>>

PermissionDenied ==
  <<Field(1, "uint32", "Permission"), Field(2, "uint32", "ChannelID"),
    Field(3, "uint32", "Session"), Field(4, "string", "Reason"),
    Field(5, "uint32", "Type"), Field(6, "string", "Name")>>

Reject == <<Field(1, "string", "Reason"), Field(2, "string", "Type")>>

CodecVersion == <<Field(1, "int32", "Alpha"), Field(2, "int32", "Beta"),
                  Field(3, "bool", "Opus"), Field(4, "bool", "OpusSupport"),
                  Field(5, "bool", "OpusMessages")>>

Ping == <<Field(1, "uint64", "Timestamp"), Field(2, "uint32", "NumPackets"),
          Field(3, "uint64", "NumBytes"), Field(4, "float64", "UdpPing"),
          Field(5, "float64", "TcpPing")>>

UserRemove == <<Field(1, "uint32", "Session"), Field(2, "uint32", "Actor"),
                Field(3, "string", "Reason")>>

ServerConfig ==
  <<Field(1, "uint32", "MaxBandwidth"), Field(2, "string", "WelcomeText"),
    Field(3, "string", "WelcomeText2"), Field(4, "bool", "AllowHTML"),
    Field(5, "uint32", "MessageLength"), Field(6, "uint32", "ImageMessageLength")>>

\* "delimited": repeated numbers under the tags 0x1a and 0x22, whose wire type
\* announces a length.
TextMessage ==
  <<Field(1, "uint32", "Actor"), Field(2, "numbers", "Session"),
    Field(3, "delimited", "ChannelID"), Field(4, "delimited", "TreeID"),
    Field(5, "string", "Message")>>

ChannelRemove == <<Field(1, "uint32", "ChannelID")>>

CryptSetup == <<Field(1, "string", "Key"), Field(2, "string", "ClientNonce"),
                Field(3, "string", "ServerNonce")>>

Fields ==
  [Version |-> Version, Authenticate |-> Authenticate, ServerSync |-> ServerSync,
   ChannelState |-> ChannelState, UserState |-> UserState, Reject |-> Reject,
   PermissionDenied |-> PermissionDenied, CodecVersion |-> CodecVersion,
   Ping |-> Ping, UserRemove |-> UserRemove, ServerConfig |-> ServerConfig,
   TextMessage |-> TextMessage, ChannelRemove |-> ChannelRemove,
   CryptSetup |-> CryptSetup]

Types == DOMAIN Fields
FieldsOf(t) == {Fields[t][k] : k \in 1..Len(Fields[t])}
NamesOf(t) == {f.name : f \in FieldsOf(t)} \union ({f.flag : f \in FieldsOf(t)} \ {"none"})

Float0 == [k \in 1..8 |-> 0]
ZeroOf(kind) ==
  CASE kind \in {"uint32", "uint64", "int32", "opt", "include"} -> 0
    [] kind = "bool" -> FALSE
    [] kind = "float64" -> Float0
    [] OTHER -> <<>>

\* The message of type t with every field at its zero value, which a new
\* message is and Unmarshal begins with.
Zero(t) ==
  [x \in NamesOf(t) |->
     IF \E f \in FieldsOf(t) : f.name = x
     THEN ZeroOf((CHOOSE f \in FieldsOf(t) : f.name = x).kind) ELSE FALSE]

-----------------------------------------------------------------------------
(* Marshal.                                                                 *)

\* appendVarint.
Varint[v \in Nat] ==
  IF v < 128 THEN <<v>> ELSE <<128 + (v % 128)>> \o Varint[v \div 128]

\* A bug: hashes, strings and all are announced as varints.
WireTypeFlat(f) == IF f.kind = "float64" THEN 1 ELSE 0

WireType(f) ==
  CASE f.kind \in {"string", "strings", "delimited"} -> 2
    [] f.kind = "float64" -> 1
    [] OTHER -> 0

Tag(f) == Varint[8 * f.num + WireType(f)]

\* The bytes of one value of field f; a negative number is widened to 64 bits.
Payload(f, v) ==
  CASE f.kind \in {"string", "strings"} -> Varint[Len(v)] \o v
    [] f.kind = "float64" -> v
    [] f.kind = "bool" -> <<IF v THEN 1 ELSE 0>>
    [] OTHER -> Varint[v % U64]

\* The values of field f that Marshal writes: none when there is nothing to
\* tell.
Written(f, m) ==
  CASE f.kind \in {"strings", "numbers", "delimited"} -> m[f.name]
    [] f.kind = "include" -> IF m[f.flag] THEN <<m[f.name]>> ELSE <<>>
    [] f.kind = "opt" -> IF m[f.flag] \/ m[f.name] # 0 THEN <<m[f.name]>> ELSE <<>>
    [] OTHER -> IF m[f.name] = ZeroOf(f.kind) THEN <<>> ELSE <<m[f.name]>>

Encode(f, values) ==
  FlattenSeq([k \in 1..Len(values) |-> Tag(f) \o Payload(f, values[k])])

Marshal(t, m) ==
  FlattenSeq([k \in 1..Len(Fields[t]) |-> Encode(Fields[t][k], Written(Fields[t][k], m))])

-----------------------------------------------------------------------------
(* Unmarshal.                                                               *)

VarintValue[s \in Seq(0..255)] ==
  IF s = <<>> THEN 0 ELSE ((s[1] % 128) + 128 * VarintValue[Tail(s)]) % U64

\* readVarintSafe: the value, and where to go on; (0, the end) if the bytes end
\* before the number does.
ReadVarint(b, i) ==
  LET ends == {j \in i..Len(b) : b[j] < 128}
      last == CHOOSE j \in ends : \A k \in ends : j <= k
  IN IF ends = {} THEN [val |-> 0, next |-> Len(b) + 1]
     ELSE [val |-> VarintValue[SubSeq(b, i, last)], next |-> last + 1]

\* A bug: a fixed64 is skipped as a fixed32.
SkipEndShort(b, i, wire) ==
  LET j == CASE wire \in {0, 2} -> ReadVarint(b, i).next
             [] wire \in {1, 5} -> i + 4
             [] OTHER -> i
  IN IF j > Len(b) THEN Len(b) + 1 ELSE j

\* A bug: the end of the bytes is not looked at.
SkipEndFar(b, i, wire) ==
  CASE wire \in {0, 2} -> ReadVarint(b, i).next
    [] wire = 1 -> i + 8
    [] wire = 5 -> i + 4
    [] OTHER -> i

\* skipEnd: of a field with a length it skips the length.
SkipEnd(b, i, wire) ==
  LET j == CASE wire \in {0, 2} -> ReadVarint(b, i).next
             [] wire = 1 -> i + 8
             [] wire = 5 -> i + 4
             [] OTHER -> i
  IN IF j > Len(b) THEN Len(b) + 1 ELSE j

\* The values of an int32.
Int32 == (-(U32 \div 2))..((U32 \div 2) - 1)

Signed(v) == IF v % U32 < U32 \div 2 THEN v % U32 ELSE (v % U32) - U32

\* A bug: a position below zero is read as a number without a sign.
NumberUnsigned(f, val) ==
  CASE f.kind = "bool" -> val # 0
    [] f.kind = "uint64" -> val
    [] OTHER -> val % U32

\* uint32(val), int32(val), val != 0, or val itself.
Number(f, val) ==
  CASE f.kind = "bool" -> val # 0
    [] f.kind = "int32" -> Signed(val)
    [] f.kind = "uint64" -> val
    [] OTHER -> val % U32

\* m with value v for field f.
Stored(f, v, m) ==
  CASE f.kind \in {"strings", "numbers", "delimited"} -> [m EXCEPT ![f.name] = Append(@, v)]
    [] f.kind = "opt" -> [m EXCEPT ![f.name] = v, ![f.flag] = TRUE]
    [] OTHER -> [m EXCEPT ![f.name] = v]

\* An int counted up to v: from half of U64 on it is negative.
SignedInt(v) == IF v % U64 < U64 \div 2 THEN v % U64 ELSE (v % U64) - U64

\* In place of an index: Go panicked over a slice that ends before it begins.
Panic == 0

\* A case of the switch: b from i on holds a value of field f.  The length n of
\* a string is compared as i+int(n) > len(b), in ints; counted from 0 the string
\* begins at r.next - 1.
ReadValue(f, b, i, m) ==
  LET r   == ReadVarint(b, i)
      end == SignedInt(r.next - 1 + r.val)
  IN
  CASE f.kind = "float64" ->
         IF i + 7 > Len(b) THEN [pos |-> i, msg |-> m]
         ELSE [pos |-> i + 8, msg |-> Stored(f, SubSeq(b, i, i + 7), m)]
    [] f.kind \in {"string", "strings"} ->
         IF r.val = 0 \/ end > Len(b) THEN [pos |-> r.next, msg |-> m]
         ELSE IF end < r.next - 1 THEN [pos |-> Panic, msg |-> m]
         ELSE [pos |-> end + 1, msg |-> Stored(f, SubSeq(b, r.next, end), m)]
    [] OTHER -> [pos |-> r.next, msg |-> Stored(f, Number(f, r.val), m)]

\* One turn of Unmarshal's loop.  The tag is one byte: its upper five bits are
\* the field, its lower three the wire type.  The wire type of a known field
\* is not looked at.
ParseField(t, b, i, m) ==
  LET known == {f \in FieldsOf(t) : f.num = b[i] \div 8} IN
  IF i + 1 > Len(b) THEN [pos |-> i + 1, msg |-> m]
  ELSE IF known = {} THEN [pos |-> SkipEnd(b, i + 1, b[i] % 8), msg |-> m]
  ELSE ReadValue(CHOOSE f \in known : TRUE, b, i + 1, m)

-----------------------------------------------------------------------------
(* The machine.                                                             *)

Init ==
  /\ type \in Types /\ by = "client" /\ phase = "idle"
  /\ sent = Zero(type) /\ got = Zero(type) /\ buf = <<>> /\ pos = 1

\* Values to try in a field.
Samples(f) ==
  CASE f.kind = "bool" -> BOOLEAN
    [] f.kind = "string" -> Texts
    [] f.kind = "strings" -> {<<>>} \union {<<s, u>> : s, u \in Texts}
    [] f.kind \in {"numbers", "delimited"} -> {<<>>} \union {<<x, y>> : x, y \in Numbers}
    [] f.kind = "float64" -> {Float0, [k \in 1..8 |-> 8 * k]}
    [] f.kind = "int32" -> (Numbers \union {-x : x \in Numbers}) \intersect Int32
    [] OTHER -> Numbers

\* m with x in field f; flag is told when there is one.
With(m, f, x, flag) ==
  IF f.flag = "none" THEN [m EXCEPT ![f.name] = x]
  ELSE [m EXCEPT ![f.name] = x, ![f.flag] = flag]

\* Unmarshal is called with b, a []byte.
Begin(b) ==
  /\ b \in Seq(0..255) /\ Len(b) < U64 \div 2 /\ buf' = b /\ pos' = 1
  /\ got' = Zero(type) /\ phase' = "parse" /\ UNCHANGED type

\* This library sends a message with up to two fields set.
ClientWrites ==
  /\ phase = "idle" /\ by' = "client"
  /\ \E f, g \in FieldsOf(type), flag \in BOOLEAN :
       \E x \in Samples(f), y \in Samples(g) :
         /\ sent' = With(With(Zero(type), f, x, flag), g, y, TRUE)
         /\ Begin(Marshal(type, sent'))

\* The same, of which the end is missing.
ClientIsCut ==
  /\ phase = "idle" /\ by' = "other"
  /\ \E f \in FieldsOf(type) : \E x \in Samples(f) :
       LET b == Marshal(type, With(Zero(type), f, x, TRUE)) IN
         /\ sent' = With(Zero(type), f, x, TRUE)
         /\ \E n \in 1..Len(b) : Begin(SubSeq(b, 1, n - 1))

\* Fields a later version of the protocol may add: numbers of fixed and of
\* varying size under a field number that this type does not use.
Unknown(t) ==
  LET free == (1..15) \ {f.num : f \in FieldsOf(t)}
      n == CHOOSE n \in free : TRUE
  IN IF free = {} THEN {<<>>}
     ELSE {<<>>, <<8 * n, 200, 1>>, <<8 * n + 1, 8, 9, 10, 11, 12, 13, 14, 15>>,
           <<8 * n + 5, 8, 9, 10, 11>>}

\* A server's protobuf writes fields that are set even when they are zero, and
\* in any order.  Of a tag of two bytes nothing is expected.
ServerWrites ==
  /\ phase = "idle"
  /\ \E f, g \in FieldsOf(type), unknown \in Unknown(type) :
       \E x \in Samples(f), y \in Samples(g) :
         /\ f # g
         /\ by' = IF f.num < 16 /\ g.num < 16 THEN "server" ELSE "other"
         /\ sent' = With(With(Zero(type), f, x, TRUE), g, y, TRUE)
         /\ LET Told(h, v) ==
                  Encode(h, IF h.kind \in {"strings", "numbers", "delimited"} THEN v ELSE <<v>>)
            IN Begin(Told(f, x) \o unknown \o Told(g, y))

\* Bytes from anywhere.
AnyBytes ==
  /\ phase = "idle" /\ by' = "other" /\ sent' = Zero(type)
  /\ \E b \in Strays : Begin(b)

\* Unmarshal's loop.  Nobody recovers from a panic.
ReadField ==
  /\ phase = "parse" /\ pos <= Len(buf)
  /\ LET r == ParseField(type, buf, pos, got) IN
       IF r.pos = Panic THEN phase' = "panicked" /\ UNCHANGED <<pos, got>>
       ELSE pos' = r.pos /\ got' = r.msg /\ UNCHANGED phase
  /\ UNCHANGED <<type, by, sent, buf>>

Return ==
  /\ phase = "parse" /\ pos > Len(buf)
  /\ phase' = "done"
  /\ UNCHANGED <<type, by, sent, buf, pos, got>>

Next == ClientWrites \/ ClientIsCut \/ ServerWrites \/ AnyBytes \/ ReadField \/ Return

Spec == Init /\ [][Next]_vars

-----------------------------------------------------------------------------
(* Properties.                                                              *)

\* NonEmpty(ss)[n]: the texts that are not empty among the first n of ss.
NonEmpty(ss) ==
  LET kept[n \in 0..Len(ss)] ==
        IF n = 0 THEN <<>>
        ELSE IF ss[n] = <<>> THEN kept[n - 1] ELSE Append(kept[n - 1], ss[n])
  IN kept

\* What of message m there is to be read again.  Lost by design of the two
\* methods: a user id without its flag, the flag itself, an empty string
\* among repeated ones; a flag may be implied by a number other than 0.
Kept(t, m) ==
  [x \in NamesOf(t) |->
     LET f == CHOOSE f \in FieldsOf(t) : x \in {f.name, f.flag} IN
     CASE x = f.flag -> f.kind = "opt" /\ (m[x] \/ m[f.name] # 0)
       [] x # f.flag /\ f.kind = "include" -> IF m[f.flag] THEN m[x] ELSE 0
       [] f.kind = "strings" -> NonEmpty(m[x])[Len(m[x])]
       [] OTHER -> m[x]]

\* The tag of every field that is written fits into the byte that Unmarshal
\* takes for a tag.
ShortTags(t, m) == \A f \in FieldsOf(t) : f.num < 16 \/ Written(f, m) = <<>>

\* What a standard protobuf reader makes of bytes b: the same fields, tags of
\* any length, a field whose wire type is not the declared one unknown, unknown
\* fields skipped.
StandardWire(f) ==
  CASE f.kind \in {"string", "strings"} -> 2 [] f.kind = "float64" -> 1 [] OTHER -> 0

StandardNumber(f, val) ==
  CASE f.kind = "bool" -> val = 1
    [] f.kind = "int32" -> IF 2 * val < U64 THEN val ELSE val - U64
    [] OTHER -> val

\* One field, at i in b, and where the next one is.
StandardTurn(t, b, i, m) ==
  LET tag == ReadVarint(b, i)
      val == ReadVarint(b, tag.next)
      wire == tag.val % 8
      data == IF wire = 2 THEN val.next ELSE tag.next
      next == CASE wire = 0 -> val.next
                [] wire = 1 -> tag.next + 8
                [] wire = 2 -> val.next + val.val
                [] OTHER -> tag.next + 4
      known == {f \in FieldsOf(t) : f.num = tag.val \div 8 /\ StandardWire(f) = wire}
      f == CHOOSE f \in known : TRUE
      value == IF wire = 0 THEN StandardNumber(f, val.val) ELSE SubSeq(b, data, next - 1)
  IN IF next > Len(b) + 1 THEN [pos |-> Len(b) + 1, msg |-> m]
     ELSE [pos |-> next, msg |-> IF known = {} THEN m ELSE Stored(f, value, m)]

StandardRead(t, b) ==
  LET read[n \in 0..Len(b)] ==
        IF n = 0 THEN [pos |-> 1, msg |-> Zero(t)]
        ELSE LET r == read[n - 1]
             IN IF r.pos > Len(b) THEN r ELSE StandardTurn(t, b, r.pos, r.msg)
  IN read[Len(b)].msg

\* What the server reads of a message this library wrote is what was meant:
\* "Binary encoding follows standard protobuf rules" (protocol/messages.go:11).
\* The channel and tree ids of TextMessage are the exception.
WrittenIsStandard ==
  phase = "parse" /\ by = "client" /\ pos = 1
    /\ (\A f \in FieldsOf(type) : f.kind = "delimited" => sent[f.name] = <<>>)
  => LET m == StandardRead(type, buf) IN
     \A f \in FieldsOf(type) :
       m[f.name] = (IF f.kind = "strings" THEN sent ELSE Kept(type, sent))[f.name]

\* A message that Marshal wrote comes out of Unmarshal as it went in, provided
\* its tags are of one byte; Unmarshal does not panic over it.
RoundTrip ==
  phase \in {"done", "panicked"} /\ by = "client" /\ ShortTags(type, sent)
  => phase = "done" /\ got = Kept(type, sent)

\* Unmarshal reads what a server wrote, in whatever order and with numbers of
\* later versions in between, provided the tags are of one byte; it does not
\* panic over it.
ServerIsRead ==
  phase \in {"done", "panicked"} /\ by = "server"
  => phase = "done" /\ got = Kept(type, sent)

\* The same of every field there is: "Binary encoding follows standard
\* protobuf rules" (protocol/messages.go:11).
EveryFieldReturns == phase = "done" /\ by = "client" => got = Kept(type, sent)

\* Whatever the bytes, each turn of Unmarshal's loop comes nearer their end and
\* never goes past it, it returns at the end, and it panics over nothing but
\* the length of a string which, added to the index, no int holds.
ParseAdvances ==
  [][phase = "parse" =>
       \/ phase' = "parse" /\ pos' > pos /\ pos' <= Len(buf) + 1
       \/ phase' = "done" /\ pos = Len(buf) + 1
       \/ phase' = "panicked" /\ ReadVarint(buf, pos + 1).val + Len(buf) >= U64 \div 2]_vars
=============================================================================
