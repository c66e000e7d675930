---------------------------- MODULE IdentityStore ----------------------------
(***************************************************************************)
(* identity/local.go: a profile's certificate, private key and metadata,   *)
(* three files, and LoadOrCreate, which an application calls when it       *)
(* starts.  One process uses the profile at a time.  An identity is the    *)
(* number of the Create that made it.                                      *)
(*                                                                         *)
(* What can go wrong is that the process stops in the midst of Create, or  *)
(* that the file system fails it: both leave the files as they are.  That  *)
(* a file loses its contents when the machine goes down is left out.       *)
(***************************************************************************)
EXTENDS Naturals, Sequences

CONSTANT MaxStops    \* bound: how often LoadOrCreate is stopped

ASSUME IdentityConstants == MaxStops \in Nat

Files == {"cert", "key", "meta"}
None == 0               \* no such file
Ids == 1..(MaxStops + 1)
Torn == MaxStops + 2    \* a file that has been begun

VARIABLES
  file,     \* the files client.crt, client.key and meta.json
  tmp,      \* the files of that name and .tmp
  pc,       \* where LoadOrCreate is
  todo,     \* the files that Create has still to write, in order
  id,       \* the identity being written
  made,     \* how many were generated
  stops,    \* how often LoadOrCreate was stopped
  loaded    \* the certificate the last successful LoadOrCreate returned

vars == <<file, tmp, pc, todo, id, made, stops, loaded>>
disk == <<file, tmp>>

Init ==
  /\ file = [f \in Files |-> None] /\ tmp = [f \in Files |-> None]
  /\ pc = "idle" /\ todo = <<>> /\ id = None /\ made = 0 /\ stops = 0
  /\ loaded = None

-----------------------------------------------------------------------------

Call ==
  /\ pc = "idle" /\ pc' = "load"
  /\ UNCHANGED <<disk, todo, id, made, stops, loaded>>

\* A bug: an identity without metadata is taken for one that is not there.
NotExistAny == \E f \in Files : file[f] = None

\* tls.LoadX509KeyPair: os.IsNotExist, another error, or the certificate.
NotExist == file["cert"] = None \/ file["key"] = None
Loads == file["cert"] \in Ids /\ file["key"] = file["cert"]

\* Load, as the first thing LoadOrCreate does.
Load ==
  /\ pc = "load"
  /\ \/ Loads /\ loaded' = file["cert"] /\ pc' = "idle"
     \/ NotExist /\ pc' = "create" /\ UNCHANGED loaded
     \/ ~Loads /\ ~NotExist /\ pc' = "idle" /\ UNCHANGED loaded
  /\ UNCHANGED <<disk, todo, id, made, stops>>

\* A bug: the metadata first.
OrderMetaFirst == <<"meta", "cert", "key">>

\* The order in which Create writes.
Order == <<"cert", "key", "meta">>

\* Create generates key and certificate.
Generate ==
  /\ pc = "create" /\ made <= MaxStops
  /\ made' = made + 1 /\ id' = made + 1
  /\ pc' = "write" /\ todo' = Order
  /\ UNCHANGED <<disk, stops, loaded>>

\* A bug: the file itself is written and no temporary one.
WriteInPlace ==
  /\ pc = "write" /\ pc' = "flush"
  /\ file' = [file EXCEPT ![Head(todo)] = Torn]
  /\ tmp' = [tmp EXCEPT ![Head(todo)] = Torn]
  /\ UNCHANGED <<todo, id, made, stops, loaded>>

\* writeFileAtomic: os.WriteFile creates or empties the temporary file ...
WriteTmp ==
  /\ pc = "write" /\ pc' = "flush"
  /\ tmp' = [tmp EXCEPT ![Head(todo)] = Torn]
  /\ UNCHANGED <<file, todo, id, made, stops, loaded>>

\* ... and fills it ...
FillTmp ==
  /\ pc = "flush" /\ pc' = "rename"
  /\ tmp' = [tmp EXCEPT ![Head(todo)] = id]
  /\ UNCHANGED <<file, todo, id, made, stops, loaded>>

\* ... os.Rename puts it in place, and Create goes on to the next file.
Rename ==
  /\ pc = "rename"
  /\ file' = [file EXCEPT ![Head(todo)] = tmp[Head(todo)]]
  /\ tmp' = [tmp EXCEPT ![Head(todo)] = None]
  /\ todo' = Tail(todo)
  /\ pc' = IF Len(todo) = 1 THEN "reload" ELSE "write"
  /\ UNCHANGED <<id, made, stops, loaded>>

\* Load, as the last thing LoadOrCreate does: what it returns is returned.
Reload ==
  /\ pc = "reload" /\ pc' = "idle"
  /\ loaded' = IF Loads THEN file["cert"] ELSE loaded
  /\ UNCHANGED <<disk, todo, id, made, stops>>

\* The process stops, or an operation fails and LoadOrCreate returns the error.
Stop ==
  /\ pc # "idle" /\ stops < MaxStops
  /\ stops' = stops + 1 /\ pc' = "idle" /\ todo' = <<>>
  /\ UNCHANGED <<disk, id, made, loaded>>

Next == Call \/ Load \/ Generate \/ WriteTmp \/ FillTmp \/ Rename \/ Reload \/ Stop

\* An application that has no certificate tries again; a call that is not
\* stopped goes on.
Spec ==
  /\ Init /\ [][Next]_vars
  /\ WF_vars(Call)
  /\ WF_vars(Load \/ Generate \/ WriteTmp \/ FillTmp \/ Rename \/ Reload)

-----------------------------------------------------------------------------
(* Properties.                                                              *)

\* Whatever Create is stopped at, the certificate on disk never stands beside
\* the key of another, and neither is half written: LoadOrCreate could never
\* get over that, as it creates only what does not exist.
PairMatches ==
  /\ file["cert"] # Torn /\ file["key"] # Torn
  /\ file["cert"] # None /\ file["key"] # None => file["cert"] = file["key"]

\* The fingerprint in the metadata is that of the certificate on disk.
MetaMatches == file["meta"] # None => file["meta"] = file["cert"] /\ Loads

\* Both: the three files, written one after the other, are of one identity as
\* far as they are there.
FilesMatch == PairMatches /\ MetaMatches

\* The identity by which a server knows the user is never replaced: every
\* later LoadOrCreate returns the certificate of the first.
IdentityKept == [][loaded # None => loaded' = loaded]_vars

\* However often it is stopped, LoadOrCreate returns a certificate in the end.
Recovers == <>(loaded # None)
=============================================================================
