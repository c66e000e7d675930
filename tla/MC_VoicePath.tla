----------------------------- MODULE MC_VoicePath -----------------------------
(* One goroutine with more to say, two with less, keys of every length with *)
(* nobody speaking, and keys that change while datagrams arrive and one     *)
(* speaks: all in one run.                                                  *)
EXTENDS VoicePath

Usual == [key |-> 16, nonce |-> 16]
Lengths == [key : {8, 16, 32}, nonce : {8, 16, 32}]

Solo  == [callers |-> {"a"}, frames |-> 3, setups |-> 1, sizes |-> {Usual}, inbox |-> 0]
Duo   == [callers |-> {"a", "b"}, frames |-> 2, setups |-> 1, sizes |-> {Usual}, inbox |-> 0]
Keys  == [callers |-> {}, frames |-> 0, setups |-> 2, sizes |-> Lengths, inbox |-> 1]
Rekey == [callers |-> {"a"}, frames |-> 1, setups |-> 2, sizes |-> {Usual}, inbox |-> 1]
Scenes == {Solo, Duo, Keys, Rekey}
=============================================================================
