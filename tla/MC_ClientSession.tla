--------------------------- MODULE MC_ClientSession ---------------------------
(* Names are interchangeable: nothing compares them but for equality.  The  *)
(* symmetry is used by the runs without a liveness property only.           *)
EXTENDS ClientSession, TLC

NameSymmetry == Permutations(Names)
=============================================================================
