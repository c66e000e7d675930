-------------------------- MODULE MC_ClientLifecycle --------------------------
(* Two callers of Close, so that one can find the other's work done, and    *)
(* room for one or two frames, so that a read can find some or none.        *)
EXTENDS ClientLifecycle
=============================================================================
