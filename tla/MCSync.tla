------------------------------- MODULE MCSync -------------------------------
(* SyncProps checked with TLC. *)
EXTENDS SyncProps
=============================================================================
