----------------------------- MODULE SyncErrors -----------------------------
(***************************************************************************)
(* The error codes of src/src/sync.c.                                      *)
(***************************************************************************)
EXTENDS Integers

SUCCESS == 0
NOMEM   == -1
INVALID == -2
BUSY    == -3
TIMEOUT == -4
SYSTEM  == -7

(* The errno values map_pthread_error tells apart; "OK" is 0. *)
Mapped == [OK |-> SUCCESS, ENOMEM |-> NOMEM, EINVAL |-> INVALID,
           EBUSY |-> BUSY, ETIMEDOUT |-> TIMEOUT]

MapErrorLeavesOthers(err) == IF err \in DOMAIN Mapped THEN Mapped[err] ELSE 11

(* map_pthread_error: EDEADLK, EPERM and the rest become SYSTEM. *)
MapError(err) == IF err \in DOMAIN Mapped THEN Mapped[err] ELSE SYSTEM
=============================================================================
