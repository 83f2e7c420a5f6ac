--------------------------- MODULE MCThreadHandle ---------------------------
(* ThreadHandle on a small instance; the values are in the .cfg file. *)
EXTENDS ThreadHandleProps
=============================================================================
