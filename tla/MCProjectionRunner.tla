------------------------- MODULE MCProjectionRunner -------------------------
(* EventStoreRunner on small instances; the .cfg files give the bounds. *)
EXTENDS EventStoreRunner
=============================================================================
