------------------------ MODULE MCEventStoreHandler -------------------------
(* EventStoreHandler on small instances; the .cfg files give the bounds. *)
EXTENDS EventStoreHandler, TLC

ClientSymmetry == Permutations(Projections)
=============================================================================
