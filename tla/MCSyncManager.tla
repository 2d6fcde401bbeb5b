--------------------------- MODULE MCSyncManager ----------------------------
(* SyncManager on small instances; the .cfg files give the bounds. *)
EXTENDS SyncManager
=============================================================================
