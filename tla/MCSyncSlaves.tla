---------------------------- MODULE MCSyncSlaves ----------------------------
(* Small instances of SyncSlaves for TLC.                                   *)
EXTENDS SyncSlaves
=============================================================================
