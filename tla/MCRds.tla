-------------------------------- MODULE MCRds --------------------------------
(* Small instances of Rds for TLC.                                          *)
EXTENDS Rds
=============================================================================
