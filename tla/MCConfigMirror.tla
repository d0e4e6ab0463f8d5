--------------------------- MODULE MCConfigMirror ---------------------------
(* Two servers and one monitor; two commands are lost, so that the mirror   *)
(* is wrong about a server and about the monitor at the same time.          *)
EXTENDS ConfigMirror
=============================================================================
