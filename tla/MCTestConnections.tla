-------------------------- MODULE MCTestConnections --------------------------
(* Small instances of TestConnections for TLC.                              *)
EXTENDS TestConnections

MCTimeouts == {1, 2}

\* A failed check: add_result(1, ...).
MCResults == {1}
=============================================================================
