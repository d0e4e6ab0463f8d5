---------------------------- MODULE MCCdcConnector ----------------------------
(* Two types of two values each: a row lost, shifted or left over shows in  *)
(* the next value and in the next connection.                               *)
EXTENDS CdcConnector
=============================================================================
