----------------------------- MODULE MCCdcClient -----------------------------
(* Three rows are inserted and read; two messages may come in pieces.       *)
EXTENDS CdcClient
=============================================================================
