------------------------------- MODULE MCSetup -------------------------------
(* Three tests in a row, so that what one leaves meets two others.  The     *)
(* combinations that only repeat a step are left out: Galera is restarted   *)
(* where it is used, and snapshots are tried with the check switched on.    *)
EXTENDS Setup

MCOptions ==
    {o \in [check_nodes : BOOLEAN, maxscale_init : BOOLEAN, start : BOOLEAN, galera : BOOLEAN,
            restart_galera : BOOLEAN, use_snapshots : BOOLEAN, backend_ssl : BOOLEAN,
            required : SUBSET Setups] :
        /\ o.restart_galera => o.galera /\ o.check_nodes
        /\ o.use_snapshots => o.check_nodes /\ ~o.restart_galera
        /\ o.start => o.maxscale_init
        /\ o.required # {} => o.start}
=============================================================================
