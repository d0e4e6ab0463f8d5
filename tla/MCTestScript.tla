----------------------------- MODULE MCTestScript -----------------------------
(* The scripts of the suite, run one at a time.                             *)
EXTENDS TestScript, Suites

MCCode  == AllScripts
MCTests == DOMAIN MCCode

MCHandles     == {"rwsplit", "master", "slave", "conn", "c1", "c2", "c3", "c4", "binlog",
                  "nodes", "nodes[-1]", "galera", "w1", "w2", "w3", "w4", "w5", "w6"}
MCNodeArrays  == {"nodes", "galera"}
(* The variables of the threads count as well, also those of the few threads *)
(* that connect to a server directly.                                        *)
MCViaMaxScale == MCHandles \ (MCNodeArrays \cup {"nodes[-1]"})

MCUnblocked == {"blocked0", "blocked1", "blocked2", "blocked3",
                "gblocked0", "gblocked1", "gblocked2", "gblocked3"}
MCMarks == MCUnblocked \cup {"stopped0", "stopped1", "stopped2", "stopped3",
                "topology", "read_only", "maxscale", "cnf", "globals", "users", "databases"}
MCRepaired == MCMarks \ {"globals", "users", "databases"}

(* Tests that set global variables of the servers and do not set them back. *)
LeavesGlobals ==
    {"bug601", "bug705", "kerberos_setup", "load_balancing", "load_balancing_galera", "longblob",
     "mxs1071_maxrows", "mxs1110_16mb", "mxs321", "mxs365", "mxs548", "mxs559_block_master",
     "mxs657_restart", "mxs812_1", "open_close_connections", "rwsplit_conn_num", "slave_lag"}

(* bug620 takes a password back only if it could connect. *)
LeavesUsers     == {"bug620", "kerberos_setup"}
LeavesDatabases == {"bug448", "bug718", "sql_queries"}

MCLeaves == [name \in MCTests |->
    {m \in {"globals", "users", "databases"} :
        \/ m = "globals" /\ name \in LeavesGlobals
        \/ m = "users" /\ name \in LeavesUsers
        \/ m = "databases" /\ name \in LeavesDatabases}]

(* Tests that do not look at the answer of the statement that takes a change *)
(* back; the connections that sharding uses for it are closed.               *)
UncheckedGlobals   == {"binlog_semisync", "mxs564_big_dump"}
UncheckedUsers     == {"bug592", "bug626", "mxs37_table_privilege", "mxs548", "mxs716",
                       "mxs922_monitor", "sharding"}
UncheckedDatabases == {"mxs716", "sharding"}

MCUnchecked == [name \in MCTests |->
    {m \in {"globals", "users", "databases"} :
        \/ m = "globals" /\ name \in UncheckedGlobals
        \/ m = "users" /\ name \in UncheckedUsers
        \/ m = "databases" /\ name \in UncheckedDatabases}]

(* The thread of binlog_change_master closes the connections that main is    *)
(* using; stale_slaves takes the one of node -1 when it has found no slave.  *)
MCMisuses == [name \in MCTests |->
    CASE name = "binlog_change_master" -> {"nodes"}
      [] name = "stale_slaves"         -> {"nodes[-1]"}
      [] OTHER                         -> {}]

(* simple_failover returns its result, main does not look at it. *)
MCForgetful == {"galera_priority"}

(* A thread is not joined, or only one of two is. *)
MCAbandoning == {"binlog_big_transaction", "bug529", "slave_lag", "sysbench_kill_slave"}

(* The exit flag of the first load is not cleared before the second. *)
MCIdle == {"mxs564_big_dump", "mxs657_restart_service"}

(* A call through MaxScale with no timeout set: there is no set_timeout, the *)
(* call follows stop_timeout, or copy_rules, which ends with stop_timeout.   *)
UnguardedMaxScale ==
    {"binlog_change_master", "binlog_semisync", "bug509", "bulk_insert", "ccrfilter",
     "failover_mysqlmon", "fwf", "fwf2", "fwf_reload", "galera_priority", "long_sysbench",
     "mxs1110_16mb", "mxs716", "mxs812_1", "mxs812_2", "mxs922_monitor", "mxs922_scaling",
     "mxs922_server", "mysqlmon_backup", "open_close_connections", "replication_manager",
     "replication_manager_2nodes", "replication_manager_3nodes", "rw_select_insert",
     "rwsplit_readonly", "setup_binlog", "sql_queries", "stale_slaves", "test_hints"}

(* A maxadmin command, or sync_slaves, with no timeout set. *)
UnguardedMaxadmin ==
    {"failover_mysqlmon", "fwf_reload", "mxs657_restart_service", "mxs812_1", "mxs812_2",
     "mxs922_bad_server", "mxs922_monitor", "mxs922_restart", "mxs922_server",
     "mysqlmon_backup", "replication_manager", "replication_manager_2nodes",
     "replication_manager_3nodes"}
UnguardedSync ==
    {"bug507", "bug509", "bug519", "bug626", "mxs37_table_privilege", "open_close_connections",
     "rw_select_insert", "sql_queries"}

MCUnguarded == [name \in MCTests |->
    {w \in Endless :
        \/ w = "maxscale" /\ name \in UnguardedMaxScale
        \/ w = "maxadmin" /\ name \in UnguardedMaxadmin
        \/ w = "sync" /\ name \in UnguardedSync}]
=============================================================================
