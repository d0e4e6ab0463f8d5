------------------------------ MODULE SuiteMonitors ------------------------------
(* Scripts of the tests of the monitors and of failover.                     *)
EXTENDS Harness

Status == Maxadmin \o Expect

-----------------------------------------------------------------------------
(* mm_mysqlmon.cpp *)
check_status == SetTimeout \o Status \o Add
check_group  == Maxadmin \o IfFails(Add, Expect \o Add)
change_slave == Query("nodes") \o Change("topology")

CheckedTopology == Times(4, check_status) \o Times(4, check_group)

Rearranged(n) ==
    SetTimeout \o execute_query_all_nodes \o Open("nodes") \o Times(n, change_slave)

MadeReadOnly(n) == SetTimeout \o Asks("nodes", n) \o Change("read_only")

fix_replication == Times(4, Ssh) \o Undo("topology") \o Undo("read_only")

mm_mysqlmon ==
    Rearranged(4) \o CheckedTopology \o MadeReadOnly(2) \o CheckedTopology
    \o Rearranged(4) \o CheckedTopology \o MadeReadOnly(1) \o CheckedTopology
    \o Rearranged(4) \o CheckedTopology \o MadeReadOnly(2) \o CheckedTopology
    \o execute_query_all_nodes \o Open("nodes") \o Times(3, change_slave)
    \o fix_replication \o Delete

-----------------------------------------------------------------------------
(* mm.cpp *)
check_conf(nodes) ==
    SetTimeout \o Open("nodes") \o Open("rwsplit") \o create_t1("rwsplit", Ignored)
    \o insert_into_t1("rwsplit", Note) \o StopTimeout
    \o Times(nodes, SetTimeout \o select_from_t1("nodes", Note))
    \o SetTimeout \o select_from_t1("rwsplit", Note) \o Query("rwsplit") \o Note
    \o Close("nodes") \o Close("rwsplit") \o StopTimeout \o AddLocal

(* What start_mm answers is not looked at; node 1 stays read only. *)
mm ==
    LET checked == SetTimeout \o Status \o Add
    IN  SetTimeout \o Open("nodes") \o Query("nodes") \o start_mm(Ignored)
        \o Times(2, checked) \o SetTimeout \o check_conf(2)
        \o SetTimeout \o block_node("blocked0") \o StopTimeout \o checked
        \o SetTimeout \o check_conf(1) \o SetTimeout \o unblock_node("blocked0")
        \o SetTimeout \o block_node("blocked1") \o Status \o Add
        \o SetTimeout \o Open("nodes") \o Query("nodes") \o Undo("read_only") \o Close("nodes")
        \o SetTimeout \o check_conf(1) \o unblock_node("blocked1")
        \o SetTimeout \o Open("nodes") \o Query("nodes") \o Change("read_only") \o Close("nodes")
        \o SetTimeout \o check_conf(2) \o Times(2, checked) \o Delete

-----------------------------------------------------------------------------
failover_mysqlmon ==
    LET inserted == connect_maxscale(Ignored) \o try_query("rwsplit")
    IN  inserted \o try_query("rwsplit") \o close_maxscale_connections
        \o ForAll(<<"blocked0", "blocked1", "blocked2">>, block_node)
        \o Open("nodes") \o Query("nodes") \o Change("topology") \o Maxadmin
        \o inserted \o close_maxscale_connections
        \o ForAll(<<"blocked0", "blocked1", "blocked2">>, unblock_node)
        \o inserted \o Query("rwsplit") \o Open("nodes") \o Judged("nodes")
        \o close_maxscale_connections \o check_maxscale_alive \o Delete

kill_master ==
    SetTimeout \o Open("rwsplit") \o SetTimeout \o block_node("blocked0")
    \o SetTimeout \o Query("rwsplit") \o SetTimeout \o unblock_node("blocked0")
    \o StopTimeout \o SetTimeout \o Open("rwsplit") \o try_query("rwsplit") \o close_rwsplit
    \o check_maxscale_alive \o Delete

-----------------------------------------------------------------------------
(* galera_priority.cpp: the result of the failover never reaches add_result. *)
(* "undo" is what follows a wrong answer, before any node is blocked nothing. *)
check_server_id(undo, rest) ==
    LET wrong == Note \o undo
    IN  Query("rwsplit") \o IfFails(wrong, Query("rwsplit") \o IfFails(wrong, Query("rwsplit")
        \o IfFails(wrong, Expect \o IfFails(wrong, rest))))

Failover(node, undo, rest) ==
    Open("rwsplit") \o IfFails(Note \o undo,
        check_server_id(undo, close_rwsplit \o block_node(node) \o rest))

unblock_all == ForAll(<<"gblocked0", "gblocked1", "gblocked2", "gblocked3">>, unblock_node)

NoneLeft ==
    Open("rwsplit") \o Refused \o OnFail(Note \o Query("rwsplit"))
    \o unblock_all \o Open("rwsplit") \o IfFails(Note, check_server_id(<<>>, close_rwsplit))

simple_failover ==
    Open("galera") \o Loop(Query("galera"))
    \o Failover("gblocked2", <<>>, Failover("gblocked0", unblock_all,
           Failover("gblocked3", unblock_all, Failover("gblocked1", unblock_all, NoneLeft))))

galera_priority == simple_failover \o Delete

-----------------------------------------------------------------------------
(* auroramon.cpp, from the construction of TestConnections on. *)
compare_masters == Ssh \o Loop(Status \o Add)

ShowsWriter ==
    Open("rwsplit") \o try_query("rwsplit") \o Query("rwsplit") \o close_rwsplit

auroramon ==
    SetTimeout \o compare_masters \o SetTimeout \o ShowsWriter \o StopTimeout
    \o Ssh \o Add \o SetTimeout \o ShowsWriter \o compare_masters
    \o StopTimeout \o Times(3, Ssh) \o Delete

-----------------------------------------------------------------------------
(* mysqlmon_backup.cpp *)
OneQuery == connect_maxscale(Ignored) \o try_query("rwsplit") \o close_maxscale_connections
check_master == find_master_maxadmin \o Expect \o Add \o OneQuery
check_slave  == find_slave_maxadmin \o Expect \o Add \o OneQuery
kill_maxscale == Ssh \o Change("maxscale") \o start_maxscale(Ignored)
restart_wait  == restart_maxscale(Ignored)

mysqlmon_backup ==
    OneQuery \o check_master \o check_slave
    \o ForAll(<<"blocked1", "blocked2", "blocked3">>, block_node)
    \o check_master \o kill_maxscale \o check_master \o restart_wait \o check_master
    \o ForAll(<<"blocked1", "blocked2", "blocked3">>, unblock_node) \o check_master \o check_slave
    \o block_node("blocked0") \o check_slave \o kill_maxscale \o check_slave
    \o restart_wait \o check_slave \o unblock_node("blocked0") \o check_master \o check_slave
    \o Delete

-----------------------------------------------------------------------------
(* replication_manager.cpp, replication_manager_2nodes.cpp and _3nodes.cpp *)
prepare == Ssh \o fix_replication \o Times(5, Ssh) \o Change("cnf") \o Ssh

check(rest) ==
    Open("conn") \o Tries("conn", 2) \o Query("conn") \o Expect \o Add
    \o IfFails(<<>>, Expect \o Add) \o rest \o Close("conn")

check_transaction == check(Query("conn") \o try_query("conn") \o Query("conn") \o Maxadmin)

Restarted(m) ==
    stop_node(m, Ignored) \o check_transaction \o start_node(m, Ignored) \o check_transaction

replication_manager_2nodes ==
    prepare \o OneQuery \o check_transaction
    \o Restarted("stopped1") \o Restarted("stopped0") \o Restarted("stopped1")
    \o OneQuery \o Delete

replication_manager_3nodes ==
    prepare \o OneQuery \o check_transaction
    \o stop_node("stopped1", Ignored) \o check_transaction
    \o stop_node("stopped2", Ignored) \o check_transaction
    \o start_node("stopped2", Ignored) \o check_transaction
    \o stop_node("stopped0", Ignored) \o check_transaction
    \o start_node("stopped1", Ignored) \o start_node("stopped0", Ignored)
    \o OneQuery \o Delete

check_simple == check(try_query("conn")) \o Maxadmin \o Ssh

(* A failed installation ends the test at once with -1, the destructor runs: *)
(* a failure, whatever the number that system() gave.                        *)
replication_manager ==
    Ssh \o Refused \o Refused \o Add \o OnFail(Delete)
    \o connect_maxscale(Ignored) \o try_query("rwsplit") \o check_simple
    \o stop_node("stopped0", Ignored) \o check_simple
    \o stop_node("stopped1", Ignored) \o check_simple
    \o stop_node("stopped2", Ignored) \o check_simple
    \o ForAll(<<"stopped0", "stopped1", "stopped2">>, LAMBDA m : start_node(m, Ignored))
    \o check_simple \o close_maxscale_connections
    \o OneQuery \o Ssh \o Ssh \o fix_replication \o Delete

MonitorScripts == [
    mm_mysqlmon |-> Alone(mm_mysqlmon), mm |-> Alone(mm),
    failover_mysqlmon |-> Alone(failover_mysqlmon), kill_master |-> Alone(kill_master),
    galera_priority |-> Alone(galera_priority), auroramon |-> Alone(auroramon),
    mysqlmon_backup |-> Alone(mysqlmon_backup),
    replication_manager |-> Alone(replication_manager),
    replication_manager_2nodes |-> Alone(replication_manager_2nodes),
    replication_manager_3nodes |-> Alone(replication_manager_3nodes)]
=============================================================================
