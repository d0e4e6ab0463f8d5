------------------------------ MODULE SuiteRouters ------------------------------
(* Scripts of the tests of the read/write split and read connection routers. *)
EXTENDS Harness

-----------------------------------------------------------------------------
bug664 ==
    SetTimeout \o connect_maxscale(Ignored)
    \o try_query("master") \o try_query("slave") \o close_maxscale_connections
    \o Times(2, check_log_err) \o Delete

(* The password of root@localhost is taken back only if root could connect. *)
bug620 ==
    SetTimeout \o connect_maxscale(Ignored)
    \o Tries("rwsplit", 2) \o Change("users")
    \o Open("conn") \o IfFails(Add, Tries("conn", 2) \o Undo("users")) \o Close("conn")
    \o try_query("rwsplit") \o close_maxscale_connections
    \o Times(3, check_log_err) \o check_maxscale_alive \o Delete

bug670 ==
    SetTimeout \o connect_maxscale(Add)
    \o Loop(SetTimeout \o Query("slave")) \o Loop(SetTimeout \o Query("master"))
    \o Loop(SetTimeout \o Query("rwsplit"))
    \o SetTimeout \o close_maxscale_connections \o check_maxscale_alive \o Delete

bug705 ==
    SetTimeout \o Open("nodes") \o Query("nodes") \o Change("globals") \o Close("nodes")
    \o SetTimeout \o restart_maxscale(Ignored) \o stop_maxscale(Ignored) \o StopTimeout
    \o SetTimeout \o Times(2, check_log_err) \o Delete

(* A failed find_field ends the process after the destructor has run. *)
bug699 ==
    LET compared == Asks("rwsplit", 1) \o IfFails(Add \o Exit, Query("rwsplit")
                    \o IfFails(Add \o Exit, Expect \o Add))
    IN  SetTimeout \o connect_maxscale(Ignored) \o compared \o compared
        \o close_maxscale_connections \o check_maxscale_alive \o Delete

-----------------------------------------------------------------------------
(* rwsplit_readonly.cpp *)
test_all_ok ==
    Times(2, SetTimeout \o try_query("rwsplit") \o SetTimeout \o try_query("master")
             \o SetTimeout \o try_query("slave"))

Works(h) == SetTimeout \o try_query(h)
Fails(h) == SetTimeout \o Query(h) \o Refused \o Add

test_basic ==
    connect_maxscale(Ignored) \o test_all_ok
    \o StopTimeout \o block_node("blocked0")
    \o Fails("rwsplit") \o Works("master") \o Works("slave")
    \o Times(2, Fails("master")) \o Fails("slave") \o try_query("slave")
    \o SetTimeout \o close_maxscale_connections
    \o Open("rwsplit") \o Refused \o Add \o Open("master") \o Add \o Open("slave") \o Add
    \o Works("master") \o Works("slave")
    \o close_maxscale_connections \o StopTimeout \o unblock_node("blocked0")
    \o connect_maxscale(Ignored) \o test_all_ok \o close_maxscale_connections

SlavesBlocked   == ForAll(<<"blocked1", "blocked2", "blocked3">>, block_node)
SlavesUnblocked == ForAll(<<"blocked1", "blocked2", "blocked3">>, unblock_node)

test_complex ==
    connect_maxscale(Ignored) \o test_all_ok
    \o StopTimeout \o block_node("blocked0")
    \o Fails("rwsplit") \o Works("master") \o Works("slave")
    \o StopTimeout \o unblock_node("blocked0") \o Works("master") \o Works("slave")
    \o StopTimeout \o close_maxscale_connections \o SlavesBlocked
    \o SetTimeout \o connect_maxscale(Ignored) \o Works("master") \o Works("slave")
    \o StopTimeout \o SlavesUnblocked \o Works("master") \o Works("slave")
    \o StopTimeout \o block_all_nodes \o Fails("master") \o Fails("slave")
    \o StopTimeout \o unblock_all_nodes
    \o close_maxscale_connections \o connect_maxscale(Ignored) \o test_all_ok
    \o close_maxscale_connections

rwsplit_readonly ==
    StopTimeout \o connect_maxscale(Ignored) \o Asks("rwsplit", 2) \o close_maxscale_connections
    \o test_basic \o test_complex \o flush_hosts("nodes") \o Delete

-----------------------------------------------------------------------------
bug657 ==
    SetTimeout \o Open("master") \o block_node("blocked0")
    \o close_readconn_master \o Open("master") \o unblock_node("blocked0")
    \o close_readconn_master \o check_maxscale_alive \o Delete

bug658 ==
    LET listed == Query("rwsplit") \o Query("master") \o Query("slave")
    IN  SetTimeout \o connect_maxscale(Ignored) \o block_node("blocked0") \o listed
        \o unblock_node("blocked0") \o close_maxscale_connections \o check_maxscale_alive
        \o SetTimeout \o connect_maxscale(Ignored)
        \o Maybe(block_all_nodes \o listed \o unblock_all_nodes)
        \o StopTimeout \o SetTimeout \o close_maxscale_connections
        \o check_maxscale_alive \o Delete

(* stale_slaves.cpp: conn_slave is opened six times and never closed.  The   *)
(* slave that is blocked is the one found, node 1 say; if none has the id    *)
(* that was read, the test reports it and goes on with node -1, for which it *)
(* blocks nothing and takes the pointer before the array nodes.              *)
stale_slaves ==
    LET compared == Open("slave") \o Query("slave") \o Expect \o Add
        rest(block, unblock, h) ==
            block \o compared \o unblock \o compared \o unblock_all_nodes \o compared
            \o Query(h) \o Change("topology") \o compared
            \o Query(h) \o Undo("topology") \o compared
    IN  Open("nodes") \o Loop(Query("nodes")) \o block_node("blocked0") \o Open("slave")
        \o Query("slave") \o Expect \o Add
        \o IfFails(rest(Times(2, Ssh), Times(2, Ssh), "nodes[-1]"),
                   rest(block_node("blocked1"), unblock_node("blocked1"), "nodes"))
        \o Delete

-----------------------------------------------------------------------------
(* Hints. *)
bug587 ==
    SetTimeout \o Open("nodes") \o connect_maxscale(Ignored)
    \o Loop(Loop(SetTimeout \o Query("rwsplit") \o Judged("nodes")))
    \o close_maxscale_connections \o Close("nodes") \o check_maxscale_alive \o Delete

test_hints ==
    Open("nodes") \o connect_maxscale(Ignored) \o Loop(Query("nodes"))
    \o Loop(Judged("rwsplit")) \o Delete

bug473 ==
    SetTimeout \o connect_maxscale(Add) \o Tries("rwsplit", 12)
    \o close_maxscale_connections \o check_maxscale_alive \o Delete

-----------------------------------------------------------------------------
(* rwsplit_conn_num.cpp: max_connections stays at 200. *)
rwsplit_conn_num ==
    SetTimeout \o Open("nodes") \o Loop(Open("conn") \o Query("conn") \o Close("conn"))
    \o Change("globals") \o Open("c1") \o Open("c2")
    \o Loop(get_conn_num("nodes") \o Expect \o Add) \o Expect \o Add
    \o Close("c1") \o Close("c2") \o Delete

(* readconnrouter_master.cpp *)
check_connnections_only_to_master == Loop(get_conn_num("nodes") \o Expect \o Note)

readconnrouter_master ==
    LET counted == Open("master") \o StopTimeout \o SetTimeout
                   \o check_connnections_only_to_master \o AddLocal \o close_readconn_master
    IN  SetTimeout \o Open("nodes") \o counted \o SetTimeout \o change_master
        \o StopTimeout \o SetTimeout \o counted \o SetTimeout \o change_master
        \o check_log_err \o Delete

(* mxs874_slave_recovery.cpp *)
mxs874_slave_recovery ==
    SetTimeout \o connect_maxscale(Ignored) \o SetTimeout \o try_query("rwsplit") \o StopTimeout
    \o SetTimeout \o block_node("blocked1") \o StopTimeout
    \o SetTimeout \o unblock_node("blocked1") \o StopTimeout
    \o block_node("blocked2") \o StopTimeout
    \o SetTimeout \o Loop(Maxadmin) \o Expect \o Add \o Open("nodes") \o Query("nodes")
    \o Times(2, Judged("rwsplit")) \o unblock_node("blocked2")
    \o check_maxscale_alive \o Delete

(* slave_failover.cpp: what the second search for the slave answers is not looked at. *)
slave_failover ==
    SetTimeout \o Open("rwsplit") \o IfFails(Add,
        find_connected_slave(Note) \o AddLocal \o Expect \o IfFails(Add,
            block_node("blocked1") \o StopTimeout \o SetTimeout
            \o find_connected_slave(Ignored) \o Expect \o Add \o unblock_node("blocked1")
            \o close_rwsplit \o check_maxscale_alive \o SetTimeout)
        \o SetTimeout \o start_replication(Ignored))
    \o Delete

RouterScripts == [
    bug664 |-> Alone(bug664), bug620 |-> Alone(bug620), bug670 |-> Alone(bug670),
    bug705 |-> Alone(bug705), bug699 |-> Alone(bug699),
    rwsplit_readonly |-> Alone(rwsplit_readonly),
    bug657 |-> Alone(bug657), bug658 |-> Alone(bug658), stale_slaves |-> Alone(stale_slaves),
    bug587 |-> Alone(bug587), test_hints |-> Alone(test_hints), bug473 |-> Alone(bug473),
    rwsplit_conn_num |-> Alone(rwsplit_conn_num),
    readconnrouter_master |-> Alone(readconnrouter_master),
    mxs874_slave_recovery |-> Alone(mxs874_slave_recovery),
    slave_failover |-> Alone(slave_failover)]
=============================================================================
