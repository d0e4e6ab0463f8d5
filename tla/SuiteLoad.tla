------------------------------ MODULE SuiteLoad ------------------------------
(* Scripts of the tests whose worker threads load MaxScale.  Threads of one  *)
(* kind do the same: a script stands for one of them.                        *)
EXTENDS Harness

-----------------------------------------------------------------------------
(* big_load.cpp, shared by the tests of load balancing.  The exit for a      *)
(* connection that is NULL is never reached, open_conn gives no NULL.        *)
load(a) ==
    Open(a) \o Open("rwsplit") \o create_t1("rwsplit", Ignored) \o try_query("rwsplit")
    \o close_rwsplit \o sync_slaves \o get_global_status_allnodes(a, Add)
    \o ClearFlag(2) \o ClearFlag(3) \o Start(2) \o Start(3) \o SetFlag(2) \o SetFlag(3)
    \o SetTimeout \o Join(2) \o Join(3)
    \o get_global_status_allnodes(a, Ignored) \o Close(a)

(* Without all its connections the thread ends and closes none of them. *)
query_thread1(more) ==
    LET opened(h)  == Open(h)
        queried(h) == Query(h)
        body == WhileNoFlag(Query("w1") \o ForAll(more, queried)) \o Close("w1") \o ForAll(more, Close)
    IN  Open("w1") \o ForAll(more, opened) \o Expect \o IfFails(<<>>, body)

query_thread2(more) ==
    LET opened(h)  == Open(h)
        queried(h) == Query(h)
    IN  Open("w4") \o ForAll(more, opened)
        \o WhileNoFlag(Query("w4") \o ForAll(more, queried)) \o Close("w4") \o ForAll(more, Close)

-----------------------------------------------------------------------------
(* bug529.cpp: the thread is never joined and outlives the test object. *)
bug529 ==
    LET counted == Loop(SetTimeout \o get_conn_num("nodes") \o Expect \o Add)
    IN  SetTimeout \o Open("nodes")
        \o Open("conn") \o Asks("conn", 3) \o create_t1("conn", Ignored) \o Close("conn")
        \o SetTimeout \o Open("c1") \o Open("c2") \o Open("c3") \o Query("c1") \o Query("c2")
        \o counted \o Close("c1") \o Close("c2") \o counted
        \o Start(2) \o Loop(get_conn_num("nodes") \o Expect \o Add) \o StopTimeout
        \o counted \o Close("c3") \o counted
        \o SetTimeout \o Open("c3") \o Query("c3") \o counted
        \o SetTimeout \o Close("c3") \o SetFlag(2) \o counted \o Delete

parall_traffic ==
    Open("w1") \o Query("w1") \o WhileNoFlag(Query("w1")) \o Close("w1")

-----------------------------------------------------------------------------
(* mxs548_short_session_change_user.cpp *)
mxs548 ==
    Ssh \o SetTimeout \o Open("nodes") \o connect_maxscale(Ignored)
    \o create_t1("rwsplit", Ignored) \o execute_query_all_nodes \o Change("globals") \o sync_slaves
    \o Asks("rwsplit", 3) \o Change("users") \o Asks("rwsplit", 2) \o sync_slaves
    \o Start(3) \o Start(2) \o SetTimeout \o flush_hosts("nodes") \o SetTimeout \o SetTimeout
    \o SetFlag(2) \o Join(2) \o SetFlag(3) \o Join(3)
    \o SetTimeout \o flush_hosts("nodes") \o SetTimeout \o Asks("rwsplit", 2) \o Undo("users")
    \o close_maxscale_connections \o SetTimeout \o connect_maxscale(Ignored)
    \o close_maxscale_connections \o check_maxscale_alive \o Times(3, check_log_err) \o Delete

mxs548_query_thread1 ==
    LET session(h) == Open(h) \o IfFails(<<>>, Asks(h, 2))
        all == session("w2") \o session("w3")
    IN  WhileNoFlag(session("w1") \o Either(all \o Close("w1") \o Close("w2") \o Close("w3"),
                                            Close("w1")))

(* To the master itself; the connection is not closed. *)
query_thread_master == Open("w4") \o WhileNoFlag(Query("w4") \o Add)

-----------------------------------------------------------------------------
(* mxs564_big_dump.cpp: the exit flags are not cleared between the loads.    *)
(* A thread that fails returns without closing its connections.              *)
mxs564_query_thread1 ==
    LET opened(h) == Open(h) \o OnFail(Add \o Return) \o try_query(h)
        sent(h)   == try_query(h) \o OnFail(Add \o Return)
    IN  Either(opened("w1") \o opened("w2") \o WhileNoFlag(sent("w1") \o sent("w2"))
                   \o Close("w1") \o Close("w2"),
               opened("w1") \o WhileNoFlag(sent("w1")) \o Close("w1"))

mxs564_big_dump ==
    LET blocked == SetTimeout \o block_node("gblocked0") \o block_node("gblocked1")
                   \o unblock_node("gblocked0") \o unblock_node("gblocked1")
        joined  == SetTimeout \o SetFlag(2) \o Join(2)
    IN  StopTimeout \o SetTimeout \o find_master_maxadmin \o StopTimeout
        \o SetTimeout \o Open("nodes") \o connect_maxscale(Ignored)
        \o SetTimeout \o create_t1("rwsplit", Ignored) \o execute_query_all_nodes \o Change("globals")
        \o SetTimeout \o Tries("rwsplit", 2)
        \o Start(2) \o blocked \o joined \o Start(2) \o blocked \o joined
        \o SetTimeout \o execute_query_all_nodes \o Undo("globals") \o try_query("rwsplit")
        \o close_maxscale_connections \o check_maxscale_alive \o Delete

-----------------------------------------------------------------------------
(* slave_lag.cpp: main goes on when one of the threads has ended. *)
check_lag ==
    Loop(Maxadmin) \o Open("rwsplit") \o Query("rwsplit") \o close_rwsplit \o Expect \o Add

query_thread(h) == Open(h) \o WhileNoFlag(Query(h))

slave_lag ==
    SetTimeout \o Open("nodes") \o Open("rwsplit") \o Loop(Query("nodes")) \o Change("globals")
    \o create_t1("rwsplit", Ignored) \o create_t1("rwsplit", Ignored)
    \o Start(2) \o Start(3) \o Query("rwsplit") \o Query("nodes") \o close_rwsplit
    \o Loop(check_lag \o Expect \o Add)
    \o SetFlag(2) \o SetFlag(3) \o Join(2)
    \o Close("nodes") \o start_replication(Ignored) \o Delete

-----------------------------------------------------------------------------
bug649_parall_traffic ==
    Open("w1") \o IfFails(<<>>, WhileNoFlag(Query("w1"))) \o Close("w1")

bug649 ==
    SetTimeout \o Open("rwsplit") \o Open("nodes") \o Query("nodes") \o create_t1("nodes", Add)
    \o Close("nodes") \o StopTimeout \o SetTimeout \o Start(2) \o StopTimeout
    \o block_node("blocked0") \o SetTimeout \o Query("rwsplit") \o Refused \o Add
    \o StopTimeout \o unblock_node("blocked0") \o StopTimeout
    \o SetFlag(2) \o SetTimeout \o Join(2) \o StopTimeout
    \o SetTimeout \o check_maxscale_alive
    \o SetTimeout \o Open("rwsplit") \o try_query("rwsplit") \o close_rwsplit \o Delete

-----------------------------------------------------------------------------
bug601_parall_traffic == WhileNoFlag(Open("w1") \o Close("w1"))

bug601 ==
    SetTimeout \o Open("nodes") \o Times(2, execute_query_all_nodes) \o Change("globals")
    \o connect_maxscale(Ignored) \o Query("rwsplit") \o Tries("rwsplit", 3) \o Change("users")
    \o Start(2) \o Loop(SetTimeout \o Tries("rwsplit", 2))
    \o SetFlag(2) \o SetTimeout \o Join(2) \o flush_hosts("nodes")
    \o SetTimeout \o Query("rwsplit") \o try_query("rwsplit") \o Undo("users")
    \o check_maxscale_alive \o Delete

-----------------------------------------------------------------------------
(* mxs657_restart.cpp: one service, or MaxScale, is restarted under load,    *)
(* either by one command, of which the first is one of maxadmin.             *)
restart_thread == WhileNoFlag(Maxadmin)

mxs657_restart ==
    SetTimeout \o Start(4)
    \o Loop(connect_maxscale(Ignored) \o Loop(Query("rwsplit")) \o close_maxscale_connections)
    \o Open("nodes") \o Loop(Asks("nodes", 2)) \o Change("globals") \o Close("nodes")
    \o SetTimeout \o load("nodes") \o SetTimeout \o load("nodes")
    \o SetFlag(4) \o Join(4) \o check_maxscale_alive \o Delete

-----------------------------------------------------------------------------
(* sysbench_kill_slave.cpp: the thread is never joined; a node it blocks     *)
(* late is unblocked by the destructor only.                                 *)
kill_vm_thread == find_connected_slave1 \o block_node("blocked1")

sysbench_kill_slave ==
    SetTimeout \o Sysbench \o Add \o SetTimeout
    \o Loop(Start(2) \o Sysbench \o Maybe(unblock_node("blocked1")) \o start_replication(Ignored))
    \o connect_maxscale(Ignored) \o try_query("rwsplit") \o Maybe(Tries("rwsplit", 3))
    \o close_maxscale_connections \o check_maxscale_alive \o Delete

-----------------------------------------------------------------------------
mxs559_disconnect_thread == WhileNoFlag(Open("w1") \o Query("w1") \o Close("w1"))

(* The connections of a failed attempt are not closed. *)
mxs559_block_master ==
    Ssh \o SetTimeout \o connect_maxscale(Ignored) \o create_t1("rwsplit", Ignored)
    \o Query("rwsplit") \o Change("globals") \o close_maxscale_connections \o Start(2)
    \o Loop(StopTimeout \o SetTimeout \o block_node("blocked0") \o StopTimeout
            \o SetTimeout \o unblock_node("blocked0"))
    \o SetTimeout \o SetFlag(2) \o Join(2) \o StopTimeout
    \o flush_hosts("nodes") \o Times(4, Ssh)
    \o SetTimeout \o connect_maxscale(Ignored) \o Maybe(SetTimeout \o connect_maxscale(Ignored))
    \o try_query("rwsplit") \o close_maxscale_connections
    \o check_maxscale_alive \o Times(4, check_log_err) \o Delete

-----------------------------------------------------------------------------
(* server_weight.cpp *)
check_conn_num == Loop(get_conn_num("galera") \o Expect \o Add)

server_weight ==
    SetTimeout \o Open("galera") \o Open("c1") \o StopTimeout
    \o SetTimeout \o check_conn_num \o Close("c1") \o StopTimeout
    \o SetTimeout \o Open("c2") \o StopTimeout \o SetTimeout \o check_conn_num \o Close("c2")
    \o Close("galera") \o Times(2, check_log_err) \o Delete

-----------------------------------------------------------------------------
(* load_balancing.cpp and load_balancing_galera.cpp: max_connections is set  *)
(* back at the end, max_connect_errors is not.                               *)
Limited(a) == Open(a) \o Loop(Asks(a, 2)) \o Change("globals") \o Close(a)
Balanced   == Loop(Expect \o Add) \o Expect \o Add
Unlimited(a) == Open(a) \o Loop(Asks(a, 2)) \o Close(a)

load_balancing ==
    SetTimeout \o Limited("nodes") \o SetTimeout \o load("nodes") \o Balanced
    \o Unlimited("nodes") \o check_maxscale_alive \o start_replication(Ignored) \o Delete

load_balancing_galera ==
    SetTimeout \o find_master_maxadmin \o Expect \o IfFails(Add,
        SetTimeout \o Limited("galera") \o SetTimeout \o load("galera") \o Balanced
        \o Unlimited("galera") \o check_maxscale_alive)
    \o Delete

-----------------------------------------------------------------------------
(* mxs321.cpp *)
check_connection_count == SetTimeout \o Maxadmin \o Add \o Expect \o Add

create_and_check_connections ==
    SetTimeout \o Open("c1") \o SetTimeout \o Open("c2")
    \o SetTimeout \o Close("c1") \o SetTimeout \o Close("c2") \o StopTimeout
    \o Loop(check_connection_count \o Expect \o OnFail(check_connection_count \o Expect) \o Add)

mxs321 ==
    SetTimeout \o execute_query_all_nodes \o Change("globals") \o connect_maxscale(Ignored)
    \o Query("rwsplit") \o close_maxscale_connections \o StopTimeout
    \o Times(3, create_and_check_connections) \o flush_hosts("nodes") \o Delete

-----------------------------------------------------------------------------
(* open_close_connections.cpp: a failure of any thread ends all of them. *)
openclose_thread ==
    WhileNoFlag(Open("w1") \o Add \o Open("w2") \o Add \o Open("w3") \o Add
                \o ForAll(<<"w1", "w2", "w3">>, LAMBDA h : try_query(h) \o Close(h))
                \o Maybe(Return))

open_close_connections ==
    Ssh \o execute_query_all_nodes \o Change("globals") \o sync_slaves
    \o Start(2) \o SetFlag(2) \o Join(2) \o check_maxscale_alive \o Delete

-----------------------------------------------------------------------------
(* bug718.cpp: the threads close no connection and leave a database. *)
thread1 ==
    Open("w1") \o Open("w2") \o Query("w1") \o Change("databases") \o Query("w1")
    \o create_t1("w1", Ignored) \o create_t1("w2", Ignored)
    \o Loop(insert_into_t1("w1", Ignored) \o insert_into_t1("w2", Ignored))

bug718 ==
    SetTimeout \o Times(8, Maxadmin) \o connect_maxscale(Add) \o Start(2)
    \o create_t1("rwsplit", Ignored) \o Loop(SetTimeout \o insert_into_t1("rwsplit", Ignored))
    \o SetTimeout \o Join(2) \o close_maxscale_connections \o check_maxscale_alive \o Delete

-----------------------------------------------------------------------------
(* mxs812_2.cpp *)
test_ps(h) == Asks(h, 2)
test_thr   == WhileNoFlag(Open("w1") \o Times(3, test_ps("w1")) \o Close("w1"))

mxs812_2 ==
    Start(2) \o Loop(block_node("blocked0") \o unblock_node("blocked0"))
    \o SetFlag(2) \o Join(2) \o StopTimeout
    \o check_maxscale_alive \o check_current_operations \o Delete

-----------------------------------------------------------------------------
long_sysbench ==
    SetTimeout \o Sysbench \o Add \o StopTimeout \o Sysbench \o connect_maxscale(Ignored)
    \o try_query("rwsplit") \o Maybe(Tries("rwsplit", 3)) \o close_maxscale_connections
    \o check_maxscale_alive \o Delete

LoadScripts == [
    bug529 |-> With(bug529, parall_traffic),
    mxs548 |-> WithTwo(mxs548, mxs548_query_thread1, query_thread_master),
    mxs564_big_dump |-> With(mxs564_big_dump, mxs564_query_thread1),
    slave_lag |-> WithTwo(slave_lag, query_thread("w1"), query_thread("w4")),
    bug649 |-> With(bug649, bug649_parall_traffic),
    bug601 |-> With(bug601, bug601_parall_traffic),
    mxs657_restart |-> WithThree(mxs657_restart, query_thread1(<<>>), query_thread2(<<>>),
                                 restart_thread),
    sysbench_kill_slave |-> With(sysbench_kill_slave, kill_vm_thread),
    mxs559_block_master |-> With(mxs559_block_master, mxs559_disconnect_thread),
    server_weight |-> Alone(server_weight),
    load_balancing |-> WithTwo(load_balancing, query_thread1(<<>>), query_thread2(<<>>)),
    load_balancing_galera |->
        WithTwo(load_balancing_galera, query_thread1(<<>>), query_thread2(<<>>)),
    mxs321 |-> Alone(mxs321), bug718 |-> With(bug718, thread1),
    open_close_connections |-> With(open_close_connections, openclose_thread),
    mxs812_2 |-> With(mxs812_2, test_thr), long_sysbench |-> Alone(long_sysbench)]
=============================================================================
