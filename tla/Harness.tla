-------------------------------- MODULE Harness --------------------------------
(***************************************************************************)
(* The statements scripts are made of, and the functions of the harness    *)
(* that are themselves scripts over them: every function of                *)
(* testconnections.cpp, mariadb_nodes.cpp and sql_t1.cpp that the tests    *)
(* call between set_timeout and the check of a result.                     *)
(*                                                                         *)
(* "use" says what the caller does with the result of a function: Add      *)
(* (add_result), Note (added to a local variable) or Ignored.              *)
(***************************************************************************)
EXTENDS Integers, Sequences

Do(op)      == <<[op |-> op, on |-> "", n |-> 0]>>
DoOn(op, x) == <<[op |-> op, on |-> x, n |-> 0]>>
DoN(op, k)  == <<[op |-> op, on |-> "", n |-> k]>>

SetTimeout  == Do("set_timeout")
StopTimeout == Do("stop_timeout")
Open(h)     == DoOn("open", h)
Close(h)    == DoOn("close", h)
Query(h)    == DoOn("query", h)
Ssh         == Do("ssh")
Maxadmin    == Do("maxadmin")
Sysbench    == Do("sysbench")
Await       == Do("await")
Expect      == Do("expect")
Refused     == Do("refuse")
Add         == Do("add")
Note        == Do("note")
Ignored     == <<>>
AddLocal    == Do("add_local")
Change(m)   == DoOn("change", m)
Undo(m)     == DoOn("undo", m)
Start(t)     == DoN("start", t)
SetFlag(t)   == DoN("set_flag", t)
ClearFlag(t) == DoN("clear_flag", t)
Join(t)     == DoN("join", t)
Delete      == Do("delete")
Exit        == Do("exit")
Return      == Do("return")

(* A counted loop runs twice: its second round finds what the first left.  *)
Rounds == 2
Times(n, body) == [i \in 1..(n * Len(body)) |-> body[((i - 1) % Len(body)) + 1]]
Loop(body)     == Times(Rounds, body)

(* The statements of Body for each element of seq, one after the other. *)
ForAll(seq, Body(_)) ==
    LET upto[i \in 0..Len(seq)] == IF i = 0 THEN <<>> ELSE upto[i - 1] \o Body(seq[i])
    IN  upto[Len(seq)]

Maybe(body)         == DoN("maybe", Len(body)) \o body
Either(a, b)        == DoN("maybe", Len(a) + 1) \o a \o DoN("skip", Len(b)) \o b
OnFail(body)        == DoN("on_fail", Len(body)) \o body
IfFails(a, b)       == DoN("on_fail", Len(a) + 1) \o a \o DoN("skip", Len(b)) \o b
WhileNoFlag(body)   == DoN("while", Len(body) + 1) \o body \o DoN("back", Len(body) + 1)

(* The scripts of a test without threads, or with one, two or three kinds. *)
Alone(main)              == <<main, <<>>, <<>>, <<>>>>
With(main, a)            == <<main, a, <<>>, <<>>>>
WithTwo(main, a, b)      == <<main, a, b, <<>>>>
WithThree(main, a, b, c) == <<main, a, b, c>>

-----------------------------------------------------------------------------
(* Queries. *)
Asks(h, n)       == Times(n, Query(h))
try_query(h)     == Query(h) \o Add
Tries(h, n)      == Times(n, try_query(h))
(* add_result of the comparison of what a query gives with what the test wants. *)
Judged(h)        == Query(h) \o Expect \o Add
try_query_all    == try_query("rwsplit") \o try_query("master") \o try_query("slave")

-----------------------------------------------------------------------------
(* Connections through MaxScale. *)
connect_maxscale(use) ==
    Open("rwsplit") \o use \o Open("master") \o use \o Open("slave") \o use

close_rwsplit         == DoOn("close_null", "rwsplit")
close_readconn_master == DoOn("close_null", "master")
close_maxscale_connections == Close("master") \o Close("slave") \o Close("rwsplit")

(* hs: local handles, one for each router that the flags ask for.  Of the   *)
(* connection to the first one, the read/write split, only NULL is an error. *)
create_connections(hs, use) ==
    LET opened(h) == Open(h) \o (IF h = hs[1] THEN Ignored ELSE use)
        asked(h)  == Query(h) \o use
    IN  Loop(SetTimeout \o ForAll(hs, opened)) \o Loop(SetTimeout \o ForAll(hs, asked))
        \o SetTimeout \o ForAll(hs, Close) \o StopTimeout

(* The early return leaves the first connection open; the database stays. *)
get_client_ip ==
    Open("rwsplit") \o Query("rwsplit")
    \o IfFails(<<>>, Change("databases") \o close_rwsplit \o Open("conn") \o Query("conn")
                     \o IfFails(<<>>, Expect) \o Close("conn"))

-----------------------------------------------------------------------------
(* The MaxScale process. *)
check_maxscale_processes ==
    Ssh \o IfFails(<<>>, Expect \o OnFail(Ssh \o Expect \o Add))

restart_maxscale(use) == Ssh \o Undo("maxscale") \o use
start_maxscale(use)   == Ssh \o Undo("maxscale") \o use
stop_maxscale(use)    == Ssh \o Change("maxscale") \o use \o check_maxscale_processes

check_maxscale_alive ==
    SetTimeout \o connect_maxscale(Add)
    \o SetTimeout \o try_query("rwsplit")
    \o SetTimeout \o try_query("master")
    \o SetTimeout \o try_query("slave")
    \o SetTimeout \o close_maxscale_connections
    \o StopTimeout \o check_maxscale_processes

(* The second file is read when the first one gives nothing. *)
check_log_err ==
    LET searched == Expect \o Add
    IN  SetTimeout \o Ssh \o SetTimeout
        \o Expect \o IfFails(Expect \o Add \o IfFails(<<>>, searched), searched)

check_maxadmin_param      == Maxadmin \o Expect
check_current_operations  == Loop(check_maxadmin_param \o Add)
find_master_maxadmin      == Loop(Maxadmin)
find_slave_maxadmin       == Loop(Maxadmin)

(* All three queries are expected to succeed. *)
test_maxscale_connections(use) ==
    Query("rwsplit") \o use \o Query("master") \o use \o Query("slave") \o use

(* fw_copy_rules.cpp: the last statement takes away the timeout of the      *)
(* caller.                                                                  *)
copy_rules == Times(3, SetTimeout \o Ssh) \o StopTimeout

-----------------------------------------------------------------------------
(* The servers. *)
(* The position of the master, unless it has none, and the wait for each     *)
(* slave that answers.                                                       *)
sync_slaves ==
    Open("nodes") \o Query("nodes")
    \o IfFails(<<>>, Loop(Query("nodes") \o IfFails(<<>>, Await)))

execute_query_all_nodes     == Open("nodes") \o Loop(Query("nodes")) \o Close("nodes")
flush_hosts(a)              == Open(a) \o IfFails(<<>>, Loop(Query(a)))
get_global_status_allnodes(a, use) == Loop(Query(a) \o use)

block_node(m)               == Times(2, Ssh) \o Change(m)
unblock_node(m)             == Times(2, Ssh) \o Undo(m)
unblock_all_nodes           == ForAll(<<"blocked0", "blocked1", "blocked2", "blocked3">>, unblock_node)
block_all_nodes             == ForAll(<<"blocked0", "blocked1", "blocked2", "blocked3">>, block_node)
stop_node(m, use)           == Ssh \o use \o Change(m)
start_node(m, use)          == Ssh \o use \o Undo(m)

StoppedNodes == <<"stopped0", "stopped1", "stopped2", "stopped3">>

stop_nodes(use) ==
    LET stopped(m) == Query("nodes") \o use \o stop_node(m, use)
    IN  Open("nodes") \o ForAll(StoppedNodes, stopped) \o Change("topology")

stop_slaves == Open("nodes") \o Loop(Query("nodes")) \o Change("topology") \o Close("nodes")

start_replication(use) ==
    LET started(m) == start_node(m, use) \o Ssh
    IN  ForAll(StoppedNodes, started) \o Times(4, Ssh) \o Loop(Times(3, Ssh)) \o Undo("topology")

(* No "start slave" and no check: the statements are sent, that is all. *)
change_master ==
    Loop(Query("nodes")) \o Times(4, Query("nodes")) \o Loop(Query("nodes")) \o Change("topology")

get_conn_num(a)  == Query(a)

find_connected_slave(use) ==
    Open("nodes") \o Loop(get_conn_num("nodes") \o Expect \o use) \o Expect \o use \o Close("nodes")

find_connected_slave1 == Open("nodes") \o Loop(get_conn_num("nodes")) \o Close("nodes")

-----------------------------------------------------------------------------
(* Table t1. *)
create_t1(h, use)         == Times(2, Query(h) \o use)
insert_into_t1(h, use)    == Loop(Query(h) \o use)
select_from_t1(h, use)    == Loop(Loop(Query(h)) \o Expect \o use)
check_if_t1_exists(h)     == Query(h) \o Expect

(* The result is counted by the caller. *)
insert_select(use) ==
    SetTimeout \o create_t1("rwsplit", Ignored)
    \o SetTimeout \o insert_into_t1("rwsplit", Ignored) \o StopTimeout
    \o sync_slaves
    \o SetTimeout \o select_from_t1("rwsplit", use)
    \o SetTimeout \o select_from_t1("master", use)
    \o SetTimeout \o select_from_t1("slave", use)

use_db(use) ==
    SetTimeout \o Query("rwsplit") \o use \o Query("slave") \o use \o Query("master") \o use
    \o Loop(Query("nodes") \o use)

check_t1_table ==
    use_db(Add) \o StopTimeout \o sync_slaves
    \o SetTimeout \o check_if_t1_exists("rwsplit") \o Add
    \o SetTimeout \o check_if_t1_exists("master") \o Add
    \o SetTimeout \o check_if_t1_exists("slave") \o Add
    \o Loop(SetTimeout \o check_if_t1_exists("nodes") \o Add)
    \o StopTimeout

-----------------------------------------------------------------------------
(* The binlog router between the master and the slaves, and two masters. *)
prepare_binlog ==
    Query("nodes") \o Maybe(Ssh \o Add \o Change("cnf")) \o Times(3, Ssh \o Add)

start_binlog ==
    stop_nodes(Ignored)
    \o Open("binlog") \o Asks("binlog", 3) \o Close("binlog")
    \o stop_maxscale(Add)
    \o LET started(m) == start_node(m, Ignored) IN ForAll(StoppedNodes, started)
    \o Open("nodes") \o Loop(Asks("nodes", 3))
    \o prepare_binlog \o Ssh \o Add
    \o Asks("nodes", 2) \o try_query("nodes") \o Query("nodes")
    \o start_maxscale(Add)
    \o Open("binlog") \o Add \o Query("binlog")
    \o Maybe(try_query("binlog")) \o Tries("binlog", 2) \o Asks("binlog", 2)
    \o Loop(try_query("nodes") \o Query("nodes"))
    \o Close("nodes") \o try_query("binlog") \o Close("binlog")

start_mm(use) ==
    stop_maxscale(use) \o stop_nodes(use)
    \o start_node("stopped0", use) \o start_node("stopped1", use)
    \o Open("nodes") \o Loop(Asks("nodes", 2))
    \o Query("nodes") \o Change("read_only")
    \o Asks("nodes", 4) \o Asks("nodes", 2) \o Close("nodes")
    \o start_maxscale(use)
=============================================================================
