------------------------------ MODULE SuiteBinlog ------------------------------
(* Scripts of the tests of the binlog router and of failover.               *)
EXTENDS Harness

-----------------------------------------------------------------------------
(* test_binlog_fnc.cpp: what the tests of the binlog router have in common. *)
check_sha1(use) ==
    Times(2, SetTimeout \o Ssh) \o SetTimeout \o Query("nodes") \o use \o SetTimeout
    \o Times(2, SetTimeout \o Ssh) \o SetTimeout \o Query("nodes") \o use
    \o Times(2, SetTimeout) \o Ssh \o SetTimeout \o Ssh
    \o Loop(Times(2, SetTimeout \o Ssh) \o Expect \o use)

start_transaction == Asks("nodes", 4) \o StopTimeout

execute_query_check_one(h) == Loop(Query(h)) \o Expect

test_binlog ==
    LET checked == execute_query_check_one("nodes") \o Add
        selected == SetTimeout \o select_from_t1("nodes", Add)
        round(j) ==
            SetTimeout \o Open("nodes") \o try_query("nodes") \o create_t1("nodes", Ignored)
            \o Open("binlog") \o Query("binlog")
            \o (IF j = 2 THEN Query("nodes") ELSE <<>>)
            \o insert_into_t1("nodes", Add) \o try_query("binlog") \o StopTimeout
            \o Loop(selected) \o SetTimeout \o check_sha1(Add)
            \o Close("nodes") \o StopTimeout
    IN  Open("nodes") \o SetTimeout \o Tries("nodes", 3)
        \o SetTimeout \o create_t1("nodes", Ignored) \o insert_into_t1("nodes", Add) \o StopTimeout
        \o Loop(selected \o StopTimeout)
        \o SetTimeout \o start_transaction \o SetTimeout \o checked
        \o Tries("nodes", 3) \o StopTimeout
        \o SetTimeout \o checked \o checked \o try_query("nodes")
        \o select_from_t1("nodes", Add) \o start_transaction \o try_query("nodes")
        \o checked \o checked \o try_query("nodes") \o StopTimeout
        \o SetTimeout \o check_sha1(Add) \o Close("nodes") \o StopTimeout
        \o round(1) \o round(2) \o round(3)

-----------------------------------------------------------------------------
(* binlog_change_master.cpp *)
transaction(h) ==
    Query(h) \o IfFails(<<>>, Query(h) \o IfFails(<<>>, Query(h) \o IfFails(<<>>, Query(h))))

(* The last connection to the router stays open. *)
select_new_master ==
    Open("nodes") \o Tries("nodes", 2) \o Change("topology") \o Asks("nodes", 2)
    \o Open("binlog") \o Add \o Asks("binlog", 2)
    \o Expect \o IfFails(Add,
           try_query("nodes") \o Loop(try_query("nodes"))
           \o try_query("binlog") \o Close("binlog")
           \o Open("binlog") \o Add \o Tries("binlog", 2) \o Close("nodes"))

transaction_thread ==
    Open("w1") \o Add \o create_t1("w1", Ignored)
    \o WhileNoFlag(transaction("w1")
                   \o OnFail(Close("w1") \o select_new_master \o Open("w1") \o Add))

binlog_change_master ==
    SetTimeout \o Open("nodes") \o Query("nodes") \o Close("nodes")
    \o Open("nodes") \o Times(3, execute_query_all_nodes) \o Change("topology")
    \o start_binlog \o Start(2) \o StopTimeout
    \o Open("nodes") \o Loop(Query("nodes"))
    \o block_node("blocked0") \o StopTimeout
    \o SetFlag(2) \o Join(2)
    \o Open("nodes") \o Loop(Query("nodes") \o Expect \o Add) \o Close("nodes")
    \o Delete

-----------------------------------------------------------------------------
setup_binlog ==
    SetTimeout \o Open("nodes") \o Query("nodes") \o Close("nodes")
    \o Loop(start_binlog \o test_binlog) \o Times(3, check_log_err) \o Delete

(* The answer of every SET GLOBAL and INSTALL is ignored. *)
binlog_semisync ==
    LET alone == Open("nodes") \o Query("nodes") \o Close("nodes")
    IN  SetTimeout \o Open("nodes") \o IfFails(Add,
            Query("nodes") \o Close("nodes") \o Loop(start_binlog
            \o alone \o Change("globals") \o alone \o test_binlog \o alone \o test_binlog
            \o alone \o alone \o test_binlog \o Open("nodes") \o Query("nodes") \o Undo("globals") \o Close("nodes") \o test_binlog))
        \o Delete

(* The thread is never told to stop, and never joined. *)
binlog_big_transaction ==
    SetTimeout \o Open("nodes") \o Query("nodes") \o Close("nodes") \o start_binlog
    \o Start(2) \o Open("nodes") \o Loop(SetTimeout \o Query("nodes") \o Add)
    \o Close("nodes") \o Delete

disconnect_thread == Open("w1") \o Add \o WhileNoFlag(Asks("w1", 2))

(* The connection to the router is not closed. *)
mxs781_binlog_wrong_passwrd ==
    SetTimeout \o Open("nodes") \o Add \o prepare_binlog
    \o SetTimeout \o Open("binlog") \o Add \o Times(3, SetTimeout \o Query("binlog"))
    \o StopTimeout \o Times(2, SetTimeout \o Judged("binlog")) \o Delete

-----------------------------------------------------------------------------
(* transaction_test_wo_maxscale.cpp: the same transactions without MaxScale. *)
flush_logs        == Ssh \o Times(2, try_query("nodes") \o Ssh)
begin_transaction == Asks("nodes", 2)

transaction_test_wo_maxscale ==
    LET one == execute_query_check_one("nodes") \o Add
    IN  Loop(Open("nodes") \o create_t1("nodes", Ignored) \o insert_into_t1("nodes", Add)
             \o Loop(select_from_t1("nodes", Add)) \o begin_transaction \o one \o flush_logs
             \o Tries("nodes", 2) \o one \o one \o try_query("nodes")
             \o select_from_t1("nodes", Add) \o begin_transaction \o try_query("nodes")
             \o one \o one \o try_query("nodes") \o flush_logs \o Close("nodes"))
        \o Delete

(* avro.cpp *)
avro ==
    SetTimeout \o stop_maxscale(Ignored) \o Ssh \o Open("nodes") \o Query("nodes") \o Close("nodes")
    \o start_binlog \o SetTimeout \o stop_maxscale(Ignored) \o Ssh
    \o SetTimeout \o start_maxscale(Ignored) \o SetTimeout \o Open("nodes")
    \o create_t1("nodes", Ignored) \o insert_into_t1("nodes", Ignored) \o Query("nodes")
    \o Close("nodes") \o SetTimeout \o Times(2, Ssh)
    \o Loop(SetTimeout \o Expect \o Add) \o Expect \o Add \o SetTimeout \o Delete

-----------------------------------------------------------------------------
(* different_size.cpp, with the master itself or through MaxScale. *)
connect_to_serv(binlog) == Open(IF binlog THEN "nodes" ELSE "conn")

set_max_packet(binlog, effect) ==
    IF binlog THEN Open("nodes") \o try_query("nodes") \o effect \o Close("nodes")
    ELSE connect_maxscale(Ignored) \o try_query("rwsplit") \o effect
         \o close_maxscale_connections

different_packet_size(binlog) ==
    LET h          == IF binlog THEN "nodes" ELSE "conn"
        larger     == Change("globals")
        default    == Undo("globals")
    IN  SetTimeout \o set_max_packet(binlog, larger)
        \o SetTimeout \o connect_to_serv(binlog) \o try_query(h) \o Close(h)
        \o Loop(Loop(SetTimeout \o connect_to_serv(binlog) \o Asks(h, 2) \o Close(h)))
        \o SetTimeout \o set_max_packet(binlog, default)

different_size_binlog ==
    SetTimeout \o start_binlog \o different_packet_size(TRUE) \o check_maxscale_processes \o Delete

different_size_rwsplit == different_packet_size(FALSE) \o check_maxscale_alive \o Delete

BinlogScripts == [
    binlog_change_master |-> With(binlog_change_master, transaction_thread),
    setup_binlog |-> Alone(setup_binlog), binlog_semisync |-> Alone(binlog_semisync),
    binlog_big_transaction |-> With(binlog_big_transaction, disconnect_thread),
    mxs781_binlog_wrong_passwrd |-> Alone(mxs781_binlog_wrong_passwrd),
    transaction_test_wo_maxscale |-> Alone(transaction_test_wo_maxscale), avro |-> Alone(avro),
    different_size_binlog |-> Alone(different_size_binlog),
    different_size_rwsplit |-> Alone(different_size_rwsplit)]
=============================================================================
