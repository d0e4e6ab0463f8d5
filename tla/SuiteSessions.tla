------------------------------ MODULE SuiteSessions ------------------------------
(* Scripts of the tests of what a session sees through MaxScale: databases,  *)
(* users and privileges, temporary tables, character sets.                   *)
EXTENDS Harness

-----------------------------------------------------------------------------
(* sql_queries.cpp: the first failed connection ends the loop. *)
InsertAndUse(rest) ==
    LET selected == insert_select(Note) \o AddLocal
    IN  Open("nodes") \o connect_maxscale(Ignored) \o Expect \o IfFails(Add,
            selected \o Tries("rwsplit", 3) \o Change("databases") \o sync_slaves
            \o use_db(Note) \o AddLocal \o selected \o Times(2, check_t1_table)
            \o Asks("rwsplit", 2) \o Asks("master", 2) \o Asks("slave", 2)
            \o close_maxscale_connections \o Close("nodes") \o rest)

sql_queries ==
    InsertAndUse(InsertAndUse(<<>>)) \o StopTimeout \o Times(3, check_log_err)
    \o check_maxscale_alive \o Delete

-----------------------------------------------------------------------------
(* bug565.cpp: the connection with CLIENT_FOUND_ROWS is not closed. *)
bug565 ==
    SetTimeout \o Open("nodes") \o connect_maxscale(Ignored) \o Open("conn")
    \o SetTimeout \o Asks("rwsplit", 3) \o Times(2, SetTimeout \o Judged("rwsplit"))
    \o SetTimeout \o Judged("conn") \o close_maxscale_connections \o Delete

(* mxs682_cyrillic.cpp *)
check_val(h) == SetTimeout \o Judged(h)

mxs682_cyrillic ==
    SetTimeout \o connect_maxscale(Ignored) \o SetTimeout \o Open("nodes")
    \o SetTimeout \o Query("rwsplit") \o Tries("rwsplit", 2) \o StopTimeout
    \o check_val("rwsplit") \o check_val("master") \o check_val("slave") \o Loop(check_val("nodes"))
    \o check_maxscale_alive \o Delete

(* temporal_tables.cpp *)
temporal_tables ==
    LET selected(h) == SetTimeout \o Judged(h)
        everywhere  == connect_maxscale(Add) \o selected("rwsplit") \o selected("master")
                       \o selected("slave") \o close_maxscale_connections
    IN  Open("nodes") \o SetTimeout \o Open("conn") \o Asks("conn", 3)
        \o SetTimeout \o create_t1("conn", Ignored) \o SetTimeout \o Asks("conn", 4)
        \o selected("conn") \o SetTimeout \o everywhere \o Query("conn") \o everywhere
        \o Close("conn") \o Delete

-----------------------------------------------------------------------------
(* change_user.cpp *)
mysql_change_user(h) == Query(h)

change_user ==
    LET denied(h) == mysql_change_user(h) \o Refused \o Add \o Expect \o Add
    IN  SetTimeout \o Open("nodes") \o connect_maxscale(Ignored) \o Query("rwsplit")
        \o try_query("rwsplit") \o Change("users") \o Tries("rwsplit", 4)
        \o mysql_change_user("rwsplit") \o Add \o Query("rwsplit") \o Refused \o Add
        \o mysql_change_user("rwsplit") \o Add \o try_query("rwsplit")
        \o denied("rwsplit") \o try_query("rwsplit") \o denied("slave")
        \o mysql_change_user("slave") \o Add
        \o try_query("rwsplit") \o Undo("users") \o Query("rwsplit")
        \o close_maxscale_connections \o Delete

(* mxs716.cpp *)
run_test ==
    SetTimeout \o Open("conn") \o IfFails(Add, SetTimeout \o try_query("conn")) \o Close("conn")

mxs716 ==
    connect_maxscale(Ignored) \o SetTimeout \o Asks("rwsplit", 17)
    \o Change("databases") \o Change("users") \o sync_slaves \o Times(4, run_test)
    \o SetTimeout \o connect_maxscale(Ignored) \o Times(4, Query("rwsplit") \o Undo("databases"))
    \o Query("rwsplit") \o Undo("users") \o Delete

(* mxs37_table_privilege.cpp: only a connection that fails is closed.  The   *)
(* last call that "Add" looks at is the one of the last attempt.             *)
Attempt(rest) ==
    Open("conn") \o IfFails(Close("conn") \o rest,
        SetTimeout \o Query("conn") \o OnFail(Close("conn") \o rest))

mxs37_table_privilege ==
    SetTimeout \o connect_maxscale(Ignored) \o Asks("rwsplit", 5) \o Change("users")
    \o StopTimeout \o sync_slaves \o SetTimeout \o Attempt(Attempt(<<>>)) \o Add
    \o SetTimeout \o Query("rwsplit") \o Undo("users") \o Query("rwsplit")
    \o check_maxscale_alive \o Delete

-----------------------------------------------------------------------------
(* mxs365.cpp, the file of data is made on the machine of the test. *)
create_data_file == Ssh

mxs365 ==
    SetTimeout \o create_data_file \o SetTimeout \o connect_maxscale(Ignored)
    \o try_query("rwsplit") \o Change("globals") \o Tries("rwsplit", 2)
    \o close_maxscale_connections \o SetTimeout \o connect_maxscale(Ignored)
    \o Times(2, SetTimeout \o try_query("rwsplit")) \o close_maxscale_connections
    \o check_maxscale_alive \o Delete

bug694 ==
    SetTimeout \o connect_maxscale(Ignored) \o Tries("rwsplit", 3)
    \o Loop(SetTimeout \o Query("rwsplit") \o StopTimeout)
    \o SetTimeout \o Query("rwsplit") \o Refused \o Add \o Tries("rwsplit", 2)
    \o close_maxscale_connections \o Times(2, check_log_err) \o check_maxscale_alive \o Delete

(* mxs812_1.cpp: the second statement is prepared after stop_timeout. *)
send_blob ==
    try_query("rwsplit") \o Expect \o Add
    \o SetTimeout \o Query("rwsplit") \o IfFails(Add, SetTimeout \o Query("rwsplit")
       \o IfFails(Add, SetTimeout \o try_query("rwsplit") \o StopTimeout
                       \o check_current_operations \o Expect \o Add))

mxs812_1 ==
    SetTimeout \o execute_query_all_nodes \o Change("globals") \o Open("nodes")
    \o Tries("nodes", 2) \o connect_maxscale(Ignored) \o Loop(send_blob) \o Delete

-----------------------------------------------------------------------------
bug448 ==
    SetTimeout \o Open("nodes") \o Ssh \o get_client_ip \o Add \o connect_maxscale(Add)
    \o SetTimeout \o Tries("rwsplit", 2) \o Change("users")
    \o Open("conn") \o IfFails(Add, Close("conn"))
    \o try_query("rwsplit") \o Undo("users")
    \o close_maxscale_connections \o check_maxscale_alive \o Delete

SessionScripts == [
    sql_queries |-> Alone(sql_queries), bug565 |-> Alone(bug565),
    mxs682_cyrillic |-> Alone(mxs682_cyrillic), temporal_tables |-> Alone(temporal_tables),
    change_user |-> Alone(change_user), mxs716 |-> Alone(mxs716),
    mxs37_table_privilege |-> Alone(mxs37_table_privilege), mxs365 |-> Alone(mxs365),
    bug694 |-> Alone(bug694), mxs812_1 |-> Alone(mxs812_1), bug448 |-> Alone(bug448)]
=============================================================================
