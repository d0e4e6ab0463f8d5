-------------------------------- MODULE SuiteSql --------------------------------
(* Scripts of the tests of statements, results and data through MaxScale.    *)
EXTENDS Harness

-----------------------------------------------------------------------------
(* blob_test.cpp: an error in a chunk of data ends the function, "rest" is   *)
(* what is left of the loops.                                                *)
send_chunk(h, rest) == SetTimeout \o Query(h) \o IfFails(Add, rest)

insert_row(h, rest) ==
    try_query(h) \o Expect \o Add
    \o send_chunk(h, send_chunk(h, SetTimeout \o try_query(h) \o try_query(h) \o rest))

test_longblob(h) == Tries(h, 2) \o insert_row(h, insert_row(h, <<>>))

(* The connection it is given is not the one it uses; an error in binding or *)
(* storing ends it without a result, one in executing is only printed.       *)
check_longblob_data ==
    try_query("rwsplit") \o Expect \o IfFails(<<>>, Query("rwsplit") \o Query("rwsplit")
        \o IfFails(<<>>, Loop(Times(2, Expect \o Add)) \o Expect \o Add))

longblob ==
    LET inserted(h) == connect_maxscale(Ignored) \o Open("nodes") \o test_longblob(h)
                       \o Close("nodes") \o close_maxscale_connections
        both == inserted("rwsplit") \o inserted("master")
    IN  SetTimeout \o execute_query_all_nodes \o Change("globals") \o both \o both \o both \o Delete

(* mxs1110_16mb.cpp *)
mxs1110_16mb ==
    SetTimeout \o Times(2, Ssh) \o copy_rules \o start_maxscale(Ignored)
    \o execute_query_all_nodes \o Change("globals") \o connect_maxscale(Ignored) \o Open("nodes")
    \o test_longblob("rwsplit") \o Close("nodes") \o close_maxscale_connections
    \o connect_maxscale(Ignored) \o Times(3, check_longblob_data) \o close_maxscale_connections
    \o Open("conn") \o Close("conn") \o Delete

-----------------------------------------------------------------------------
(* rw_select_insert.cpp *)
check_com_select == Expect
check_com_insert == Expect

Counted(run, check) ==
    get_global_status_allnodes("nodes", Ignored) \o run
    \o get_global_status_allnodes("nodes", Ignored) \o check \o Add

rw_select_insert ==
    LET hundred == Loop(SetTimeout \o try_query("rwsplit")) \o StopTimeout \o sync_slaves
    IN  SetTimeout \o Open("nodes") \o Open("rwsplit") \o Maxadmin
        \o get_global_status_allnodes("nodes", Ignored) \o Tries("rwsplit", 2) \o sync_slaves
        \o Counted(try_query("rwsplit"), check_com_select)
        \o Counted(try_query("rwsplit"), check_com_insert) \o StopTimeout \o sync_slaves
        \o Counted(Query("rwsplit"), check_com_select)
        \o Counted(Query("rwsplit"), check_com_insert) \o StopTimeout \o sync_slaves
        \o Counted(hundred, check_com_select) \o SetTimeout
        \o Counted(hundred, check_com_insert) \o close_rwsplit \o Delete

-----------------------------------------------------------------------------
(* bulk_insert.cpp: bind_by_column returns at the first error; bind_by_row   *)
(* prints most errors only, and has no return value when it succeeds.        *)
bind_by_column(h) ==
    LET step(rest) == Query(h) \o IfFails(<<>>, rest)
    IN  step(step(step(step(step(Expect \o IfFails(<<>>, Query(h))))))) \o Add

bind_by_row(h) ==
    Asks(h, 4) \o Query(h) \o IfFails(<<>>, Expect \o IfFails(<<>>, Query(h)
        \o IfFails(<<>>, Expect))) \o Add

bulk_insert ==
    connect_maxscale(Ignored) \o bind_by_column("rwsplit") \o bind_by_column("master")
    \o bind_by_row("rwsplit") \o bind_by_row("master") \o close_maxscale_connections \o Delete

-----------------------------------------------------------------------------
(* mxs1071_maxrows.cpp *)
compare_expected      == SetTimeout \o Query("rwsplit") \o Expect \o IfFails(Add, Expect \o Add)
compare_stmt_expected == SetTimeout \o Query("rwsplit") \o Expect \o IfFails(Add, Expect \o Add)
err_check             == Expect \o Add

Procedure == Tries("rwsplit", 2) \o compare_expected
Prepared  == Expect \o Add \o try_query("rwsplit") \o compare_stmt_expected
Executed  == Tries("rwsplit", 3) \o compare_expected \o try_query("rwsplit")

RowsAndProcedures ==
    Times(3, compare_expected) \o SetTimeout \o create_t1("rwsplit", Ignored)
    \o insert_into_t1("rwsplit", Ignored) \o StopTimeout
    \o Times(3, compare_expected) \o Times(4, Procedure)

BigRows ==
    try_query("rwsplit") \o Change("globals") \o StopTimeout
    \o Open("nodes") \o test_longblob("nodes") \o Close("nodes")
    \o Times(2, Procedure) \o compare_expected \o err_check \o Procedure \o err_check
    \o compare_expected \o err_check

Statements ==
    Prepared \o Executed \o Prepared \o Executed \o Times(2, Procedure) \o compare_expected
    \o Times(3, Procedure) \o try_query("rwsplit") \o compare_expected \o err_check

(* maxscale.cnf is edited in place; the last connection is not closed. *)
mxs1071_maxrows ==
    SetTimeout \o Open("rwsplit") \o create_t1("rwsplit", Ignored)
    \o insert_into_t1("rwsplit", Ignored) \o StopTimeout
    \o RowsAndProcedures \o BigRows \o Statements
    \o close_rwsplit \o Ssh \o Change("cnf") \o SetTimeout \o restart_maxscale(Ignored)
    \o Open("rwsplit") \o try_query("rwsplit") \o compare_expected
    \o check_maxscale_alive \o Delete

-----------------------------------------------------------------------------
bug645 ==
    SetTimeout \o connect_maxscale(Ignored) \o try_query("master") \o try_query("slave")
    \o try_query("rwsplit") \o close_maxscale_connections \o check_maxscale_alive \o Delete

bug571 ==
    SetTimeout \o connect_maxscale(Add) \o Times(2, SetTimeout \o try_query("rwsplit"))
    \o SetTimeout \o close_maxscale_connections \o check_maxscale_alive \o Delete

bug488 ==
    LET many(h) == Loop(SetTimeout \o try_query(h))
    IN  SetTimeout \o Open("nodes") \o connect_maxscale(Ignored)
        \o many("rwsplit") \o many("master") \o many("slave") \o Loop(SetTimeout \o try_query_all)
        \o SetTimeout \o close_maxscale_connections \o Close("nodes")
        \o check_maxscale_alive \o Delete

bug422 ==
    LET many(h) == Loop(SetTimeout \o try_query(h))
    IN  SetTimeout \o connect_maxscale(Add)
        \o many("rwsplit") \o many("slave") \o many("master")
        \o SetTimeout \o close_maxscale_connections \o check_maxscale_alive \o Delete

bug471 ==
    SetTimeout \o Open("nodes") \o connect_maxscale(Add)
    \o Loop(Loop(SetTimeout \o Query("rwsplit") \o Judged("nodes")))
    \o SetTimeout \o close_maxscale_connections \o Close("nodes") \o check_maxscale_alive \o Delete

(* Too few nodes, or a field that is not found, end the process. *)
bug507 ==
    SetTimeout \o Open("nodes") \o connect_maxscale(Ignored) \o Maybe(Exit)
    \o Tries("rwsplit", 3) \o StopTimeout \o sync_slaves \o SetTimeout
    \o Query("rwsplit") \o OnFail(Exit) \o Query("nodes") \o OnFail(Exit) \o Expect \o Add
    \o close_maxscale_connections \o Close("nodes") \o check_maxscale_alive \o Delete

bug509 ==
    SetTimeout \o Open("galera") \o connect_maxscale(Ignored) \o Maybe(Exit)
    \o Tries("rwsplit", 3) \o Tries("galera", 9) \o StopTimeout \o sync_slaves
    \o Query("rwsplit") \o OnFail(Exit) \o Query("rwsplit") \o OnFail(Exit) \o Expect \o Add
    \o Loop(SetTimeout \o try_query("rwsplit") \o Asks("rwsplit", 2)
            \o Loop(Maybe(Query("rwsplit"))) \o Expect \o Add)
    \o check_maxscale_alive \o Delete

bug519 ==
    SetTimeout \o connect_maxscale(Ignored) \o Open("nodes") \o create_t1("rwsplit", Ignored)
    \o SetTimeout \o insert_into_t1("rwsplit", Ignored) \o StopTimeout \o sync_slaves
    \o SetTimeout \o Loop(Ssh) \o try_query_all \o Ssh
    \o ForAll(<<"rwsplit", "master">>, LAMBDA h :
           SetTimeout \o try_query("rwsplit") \o StopTimeout \o sync_slaves
           \o SetTimeout \o create_t1("rwsplit", Ignored) \o try_query(h) \o StopTimeout
           \o sync_slaves \o SetTimeout \o select_from_t1("rwsplit", Add)
           \o select_from_t1("master", Add) \o select_from_t1("slave", Add))
    \o Close("nodes") \o check_maxscale_alive \o Delete

(* The connection of the new user is not closed. *)
bug592 ==
    SetTimeout \o Open("nodes") \o connect_maxscale(Ignored)
    \o Loop(Query("nodes")) \o Change("topology") \o Query("rwsplit") \o Change("users")
    \o Open("conn") \o Loop(Query("nodes")) \o Undo("topology")
    \o Query("rwsplit") \o Undo("users")
    \o Close("nodes") \o close_maxscale_connections \o Delete

bug626 ==
    SetTimeout \o Open("nodes") \o Asks("nodes", 2) \o Change("users") \o StopTimeout \o sync_slaves
    \o SetTimeout \o Open("conn") \o Refused \o Add \o Close("conn")
    \o Query("nodes") \o Undo("users") \o check_log_err \o check_maxscale_alive \o Delete

-----------------------------------------------------------------------------
(* sharding.cpp: the users and databases are dropped through connections     *)
(* that were closed before.                                                  *)
sharding ==
    SetTimeout \o stop_slaves \o restart_maxscale(Ignored) \o Open("nodes")
    \o Loop(Loop(SetTimeout \o Asks("nodes", 3)) \o Asks("nodes", 2))
    \o Change("users") \o Change("databases") \o StopTimeout
    \o Loop(SetTimeout \o Query("nodes") \o try_query("nodes")) \o Close("nodes") \o StopTimeout
    \o Loop(SetTimeout \o Open("conn") \o try_query("conn"))
    \o Loop(SetTimeout \o Open("conn") \o Loop(Query("conn")) \o Expect \o Add
            \o Query("conn") \o Close("conn"))
    \o Open("rwsplit") \o Query("rwsplit") \o Loop(try_query("rwsplit")) \o Close("rwsplit")
    \o Open("conn") \o Close("conn") \o StopTimeout \o Times(3, check_log_err)
    \o Loop(Loop(SetTimeout \o Query("nodes") \o Undo("users") \o Query("nodes") \o Undo("databases"))
            \o Query("nodes") \o Undo("databases"))
    \o Delete

SqlScripts == [
    longblob |-> Alone(longblob), mxs1110_16mb |-> Alone(mxs1110_16mb), rw_select_insert |-> Alone(rw_select_insert),
    bulk_insert |-> Alone(bulk_insert), mxs1071_maxrows |-> Alone(mxs1071_maxrows),
    bug645 |-> Alone(bug645), bug571 |-> Alone(bug571), bug488 |-> Alone(bug488),
    bug422 |-> Alone(bug422), bug471 |-> Alone(bug471), bug507 |-> Alone(bug507),
    bug509 |-> Alone(bug509), bug519 |-> Alone(bug519), bug592 |-> Alone(bug592),
    bug626 |-> Alone(bug626), sharding |-> Alone(sharding)]
=============================================================================
