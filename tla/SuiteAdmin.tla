------------------------------ MODULE SuiteAdmin ------------------------------
(* Scripts of the tests that look at MaxScale through maxadmin, its log and  *)
(* the scripts its monitors launch.                                          *)
EXTENDS Harness

-----------------------------------------------------------------------------
(* pers_01.cpp *)
check_pers_conn == Loop(Maxadmin \o Expect \o Add)

pers_01 ==
    LET both == SetTimeout \o Times(2, check_pers_conn)
    IN  SetTimeout \o restart_maxscale(Ignored)
        \o create_connections(<<"c1", "c2", "c3", "c4">>, Note) \o AddLocal
        \o Times(3, both \o StopTimeout) \o both \o Delete

-----------------------------------------------------------------------------
bug654 ==
    LET command == SetTimeout \o Maxadmin
    IN  command \o Expect \o Add \o Times(19, command)
        \o Maybe(Loop(Loop(SetTimeout \o Times(2, Maxadmin)))) \o check_maxscale_alive \o Delete

-----------------------------------------------------------------------------
(* script.cpp: the nodes of the master/slave setup, then those of Galera. *)
test_script_monitor(first, second) ==
    SetTimeout \o Ssh \o block_node(first) \o unblock_node(first)
    \o block_node(second) \o unblock_node(second) \o Ssh \o OnFail(Ssh \o Expect \o Add)

script ==
    SetTimeout \o Ssh \o restart_maxscale(Ignored) \o Ssh
    \o test_script_monitor("blocked0", "blocked1") \o test_script_monitor("gblocked0", "gblocked1")
    \o SetTimeout \o Ssh \o block_node("blocked1") \o unblock_node("blocked1")
    \o check_log_err \o check_maxscale_alive \o Delete

-----------------------------------------------------------------------------
(* mxs729_maxadmin.cpp *)
add_remove_maxadmin_user ==
    Times(2, Maxadmin \o Expect \o Add) \o Maxadmin \o Add
    \o Times(2, Maxadmin \o Expect \o Add) \o Maxadmin \o Refused \o Add

mxs729_maxadmin ==
    SetTimeout \o Times(2, Ssh) \o restart_maxscale(Ignored) \o Maxadmin \o Refused \o Add
    \o Maxadmin \o Expect \o Add \o add_remove_maxadmin_user \o Maxadmin
    \o check_maxscale_alive \o Times(2, Ssh) \o Delete

-----------------------------------------------------------------------------
(* kerberos_setup.cpp: the user and the plugin stay on the servers. *)
kerberos_setup ==
    SetTimeout \o Loop(Times(5, Ssh)) \o Times(20, Ssh) \o Loop(Times(5, Ssh))
    \o Open("nodes") \o execute_query_all_nodes \o Change("globals") \o Close("nodes")
    \o Open("nodes") \o Tries("nodes", 2) \o Change("users") \o Close("nodes")
    \o Times(3, Ssh \o Add) \o Delete

-----------------------------------------------------------------------------
(* What is in the log of MaxScale. *)
bug493   == SetTimeout \o Times(2, check_log_err) \o Delete

bug643_1 ==
    SetTimeout \o connect_maxscale(Ignored) \o Query("rwsplit") \o Query("master") \o Query("slave")
    \o close_maxscale_connections \o check_log_err \o Delete

bug645_1 ==
    SetTimeout \o connect_maxscale(Ignored) \o Query("rwsplit") \o Refused \o Add
    \o try_query("master") \o try_query("slave") \o close_maxscale_connections
    \o Times(2, check_log_err) \o Delete

bug650 ==
    SetTimeout \o connect_maxscale(Ignored) \o try_query("master") \o try_query("slave")
    \o Query("rwsplit") \o Refused \o Add \o close_maxscale_connections
    \o Times(5, check_log_err) \o Delete

(* The counters of connections. *)
bug469 ==
    LET counted == Maxadmin \o Expect \o Add
    IN  SetTimeout \o Times(2, counted) \o Open("rwsplit") \o try_query("rwsplit") \o close_rwsplit
        \o StopTimeout \o SetTimeout \o Times(2, counted) \o check_maxscale_alive \o Delete

-----------------------------------------------------------------------------
(* mxs657_restart_service.cpp: the exit flag, set at the end of the first    *)
(* round, is not cleared, and the threads of the next rounds do nothing.     *)
sht_rst_service == Start(2) \o SetFlag(2) \o Join(2)

service_thread == WhileNoFlag(Times(2, Maxadmin))

mxs657_restart_service ==
    Times(3, sht_rst_service) \o check_maxscale_alive \o check_log_err \o Delete

-----------------------------------------------------------------------------
(* check_backend.cpp: the connection to the Galera service is not closed. *)
check_backend ==
    SetTimeout \o connect_maxscale(Ignored) \o test_maxscale_connections(Note) \o AddLocal
    \o Open("conn") \o try_query("conn") \o close_maxscale_connections \o check_maxscale_alive
    \o Ssh \o Maybe(Ssh) \o Delete

AdminScripts == [
    pers_01 |-> Alone(pers_01), bug654 |-> Alone(bug654), script |-> Alone(script),
    mxs729_maxadmin |-> Alone(mxs729_maxadmin), kerberos_setup |-> Alone(kerberos_setup),
    bug493 |-> Alone(bug493), bug643_1 |-> Alone(bug643_1), bug645_1 |-> Alone(bug645_1),
    bug650 |-> Alone(bug650), bug469 |-> Alone(bug469), check_backend |-> Alone(check_backend),
    mxs657_restart_service |-> With(mxs657_restart_service, service_thread)]
=============================================================================
