------------------------------ MODULE SuiteConfig ------------------------------
(* Scripts of the tests that change the configuration of a running MaxScale. *)
EXTENDS Harness

-----------------------------------------------------------------------------
(* config_operations.cpp.  What the commands do is module ConfigMirror. *)
Command              == SetTimeout \o Maxadmin \o StopTimeout
add_server           == SetTimeout \o Times(4, Maxadmin) \o StopTimeout
remove_server        == SetTimeout \o Times(4, Maxadmin) \o StopTimeout
alter_server         == Maxadmin
create_monitor       == SetTimeout \o Times(5, Maxadmin) \o StopTimeout
restart_monitors     == Times(2, Maxadmin)
create_all_listeners == Times(3, Command)
reset                == Loop(Maybe(Command \o add_server))
check_server_count   == Maxadmin \o Add

Setup == create_all_listeners \o create_monitor

-----------------------------------------------------------------------------
(* mxs922_server.cpp *)
check_server_id ==
    close_maxscale_connections \o connect_maxscale(Ignored)
    \o Query("nodes") \o Judged("rwsplit")

mxs922_server ==
    LET weighted == Times(3, alter_server) \o check_server_id
    IN  Setup
        \o Times(2, Command) \o check_server_count \o Times(2, Command) \o check_server_count
        \o check_maxscale_processes
        \o Command \o add_server \o check_server_count \o check_maxscale_alive
        \o remove_server \o Command \o check_server_count
        \o Command \o add_server \o alter_server \o check_maxscale_alive \o Times(2, alter_server)
        \o connect_maxscale(Ignored) \o Query("rwsplit") \o Refused \o Add
        \o remove_server \o Command \o reset \o Open("nodes")
        \o weighted \o weighted \o weighted \o reset \o check_maxscale_alive \o Delete

-----------------------------------------------------------------------------
(* mxs922_scaling.cpp: the flag of the threads is a plain bool. *)
scaling_query_thread == Open("w1") \o WhileNoFlag(Asks("w1", 2)) \o Close("w1")

mxs922_scaling ==
    Setup \o Start(2)
    \o Loop(Either(Command \o add_server, remove_server \o Command))
    \o SetFlag(2) \o Join(2) \o Loop(Command \o add_server)
    \o check_maxscale_alive \o check_log_err \o Delete

-----------------------------------------------------------------------------
mxs922_monitor ==
    Setup \o reset \o check_maxscale_alive \o Command \o check_maxscale_alive \o Maxadmin
    \o connect_maxscale(Ignored) \o Expect \o Add
    \o create_monitor \o Loop(Maxadmin) \o check_maxscale_alive
    \o connect_maxscale(Ignored) \o Asks("rwsplit", 3) \o Change("users")
    \o close_maxscale_connections \o Times(2, Maxadmin) \o check_maxscale_alive
    \o connect_maxscale(Ignored) \o Query("rwsplit") \o Undo("users")
    \o restart_monitors \o Maxadmin \o Query("rwsplit") \o Refused \o Add
    \o close_maxscale_connections \o Loop(Times(2, alter_server)) \o restart_monitors
    \o check_maxscale_alive \o check_log_err \o Delete

-----------------------------------------------------------------------------
(* mxs922_bad_server.cpp, mxs922_restart.cpp *)
add_servers     == SetTimeout \o Loop(Times(2, Maxadmin)) \o StopTimeout
remove_servers  == SetTimeout \o Loop(Times(2, Maxadmin)) \o StopTimeout
destroy_servers == SetTimeout \o Loop(Maxadmin) \o StopTimeout

do_query ==
    SetTimeout \o connect_maxscale(Ignored) \o Judged("rwsplit")
    \o close_maxscale_connections \o StopTimeout

mxs922_bad_server ==
    LET tried == add_servers \o do_query \o remove_servers \o destroy_servers
    IN  Loop(Maxadmin) \o tried \o Loop(Maxadmin) \o tried \o do_query
        \o check_maxscale_processes \o Delete

add_servers_everywhere == Loop(SetTimeout \o Times(4, Maxadmin) \o StopTimeout)

mxs922_restart ==
    Loop(Maxadmin) \o add_servers_everywhere \o do_query \o restart_maxscale(Ignored) \o do_query
    \o check_maxscale_alive \o check_log_err \o Delete

ConfigScripts == [
    mxs922_server |-> Alone(mxs922_server),
    mxs922_scaling |-> With(mxs922_scaling, scaling_query_thread),
    mxs922_monitor |-> Alone(mxs922_monitor), mxs922_bad_server |-> Alone(mxs922_bad_server),
    mxs922_restart |-> Alone(mxs922_restart)]
=============================================================================
