------------------------------ MODULE SuiteFilters ------------------------------
(* Scripts of the tests of the filters: database firewall, consistent        *)
(* critical read, gatekeeper.                                                *)
EXTENDS Harness

-----------------------------------------------------------------------------
PassQueries == Loop(Query("rwsplit") \o Note)
DenyQueries == Loop(SetTimeout \o Query("rwsplit") \o Expect \o Note)
NoFile      == Expect \o Add

(* fwf.cpp: the last two connections are not closed.  While the rate limit   *)
(* is in force the same query is repeated.                                   *)
RulesFile ==
    SetTimeout \o stop_maxscale(Ignored) \o copy_rules \o start_maxscale(Ignored)
    \o Open("rwsplit") \o Either(PassQueries, NoFile) \o Either(DenyQueries, NoFile)
    \o AddLocal \o Close("rwsplit")

RulesAtTime ==
    SetTimeout \o stop_maxscale(Ignored) \o copy_rules \o Ssh \o start_maxscale(Ignored)
    \o Open("rwsplit") \o Judged("rwsplit") \o StopTimeout
    \o SetTimeout \o try_query("rwsplit") \o Close("rwsplit") \o stop_maxscale(Ignored)

RulesLimitQueries ==
    copy_rules \o start_maxscale(Ignored) \o Open("rwsplit") \o Loop(try_query("rwsplit"))
    \o Loop(Query("rwsplit")) \o Expect \o Add \o SetTimeout \o Loop(try_query("rwsplit"))
    \o SetTimeout \o stop_maxscale(Ignored)

RulesSyntaxError ==
    copy_rules \o start_maxscale(Ignored) \o Open("rwsplit")
    \o Query("rwsplit") \o Refused \o Add \o check_maxscale_processes

fwf ==
    Loop(RulesFile) \o RulesAtTime \o RulesLimitQueries \o RulesSyntaxError \o Delete

-----------------------------------------------------------------------------
(* fwf2.cpp *)
read_and_execute_queries ==
    Either(Loop(SetTimeout \o Query("rwsplit") \o Expect \o Note), NoFile)

fwf2 ==
    Loop(SetTimeout \o stop_maxscale(Ignored) \o copy_rules \o start_maxscale(Ignored)
         \o Open("rwsplit") \o Times(2, read_and_execute_queries) \o AddLocal \o Close("rwsplit"))
    \o check_maxscale_processes \o Delete

-----------------------------------------------------------------------------
(* fwf_reload.cpp: a missing file ends the loop, and what was noted of the   *)
(* other file of these rules is forgotten.                                   *)
execute_query_from_file == Query("rwsplit")

Reloaded(rest) ==
    SetTimeout \o copy_rules \o Maxadmin
    \o Expect \o IfFails(Add,
           Loop(SetTimeout \o execute_query_from_file \o Note)
           \o Expect \o IfFails(Add,
                  Loop(SetTimeout \o execute_query_from_file \o Expect \o Note) \o AddLocal \o rest))

fwf_reload ==
    stop_maxscale(Ignored) \o copy_rules \o start_maxscale(Ignored) \o Open("rwsplit")
    \o Reloaded(Reloaded(<<>>)) \o copy_rules \o Maxadmin \o Expect \o Add
    \o check_maxscale_processes \o Delete

-----------------------------------------------------------------------------
(* fwf_syntax.cpp: MaxScale must not start with any of the rules. *)
truncate_maxscale_logs == Ssh

fwf_syntax ==
    StopTimeout \o stop_maxscale(Ignored)
    \o Loop(copy_rules \o start_maxscale(Ignored) \o check_maxscale_processes
            \o check_log_err \o truncate_maxscale_logs)
    \o Delete

-----------------------------------------------------------------------------
(* ccrfilter.cpp *)
is_master == Query("rwsplit") \o Expect

Reconfigured(edits) ==
    close_maxscale_connections \o Times(edits, Ssh) \o Change("cnf") \o restart_maxscale(Ignored)
    \o connect_maxscale(Ignored)

InsertThen(checks) == try_query("rwsplit") \o Times(checks, is_master \o Add)

ccrfilter ==
    Open("nodes") \o Asks("nodes", 3) \o connect_maxscale(Ignored) \o InsertThen(2)
    \o Reconfigured(2) \o InsertThen(5)
    \o Reconfigured(1) \o InsertThen(2) \o InsertThen(5)
    \o Reconfigured(2) \o InsertThen(2) \o InsertThen(5)
    \o Asks("nodes", 2) \o Delete

-----------------------------------------------------------------------------
gatekeeper ==
    Ssh \o SetTimeout \o Open("rwsplit") \o try_query("rwsplit") \o Loop(try_query("rwsplit"))
    \o close_rwsplit \o Ssh \o Change("cnf") \o restart_maxscale(Ignored) \o Open("rwsplit")
    \o Times(2, Loop(SetTimeout \o try_query("rwsplit")))
    \o Loop(SetTimeout \o Query("rwsplit") \o Refused \o Add) \o Ssh \o Delete

FilterScripts == [
    fwf |-> Alone(fwf), fwf2 |-> Alone(fwf2), fwf_reload |-> Alone(fwf_reload),
    fwf_syntax |-> Alone(fwf_syntax), ccrfilter |-> Alone(ccrfilter),
    gatekeeper |-> Alone(gatekeeper)]
=============================================================================
