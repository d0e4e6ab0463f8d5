----------------------------- MODULE Replication -----------------------------
(***************************************************************************)
(* Mariadb_nodes::fix_replication: how the harness checks the Master/Slave *)
(* setup before a test and brings it back when it is broken, while nodes   *)
(* may break, and slave threads connect, between any two of its steps.     *)
(*                                                                         *)
(* Node 0 is the master.  Each remote command works on the nodes that      *)
(* can be reached by ssh and fails without effect on the others; the code  *)
(* looks at none of the results.                                           *)
(***************************************************************************)
EXTENDS Integers, FiniteSets

CONSTANTS
    N,          \* number of nodes
    MaxFaults   \* bound: how many things break in one behaviour

ASSUME ReplicationAssumption == N \in Nat \ {0} /\ MaxFaults \in Nat

Nodes  == 0..(N - 1)
Slaves == Nodes \ {0}

VARIABLES
    v51,        \* some server is a MySQL 5.1, as get_versions finds out
    vm,         \* nodes that answer to ssh
    data,       \* nodes whose data directory is usable
    up,         \* nodes whose server runs
    closed,     \* nodes whose firewall rejects the database port
    slave,      \* IO thread of each node, as SHOW SLAVE STATUS tells it
    sql,        \* nodes whose SQL thread runs
    read_only,  \* the master is read-only
    faults,     \* how many things broke so far

    pc,         \* the next step of fix_replication
    caller,     \* which of its three calls of check_replication is running
    node,       \* the node check_replication is at
    field,      \* which of the two slave threads it looks at
    tries,      \* how often it has looked at that thread
    ok,         \* what the last complete check_replication found
    attempts, attempts_with_cleanup,
    result,     \* what fix_replication returned

    starts,     \* history: calls of start_replication
    inner_ok,   \* history: what the check inside the loop found last
    disturbed   \* history: something broke since the last check began

cluster == <<v51, vm, data, up, closed, slave, sql, read_only>>
checker == <<caller, node, field, tries, ok>>
budget  == <<attempts, attempts_with_cleanup, starts>>
vars == <<cluster, faults, pc, checker, budget, result, inner_ok, disturbed>>

Threads == {"none", "Yes", "No", "Connecting"}
Steps   == {"connect", "node", "decide", "unblock", "check_nodes", "stop", "start",
            "stop_clean", "clean", "start_clean", "done"}

TypeOK ==
    /\ v51 \in BOOLEAN
    /\ vm \subseteq Nodes /\ data \subseteq Nodes /\ up \subseteq Nodes /\ closed \subseteq Nodes
    /\ slave \in [Nodes -> Threads] /\ sql \subseteq Nodes
    /\ read_only \in BOOLEAN
    /\ faults \in Nat
    /\ pc \in Steps
    /\ caller \in {"first", "head", "inner"}
    /\ node \in Nodes
    /\ field \in {"IO", "SQL"}
    /\ tries \in {0, 1}
    /\ ok \in BOOLEAN
    /\ attempts \in 0..2
    /\ attempts_with_cleanup \in 0..2
    /\ result \in {"none", "true", "false"}
    /\ starts \in Nat
    /\ inner_ok \in BOOLEAN
    /\ disturbed \in BOOLEAN

(* The setup as start_replication leaves it once the slaves have connected; *)
(* faults that happen before the first step are what a test left behind.    *)
Init ==
    /\ v51 \in BOOLEAN
    /\ vm = Nodes /\ data = Nodes /\ up = Nodes /\ closed = {}
    /\ slave = [n \in Nodes |-> IF n = 0 THEN "none" ELSE "Yes"]
    /\ sql = Slaves
    /\ read_only = FALSE
    /\ faults = 0
    /\ pc = "connect" /\ caller = "first" /\ node = 0 /\ ok = FALSE
    /\ field = "IO" /\ tries = 0
    /\ attempts = 2 /\ attempts_with_cleanup = 2
    /\ result = "none"
    /\ starts = 0 /\ inner_ok = FALSE /\ disturbed = FALSE

-----------------------------------------------------------------------------
(* The environment. *)

Reachable(n) == n \in up /\ n \notin closed

Disturb ==
    /\ faults < MaxFaults
    /\ faults' = faults + 1
    /\ disturbed' = TRUE
    /\ UNCHANGED <<pc, checker, budget, result, inner_ok>>

(* A server that is gone: its slaves lose the connection. *)
ThreadsWithout(S) ==
    [n \in Nodes |-> IF n \in S /\ slave[n] # "none" THEN "No"
                     ELSE IF 0 \in S /\ slave[n] = "Yes" THEN "Connecting"
                     ELSE slave[n]]

ServerDies(n) ==
    /\ Disturb /\ n \in up
    /\ up' = up \ {n}
    /\ slave' = ThreadsWithout({n}) /\ sql' = sql \ {n}
    /\ UNCHANGED <<v51, vm, data, closed, read_only>>

DataCorrupted(n) ==
    /\ Disturb /\ n \in data
    /\ data' = data \ {n}
    /\ up' = up \ {n}
    /\ slave' = ThreadsWithout({n}) /\ sql' = sql \ {n}
    /\ UNCHANGED <<v51, vm, closed, read_only>>

VmLost(n) ==
    /\ Disturb /\ n \in vm
    /\ vm' = vm \ {n}
    /\ up' = up \ {n}
    /\ slave' = ThreadsWithout({n}) /\ sql' = sql \ {n}
    /\ UNCHANGED <<v51, data, closed, read_only>>

(* An error or a STOP SLAVE, in one of the threads. *)
SlaveStops(n) ==
    /\ Disturb
    /\ \/ /\ slave[n] \in {"Yes", "Connecting"}
          /\ slave' = [slave EXCEPT ![n] = "No"]
          /\ UNCHANGED sql
       \/ n \in sql /\ sql' = sql \ {n} /\ UNCHANGED slave
    /\ UNCHANGED <<v51, vm, data, up, closed, read_only>>

(* What an earlier test may leave: a blocked port, a read-only master, a   *)
(* master that is somebody's slave.                                        *)
LeftBlocked(n) ==
    /\ Disturb /\ caller = "first" /\ n \notin closed
    /\ closed' = closed \cup {n}
    /\ UNCHANGED <<v51, vm, data, up, slave, sql, read_only>>

LeftMisconfigured ==
    /\ Disturb /\ caller = "first"
    /\ \/ read_only' = TRUE /\ UNCHANGED slave
       \/ slave' = [slave EXCEPT ![0] = "Connecting"] /\ UNCHANGED read_only
    /\ UNCHANGED <<v51, vm, data, up, closed, sql>>

SlaveConnects(n) ==
    /\ slave[n] = "Connecting" /\ n \in Slaves /\ n \in up /\ Reachable(0)
    /\ slave' = [slave EXCEPT ![n] = "Yes"]
    /\ UNCHANGED <<v51, vm, data, up, closed, sql, read_only, faults, pc, checker, budget, result,
                   inner_ok, disturbed>>

Environment ==
    \/ \E n \in Nodes : \/ ServerDies(n) \/ DataCorrupted(n) \/ VmLost(n) \/ LeftBlocked(n)
                        \/ SlaveStops(n) \/ SlaveConnects(n)
    \/ LeftMisconfigured

-----------------------------------------------------------------------------
(* check_replication *)

Check(where) ==
    /\ pc' = "connect" /\ caller' = where /\ node' = 0
    /\ field' = "IO" /\ tries' = 0
    /\ disturbed' = FALSE
    /\ UNCHANGED ok

Checked(res) ==
    /\ ok' = res
    /\ pc' = "decide"
    /\ UNCHANGED <<caller, node, field, tries>>

CheckConnect ==
    /\ pc = "connect"
    /\ IF \A n \in Nodes : Reachable(n)
          THEN pc' = "node" /\ UNCHANGED checker
          ELSE Checked(FALSE)
    /\ UNCHANGED <<cluster, faults, budget, result, inner_ok, disturbed>>

(* SHOW SLAVE HOSTS on the master lists the slaves that are connected. *)
SlaveHosts == {n \in Slaves : n \in up /\ slave[n] = "Yes"}

check_master_node ==
    /\ 0 \in up
    /\ Cardinality(SlaveHosts) = N - 1 \/ v51
    /\ slave[0] = "none"
    /\ ~read_only

(* Defective: the loop over the nodes ends one node early. *)
NextNodeOneLess ==
    IF node + 2 \in Nodes
       THEN node' = node + 1 /\ field' = "IO" /\ tries' = 0 /\ UNCHANGED <<pc, caller, ok>>
       ELSE Checked(TRUE)

NextNode ==
    IF node + 1 \in Nodes
       THEN node' = node + 1 /\ field' = "IO" /\ tries' = 0 /\ UNCHANGED <<pc, caller, ok>>
       ELSE Checked(TRUE)

CheckMaster ==
    /\ pc = "node" /\ node = 0
    /\ IF check_master_node THEN NextNode ELSE Checked(FALSE)
    /\ UNCHANGED <<cluster, faults, budget, result, inner_ok, disturbed>>

(* The SQL thread is looked at when the IO thread has been found running. *)
LookAtSql == field' = "SQL" /\ tries' = 0 /\ UNCHANGED <<pc, caller, node, ok>>

SqlStatus ==
    /\ field = "SQL"
    /\ IF node \in up /\ node \in sql THEN NextNode ELSE Checked(FALSE)

(* Defective: an undecided slave thread is looked at forever. *)
bad_slave_thread_status_Spins ==
    /\ pc = "node" /\ node # 0
    /\ \/ /\ field = "IO"
          /\ CASE node \in up /\ slave[node] = "Yes" -> LookAtSql
               [] node \in up /\ slave[node] = "Connecting" -> UNCHANGED <<pc, checker>>
               [] OTHER -> Checked(FALSE)
       \/ SqlStatus
    /\ UNCHANGED <<cluster, faults, budget, result, inner_ok, disturbed>>

(* bad_slave_thread_status: a state other than Yes and No is looked at     *)
(* once more after a second; only the IO thread has such a state.          *)
bad_slave_thread_status ==
    /\ pc = "node" /\ node # 0
    /\ \/ /\ field = "IO"
          /\ CASE node \in up /\ slave[node] = "Yes" -> LookAtSql
               [] node \in up /\ slave[node] = "Connecting" /\ tries = 0 ->
                    tries' = 1 /\ UNCHANGED <<pc, caller, node, field, ok>>
               [] OTHER -> Checked(FALSE)
       \/ SqlStatus
    /\ UNCHANGED <<cluster, faults, budget, result, inner_ok, disturbed>>

-----------------------------------------------------------------------------
(* fix_replication *)

Returns(r) == pc' = "done" /\ result' = r /\ UNCHANGED <<checker, disturbed>>

FirstCheck ==
    /\ pc = "decide" /\ caller = "first"
    /\ IF ok THEN Returns("true")
             ELSE pc' = "unblock" /\ UNCHANGED <<checker, result, disturbed>>
    /\ UNCHANGED <<cluster, faults, budget, inner_ok>>

unblock_all_nodes ==
    /\ pc = "unblock"
    /\ closed' = closed \ vm
    /\ pc' = "check_nodes"
    /\ UNCHANGED <<v51, vm, data, up, slave, sql, read_only, faults, checker, budget, result,
                   inner_ok, disturbed>>

(* check_node_ssh(i) runs its command on node 0 whatever i is. *)
check_node_ssh(i) == 0 \in vm

check_nodes ==
    /\ pc = "check_nodes"
    /\ IF \A i \in Nodes : check_node_ssh(i)
          THEN Check("head") /\ attempts' = 2 /\ attempts_with_cleanup' = 2 /\ UNCHANGED result
          ELSE Returns("false") /\ UNCHANGED <<attempts, attempts_with_cleanup>>
    /\ UNCHANGED <<cluster, faults, starts, inner_ok>>

(* Defective: attempts > 1. *)
LoopHeadOneLess ==
    /\ pc = "decide" /\ caller = "head"
    /\ IF ~ok /\ attempts > 1
          THEN pc' = "start" /\ UNCHANGED <<checker, result, disturbed>>
          ELSE Returns("true")
    /\ UNCHANGED <<cluster, faults, budget, inner_ok>>

(* while (check_replication() && attempts > 0) *)
LoopHead ==
    /\ pc = "decide" /\ caller = "head"
    /\ IF ~ok /\ attempts > 0
          THEN /\ pc' = IF attempts # 2 THEN "stop" ELSE "start"
               /\ UNCHANGED <<checker, result, disturbed>>
          ELSE Returns("true")
    /\ UNCHANGED <<cluster, faults, budget, inner_ok>>

(* Defective: attempts_with_cleanup > 1. *)
InnerCheckOneLess ==
    /\ pc = "decide" /\ caller = "inner"
    /\ inner_ok' = ok
    /\ \/ ok /\ Check("head") /\ UNCHANGED result
       \/ /\ ~ok /\ attempts_with_cleanup > 1
          /\ pc' = "stop_clean" /\ UNCHANGED <<checker, result, disturbed>>
       \/ ~ok /\ attempts_with_cleanup <= 1 /\ Returns("false")
    /\ UNCHANGED <<cluster, faults, budget>>

(* if (attempts == 0 && check_replication()) *)
InnerCheck ==
    /\ pc = "decide" /\ caller = "inner"
    /\ inner_ok' = ok
    /\ \/ ok /\ Check("head") /\ UNCHANGED result
       \/ /\ ~ok /\ attempts_with_cleanup > 0
          /\ pc' = "stop_clean" /\ UNCHANGED <<checker, result, disturbed>>
       \/ ~ok /\ attempts_with_cleanup = 0 /\ Returns("false")
    /\ UNCHANGED <<cluster, faults, budget>>

stop_nodes ==
    /\ pc \in {"stop", "stop_clean"}
    /\ up' = up \ vm
    /\ slave' = ThreadsWithout(up \cap vm) /\ sql' = sql \ (up \cap vm)
    /\ pc' = IF pc = "stop" THEN "start" ELSE "clean"
    /\ UNCHANGED <<v51, vm, data, closed, read_only, faults, checker, budget, result, inner_ok,
                   disturbed>>

(* Defective: attempts_with_cleanup is not counted down. *)
cleanup_db_nodes_Uncounted ==
    /\ pc = "clean"
    /\ data' = data \cup vm
    /\ attempts' = 2
    /\ pc' = "start_clean"
    /\ UNCHANGED <<v51, vm, up, closed, slave, sql, read_only, faults, checker, starts, result,
                   attempts_with_cleanup, inner_ok, disturbed>>

cleanup_db_nodes ==
    /\ pc = "clean"
    /\ data' = data \cup vm
    /\ attempts_with_cleanup' = attempts_with_cleanup - 1
    /\ attempts' = 2
    /\ pc' = "start_clean"
    /\ UNCHANGED <<v51, vm, up, closed, slave, sql, read_only, faults, checker, starts, result,
                   inner_ok, disturbed>>

(* Servers start, forget who they replicate from, and all but node 0 are   *)
(* told to replicate from node 0.                                          *)
StartReplication ==
    /\ up' = up \cup (vm \cap data)
    /\ slave' = [n \in Nodes |-> IF n \notin (vm \cap up') THEN slave[n]
                                 ELSE IF n = 0 THEN "none" ELSE "Connecting"]
    /\ sql' = (sql \cup (vm \cap up')) \ (vm \cap up' \cap {0})
    /\ read_only' = (read_only /\ 0 \notin (vm \cap up'))
    /\ starts' = starts + 1
    /\ UNCHANGED <<v51, vm, data, closed, faults, result, inner_ok>>

start_replication ==
    /\ pc = "start"
    /\ StartReplication
    /\ attempts' = attempts - 1
    /\ Check(IF attempts' = 0 THEN "inner" ELSE "head")
    /\ UNCHANGED attempts_with_cleanup

start_after_cleanup ==
    /\ pc = "start_clean"
    /\ StartReplication
    /\ Check("head")
    /\ UNCHANGED <<attempts, attempts_with_cleanup>>

fix_replication ==
    \/ CheckConnect \/ CheckMaster \/ bad_slave_thread_status
    \/ FirstCheck \/ unblock_all_nodes \/ check_nodes
    \/ LoopHead \/ InnerCheck
    \/ stop_nodes \/ cleanup_db_nodes \/ start_replication \/ start_after_cleanup

(* The caller has its answer. *)
Returned == pc = "done" /\ UNCHANGED vars

Next == Environment \/ fix_replication \/ Returned

Spec == Init /\ [][Next]_vars
FairSpec == Spec /\ WF_vars(fix_replication)

-----------------------------------------------------------------------------
(* The setup is what check_replication looks for. *)
Healthy ==
    /\ \A n \in Nodes : Reachable(n)
    /\ slave[0] = "none" /\ ~read_only
    /\ \A n \in Slaves : slave[n] = "Yes" /\ n \in sql

(* The setup is started at most eight times, whatever breaks meanwhile:    *)
(* two attempts, and after each of two cleanups one more start and two     *)
(* more attempts (fix_replication).                                        *)
RestartsBounded == starts <= 8

(* fix_replication gives up only when node 0 could not be reached or when  *)
(* every attempt and every cleanup has been spent and the last check still *)
(* failed.                                                                 *)
GivesUpForCause ==
    result = "false" =>
        \/ starts = 0 /\ 0 \notin vm
        \/ starts = 8 /\ attempts = 0 /\ attempts_with_cleanup = 0 /\ ~ok

(* It reports success although its last check failed only in one way: the  *)
(* attempts were spent, the check inside the loop passed and the one in    *)
(* the loop's condition did not.                                           *)
SuccessWithoutCheck ==
    (result = "true" /\ ~ok) => (caller = "head" /\ attempts = 0 /\ inner_ok)

(* If nothing broke while check_replication was looking at one node after  *)
(* the other, a setup it accepts is healthy in every node.                 *)
CheckIsSound ==
    (pc = "decide" /\ ok /\ ~disturbed) => Healthy

(* fix_replication returns, whatever breaks meanwhile. *)
Terminates == <>(pc = "done")
=============================================================================
