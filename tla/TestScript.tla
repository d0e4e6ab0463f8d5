------------------------------ MODULE TestScript ------------------------------
(***************************************************************************)
(* The test programs of the suite as scripts, and what running one does.   *)
(* A script is what a test's main, and the threads it starts, do with the  *)
(* harness, in order: the timeout it sets and stops, the connections it    *)
(* opens, queries and closes, the checks whose failure it reports, what it *)
(* changes on the servers and undoes, the threads it starts and joins.     *)
(* Conditions on what MaxScale or a server answers are choices; the text   *)
(* of queries, messages and pauses are left out.                           *)
(*                                                                         *)
(* The scripts are data (constant Code, given by the modules Suite...);    *)
(* this module says what each kind of statement does to the connections,   *)
(* the result, the timeout and the servers.  A call that MaxScale, the     *)
(* program under test, has to answer may never return, nor may the wait    *)
(* for slaves that do not catch up; a command over ssh and an answer of a  *)
(* server itself always come.                                              *)
(***************************************************************************)
EXTENDS Integers, Sequences, FiniteSets

CONSTANTS
    Tests,       \* names of the test programs
    Code,        \* Code[test]: the scripts of main and of three kinds of threads
    Handles,     \* the variables that hold a connection
    ViaMaxScale, \* the ones among them whose connection goes through MaxScale
    NodeArrays,  \* the ones that the harness sets to NULL before and after use
    Marks,       \* what a test can change on the servers
    Unblocked,   \* the marks that the destructor takes away (blocked ports)
    Repaired,    \* the marks that the constructor of the next test takes away
    Leaves,      \* Leaves[test]: the marks that a test is known to leave for good
    Unchecked,   \* Unchecked[test]: the marks it takes back without a look at the answer
    Misuses,     \* Misuses[test]: the connection variables it is known to misuse
    Forgetful,   \* tests known to lose a failure they have seen
    Abandoning,  \* tests known to return while a thread of theirs runs
    Idle,        \* tests known to start threads that stop at once
    Unguarded    \* Unguarded[test]: what a test is known to wait for without a timeout

Main    == 1
Threads == 1..4

(* What a test can wait for without end: an answer of MaxScale on a        *)
(* connection, one of maxadmin, a slave to catch up with the master.       *)
Endless == {"maxscale", "maxadmin", "sync"}

(* What a call returns, and sums of it, as far as the exit status of the   *)
(* process tells them apart: "0" no failure; "256" failures that add up to *)
(* a number whose low byte is 0, such as the wait status that system()     *)
(* gives of a command that exits with 1; "1" any other failure.            *)
Failure == {"256", "1"}
Number  == {"0"} \cup Failure

Plus(a, b) ==
    CASE b = "0"                  -> {a}
      [] a = "0"                  -> {b}
      [] a = "256" /\ b = "256"   -> {"256"}
      [] a = "1" /\ b = "1"       -> Failure
      [] OTHER                    -> {"1"}

(* A statement: its kind, what it is about (a connection variable, a mark  *)
(* or nothing), and a number (of a thread, or of statements to leave out). *)
Connecting == {"open", "close", "close_null", "query"}
Changing   == {"change", "undo"}
Threading  == {"start", "join", "set_flag", "clear_flag"}
Forward    == {"maybe", "on_fail", "skip", "while"}
Remote     == {"ssh", "maxadmin", "sysbench"}
Plain      == Remote \cup {"set_timeout", "stop_timeout", "await", "add", "note",
                 "add_local", "expect", "refuse", "return", "delete", "exit"}

WellFormed(script) ==
    \A i \in DOMAIN script : LET s == script[i] IN
        \/ s.op \in Connecting /\ s.on \in Handles
        \/ s.op \in Changing /\ s.on \in Marks
        \/ s.op \in Threading /\ s.n \in Threads \ {Main}
        \/ s.op \in Forward /\ s.n \in 0..(Len(script) - i)
        \/ s.op = "back" /\ s.n \in 1..(i - 1)
        \/ s.op \in Plain

ASSUME ScriptAssumption ==
    /\ DOMAIN Code = Tests
    /\ \A name \in Tests :
          /\ Code[name] \in [Threads -> Seq([op : STRING, on : STRING, n : Nat])]
          /\ \A t \in Threads : WellFormed(Code[name][t])
    /\ ViaMaxScale \subseteq Handles
    /\ NodeArrays \subseteq Handles
    /\ Unblocked \cup Repaired \subseteq Marks
    /\ Leaves \in [Tests -> SUBSET Marks]
    /\ Unchecked \in [Tests -> SUBSET Marks]
    /\ Misuses \in [Tests -> SUBSET Handles]
    /\ Unguarded \in [Tests -> SUBSET Endless]
    /\ Forgetful \cup Abandoning \cup Idle \subseteq Tests

VARIABLES
    test,      \* the test that runs
    pc,        \* the statement each thread is at
    ret,       \* what the last call of each thread returned
    started,   \* the threads that have been started
    stuck,     \* the threads in a call that does not return
    timer,     \* set_timeout was called later than stop_timeout
    conn,      \* each connection variable: never set, NULL, open, freed
    misused,   \* the connection variables used when never set, freed or being freed
    marks,     \* what was changed on the servers and not asked to be undone
    refused,   \* history: the marks that stay because their undoing has failed
    flag,      \* the exit flag of each thread
    local,     \* failures added up in a local variable of main
    result,    \* global_result
    detected,  \* history: main or a thread has seen a failure
    exit       \* how the process has ended

memory  == <<conn, misused>>
servers == <<marks, refused>>
verdict == <<local, result, detected>>
vars == <<test, pc, ret, started, stuck, timer, memory, servers, flag, verdict, exit>>

TypeOK ==
    /\ test \in Tests
    /\ pc \in [Threads -> Nat \ {0}]
    /\ ret \in [Threads -> Number]
    /\ started \subseteq Threads
    /\ stuck \subseteq started
    /\ timer \in BOOLEAN
    /\ conn \in [Handles -> {"wild", "null", "open", "freed"}]
    /\ misused \subseteq Handles
    /\ marks \subseteq Marks /\ refused \subseteq Marks
    /\ flag \in [Threads -> BOOLEAN]
    /\ local \in Number /\ result \in Number /\ detected \in BOOLEAN
    /\ exit \in {"running", "returned", "exited", "timed_out"}

Init ==
    /\ test \in Tests
    /\ pc = [t \in Threads |-> 1]
    /\ ret = [t \in Threads |-> "0"]
    /\ started = {Main}
    /\ stuck = {}
    /\ timer = FALSE
    /\ conn = [h \in Handles |-> IF h \in NodeArrays THEN "null" ELSE "wild"]
    /\ misused = {}
    /\ marks = {} /\ refused = {}
    /\ flag = [t \in Threads |-> FALSE]
    /\ local = "0" /\ result = "0" /\ detected = FALSE
    /\ exit = "running"

-----------------------------------------------------------------------------
Script(t)   == Code[test][t]
Finished(t) == pc[t] > Len(Script(t))

(* The statement that thread t is about to execute, if there is one. *)
Current(t) ==
    IF exit = "running" /\ t \in started \ stuck /\ ~Finished(t)
    THEN {Script(t)[pc[t]]} ELSE {}

Goto(t, n) == pc' = [pc EXCEPT ![t] = n]
Advance(t) == Goto(t, pc[t] + 1)
Answer(t, number) == ret' = [ret EXCEPT ![t] = number]

-----------------------------------------------------------------------------
(* The timeout. *)
set_timeout(t, s) ==
    /\ s.op = "set_timeout"
    /\ Advance(t) /\ timer' = TRUE
    /\ UNCHANGED <<test, ret, started, stuck, memory, servers, flag, verdict, exit>>

stop_timeout(t, s) ==
    /\ s.op = "stop_timeout"
    /\ Advance(t) /\ timer' = FALSE
    /\ UNCHANGED <<test, ret, started, stuck, memory, servers, flag, verdict, exit>>

-----------------------------------------------------------------------------
(* Connections.  open_conn gives a handle whether or not it could connect. *)
open_conn(t, s) ==
    /\ s.op = "open"
    /\ Advance(t)
    /\ conn' = [conn EXCEPT ![s.on] = "open"]
    /\ \E number \in {"0", "1"} : Answer(t, number)
    /\ UNCHANGED <<test, started, stuck, timer, misused, servers, flag, verdict, exit>>

(* Using or closing a pointer that was never set, or is freed already. *)
Dangling(h) == IF conn[h] \in {"wild", "freed"} THEN {h} ELSE {}

(* The connections that another thread may be using: it is at a statement  *)
(* on them, which takes as long as the server takes.                       *)
Uses(s) == IF s.op \in {"query", "close", "close_null"} THEN {s.on} ELSE {}
InUse(t) ==
    UNION {Uses(Script(u)[pc[u]]) : u \in {u \in started \ {t} : ~Finished(u)}}

(* Defective: the arrays of the nodes keep the pointers that were closed. *)
mysql_close_KeepsPointer(t, s) ==
    /\ s.op \in {"close", "close_null"}
    /\ Advance(t)
    /\ misused' = misused \cup Dangling(s.on) \cup ({s.on} \cap InUse(t))
    /\ conn' = [conn EXCEPT ![s.on] = IF s.op = "close_null" THEN "null" ELSE "freed"]
    /\ UNCHANGED <<test, ret, started, stuck, timer, servers, flag, verdict, exit>>

mysql_close(t, s) ==
    /\ s.op \in {"close", "close_null"}
    /\ Advance(t)
    /\ misused' = misused \cup Dangling(s.on) \cup ({s.on} \cap InUse(t))
    /\ conn' = [conn EXCEPT ![s.on] =
                    IF s.on \in NodeArrays \/ s.op = "close_null" THEN "null" ELSE "freed"]
    /\ UNCHANGED <<test, ret, started, stuck, timer, servers, flag, verdict, exit>>

(* execute_query and find_field answer an error when the pointer is NULL. *)
execute_query(t, s) ==
    /\ s.op = "query"
    /\ Advance(t)
    /\ misused' = misused \cup Dangling(s.on)
    /\ \E number \in {"0", "1"} : (number = "0" => conn[s.on] # "null") /\ Answer(t, number)
    /\ UNCHANGED <<test, started, stuck, timer, conn, servers, flag, verdict, exit>>

(* A command over ssh on one of the machines, or on the machine of the     *)
(* test: what it returns is a wait status.  Of a maxadmin command none of   *)
(* the tests adds up the status itself.                                    *)
Status(op) == IF op = "maxadmin" THEN {"0", "1"} ELSE Number

(* Defective: the command ends with stop_timeout, which was its caller's. *)
ssh_StopsTimeout(t, s) ==
    /\ s.op \in Remote
    /\ Advance(t) /\ timer' = FALSE
    /\ \E number \in Status(s.op) : Answer(t, number)
    /\ UNCHANGED <<test, started, stuck, memory, servers, flag, verdict, exit>>

ssh(t, s) ==
    /\ s.op \in Remote
    /\ Advance(t)
    /\ \E number \in Status(s.op) : Answer(t, number)
    /\ UNCHANGED <<test, started, stuck, timer, memory, servers, flag, verdict, exit>>

(* The slaves have caught up, the one way out of wait_until_pos but for a  *)
(* slave that does not answer.                                             *)
wait_until_pos(t, s) ==
    /\ s.op = "await"
    /\ Advance(t)
    /\ UNCHANGED <<test, ret, started, stuck, timer, memory, servers, flag, verdict, exit>>

(* What statement s may wait for without end. *)
WaitsFor(s) ==
    CASE s.op \in {"open", "query"} /\ s.on \in ViaMaxScale -> {"maxscale"}
      [] s.op = "sysbench"                                  -> {"maxscale"}
      [] s.op = "maxadmin"                                  -> {"maxadmin"}
      [] s.op = "await"                                     -> {"sync"}
      [] OTHER                                              -> {}

Hang(t, s) ==
    /\ WaitsFor(s) # {}
    /\ stuck' = stuck \cup {t}
    /\ UNCHANGED <<test, pc, ret, started, timer, memory, servers, flag, verdict, exit>>

-----------------------------------------------------------------------------
(* Results.  "add" is add_result of what the last call returned, "note"    *)
(* adds it to a local variable, "add_local" is add_result of that one, and *)
(* "expect" the comparison of an answer with what the test wants, "refuse" *)
(* the check that the last call failed.                                    *)
(* Defective: a later result replaces the earlier ones. *)
add_result_Replaces(t, s) ==
    /\ s.op = "add"
    /\ Advance(t)
    /\ result' = ret[t]
    /\ detected' = (detected \/ ret[t] # "0")
    /\ UNCHANGED <<test, ret, started, stuck, timer, memory, servers, flag, local, exit>>

add_result(t, s) ==
    /\ s.op = "add"
    /\ Advance(t)
    /\ result' \in Plus(result, ret[t])
    /\ detected' = (detected \/ ret[t] # "0")
    /\ UNCHANGED <<test, ret, started, stuck, timer, memory, servers, flag, local, exit>>

note_result(t, s) ==
    /\ s.op = "note"
    /\ Advance(t)
    /\ local' \in Plus(local, ret[t])
    /\ detected' = (detected \/ ret[t] # "0")
    /\ UNCHANGED <<test, ret, started, stuck, timer, memory, servers, flag, result, exit>>

add_local(t, s) ==
    /\ s.op = "add_local"
    /\ Advance(t)
    /\ result' \in Plus(result, local)
    /\ UNCHANGED <<test, ret, started, stuck, timer, memory, servers, flag, local, detected, exit>>

expect(t, s) ==
    /\ \/ s.op = "expect" /\ \E number \in {"0", "1"} : Answer(t, number)
       \/ s.op = "refuse" /\ Answer(t, IF ret[t] = "0" THEN "1" ELSE "0")
    /\ Advance(t)
    /\ UNCHANGED <<test, started, stuck, timer, memory, servers, flag, verdict, exit>>

-----------------------------------------------------------------------------
(* What the test does to the servers, and undoes. *)
change(t, s) ==
    /\ s.op = "change"
    /\ Advance(t) /\ marks' = marks \cup {s.on}
    /\ UNCHANGED <<test, ret, started, stuck, timer, memory, refused, flag, verdict, exit>>

(* Defective: a test that has seen a failure does not clean up any more. *)
undo_SkippedAfterFailure(t, s) ==
    /\ s.op = "undo"
    /\ Advance(t)
    /\ marks' = IF detected THEN marks ELSE marks \ {s.on}
    /\ UNCHANGED <<test, ret, started, stuck, timer, memory, refused, flag, verdict, exit>>

(* A change is asked to be undone by the statement before this one, which  *)
(* may have failed: on a connection that is closed, or never came up, or   *)
(* because the server refuses.  What the next test repairs does not stay.  *)
undo(t, s) ==
    /\ s.op = "undo"
    /\ Advance(t)
    /\ marks' = marks \ {s.on}
    /\ refused' = IF ret[t] = "0" THEN refused ELSE refused \cup ({s.on} \ Repaired)
    /\ UNCHANGED <<test, ret, started, stuck, timer, memory, flag, verdict, exit>>

-----------------------------------------------------------------------------
(* Threads.  One that is started again while it runs stands for both. *)
pthread_create(t, s) ==
    /\ s.op = "start"
    /\ started' = started \cup {s.n}
    /\ pc' = [pc EXCEPT ![t] = @ + 1,
                        ![s.n] = IF s.n \in started /\ ~Finished(s.n)
                                       THEN @ ELSE 1]
    /\ UNCHANGED <<test, ret, stuck, timer, memory, servers, flag, verdict, exit>>

(* Defective: a flag that is set is not cleared again. *)
set_flag_Sticks(t, s) ==
    /\ s.op \in {"set_flag", "clear_flag"}
    /\ Advance(t) /\ flag' = [flag EXCEPT ![s.n] = (@ \/ s.op = "set_flag")]
    /\ UNCHANGED <<test, ret, started, stuck, timer, memory, servers, verdict, exit>>

set_flag(t, s) ==
    /\ s.op \in {"set_flag", "clear_flag"}
    /\ Advance(t) /\ flag' = [flag EXCEPT ![s.n] = (s.op = "set_flag")]
    /\ UNCHANGED <<test, ret, started, stuck, timer, memory, servers, verdict, exit>>

(* Defective: the join does not wait for the thread. *)
pthread_join_Detaches(t, s) ==
    /\ s.op = "join"
    /\ Advance(t)
    /\ UNCHANGED <<test, ret, started, stuck, timer, memory, servers, flag, verdict, exit>>

pthread_join(t, s) ==
    /\ s.op = "join"
    /\ Finished(s.n)
    /\ Advance(t)
    /\ UNCHANGED <<test, ret, started, stuck, timer, memory, servers, flag, verdict, exit>>

-----------------------------------------------------------------------------
(* Control.  "maybe" leaves out the next n statements or not, "on_fail"    *)
(* leaves them out when the last call succeeded, "skip" always, "while"    *)
(* when the flag is set; "back" repeats the last n, "return" ends a thread. *)
Target(t, s) ==
    CASE s.op = "maybe"   -> {pc[t] + 1, pc[t] + 1 + s.n}
      [] s.op = "on_fail" -> {pc[t] + 1 + (IF ret[t] = "0" THEN s.n ELSE 0)}
      [] s.op = "skip"    -> {pc[t] + 1 + s.n}
      [] s.op = "while"   -> {pc[t] + 1 + (IF flag[t] THEN s.n ELSE 0)}
      [] s.op = "back"    -> {pc[t] - s.n}
      [] s.op = "return"  -> {Len(Script(t)) + 1}
      [] OTHER            -> {}

Jump(t, s) ==
    /\ \E n \in Target(t, s) : Goto(t, n)
    /\ UNCHANGED <<test, ret, started, stuck, timer, memory, servers, flag, verdict, exit>>

-----------------------------------------------------------------------------
(* The end.  "delete" is the return of main through the destructor, which  *)
(* unblocks the nodes; "exit" a call of exit after it, in the middle of a  *)
(* test.                                                                   *)
Ends(how) ==
    /\ exit' = how
    /\ UNCHANGED <<test, pc, ret, started, stuck, timer, memory, refused, flag, verdict>>

delete_test(s) ==
    /\ s.op = "delete"
    /\ marks' = marks \ Unblocked
    /\ Ends("returned")

exit_process(s) ==
    /\ s.op = "exit"
    /\ marks' = marks \ Unblocked
    /\ Ends("exited")

(* The timeout thread finds that main has waited for too long. *)
MainWaits ==
    \/ Main \in stuck
    \/ \E s \in Current(Main) : s.op = "join" /\ ~Finished(s.n)

(* Defective: a main that joins a thread does not count as waiting. *)
timeout_thread_NotInJoin ==
    /\ exit = "running" /\ timer
    /\ Main \in stuck
    /\ marks' = marks \ Unblocked
    /\ Ends("timed_out")

timeout_thread ==
    /\ exit = "running" /\ timer
    /\ MainWaits
    /\ marks' = marks \ Unblocked
    /\ Ends("timed_out")

-----------------------------------------------------------------------------
Statement(t, s) ==
    \/ set_timeout(t, s) \/ stop_timeout(t, s)
    \/ open_conn(t, s) \/ mysql_close(t, s) \/ execute_query(t, s)
    \/ ssh(t, s) \/ wait_until_pos(t, s)
    \/ add_result(t, s) \/ note_result(t, s) \/ add_local(t, s) \/ expect(t, s)
    \/ change(t, s) \/ undo(t, s)
    \/ pthread_create(t, s) \/ set_flag(t, s) \/ pthread_join(t, s)
    \/ Jump(t, s)
    \/ delete_test(s) \/ exit_process(s)

Step(t) == \E s \in Current(t) : Statement(t, s)

Next ==
    \/ \E t \in Threads : \E s \in Current(t) : Statement(t, s) \/ Hang(t, s)
    \/ timeout_thread

Spec == Init /\ [][Next]_vars

(* Every thread gets its turn and the timeout thread wakes up every second; *)
(* a call that hangs is never obliged to.                                   *)
FairSpec ==
    /\ Spec
    /\ \A t \in Threads : WF_vars(Step(t))
    /\ WF_vars(timeout_thread)

-----------------------------------------------------------------------------
(* Safety. *)

(* A test never queries or closes a connection variable that it has not   *)
(* set or has closed already, and never closes one that another thread    *)
(* may be using: on every path, also after a failed check, the opens and  *)
(* closes of connect_maxscale, close_maxscale_connections and of the test *)
(* itself fit together.  Misuses has what is known to go wrong: an index  *)
(* before the array, two threads on one array of connections.             *)
NoMisuse == misused \subseteq Misuses[test]

(* What a test that returns leaves changed on the servers is something    *)
(* that the constructor of the next test repairs (fix_replication, the    *)
(* new maxscale.cnf and the restart): users, databases and global         *)
(* variables it creates are asked back on every path to its end.  Where   *)
(* the statement that takes them back fails, the test reports a failure.  *)
(* What the code of a test never takes back is in Leaves, what it takes   *)
(* back without a look at the answer in Unchecked.                        *)
NoResidue ==
    exit = "returned" =>
        /\ marks \subseteq Repaired \cup Leaves[test]
        /\ result = "0" => refused \subseteq Leaves[test] \cup Unchecked[test]

(* When main returns and the TestConnections object is destroyed, no      *)
(* thread that uses it is still running.                                  *)
NoOrphans ==
    exit = "returned" /\ test \notin Abandoning => \A t \in started \ {Main} : Finished(t)

(* The threads in a call that does not return which main waits for, in it *)
(* or in a join, and what thread t may wait for.                          *)
Blocking ==
    {t \in stuck : t = Main \/ \E s \in Current(Main) : s.op = "join" /\ s.n = t}
Awaited(t) == WaitsFor(Script(t)[pc[t]])

(* A call that does not return, of MaxScale, of maxadmin or of sync_slaves, *)
(* is waited for with a timeout set, whether main makes it or joins a      *)
(* thread that does; so the timeout thread will end the test.  What a test *)
(* is known to wait for without a timeout is in Unguarded.                 *)
WaitsAreWatched ==
    exit = "running" => \A t \in Blocking : timer \/ Awaited(t) \subseteq Unguarded[test]

(* A thread is started to do something: the exit flag it polls is not set *)
(* already, also when it is the second load of the same test.             *)
StartedToWork ==
    [][\A t \in Threads : \A s \in Current(t) :
           pthread_create(t, s) /\ test \notin Idle => ~flag[s.n]]_vars

-----------------------------------------------------------------------------
(* Liveness. *)

(* Whatever MaxScale, maxadmin and the slaves do, a test ends, or main has *)
(* come to one of the calls that the test makes, or joins, with no timeout *)
(* set and that does not return.                                           *)
EveryTestEnds ==
    <>(exit # "running" \/ \E t \in Blocking : Awaited(t) \subseteq Unguarded[test])

-----------------------------------------------------------------------------
(* Refinement.  main returns global_result, of which the caller of the     *)
(* process gets the low byte.                                              *)
Phase ==
    CASE exit = "running"   -> "running"
      [] exit = "returned"  -> IF result = "1" THEN "failed" ELSE "passed"
      [] exit = "exited"    -> "aborted"
      [] exit = "timed_out" -> "timed_out"

Contract == INSTANCE TestContract WITH
    phase <- Phase,
    seen <- IF test \in Forgetful THEN result # "0" ELSE detected,
    status <- result,
    watched <- timer

(* A test program keeps the contract of TestContract: every failure that  *)
(* main or a thread sees, whether it goes to add_result at once or through *)
(* a local variable, is in the exit status, unless all that was added is  *)
(* a multiple of 256, and only a watched test is ended by the timeout     *)
(* thread.                                                                *)
KeepsContract == Contract!Spec
=============================================================================
