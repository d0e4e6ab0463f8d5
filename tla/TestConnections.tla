--------------------------- MODULE TestConnections ---------------------------
(***************************************************************************)
(* One test program from the end of the TestConnections constructor until  *)
(* the process exits: the thread that runs the test (main), the timeout    *)
(* thread it starts (watch), the field "timeout" they share without any    *)
(* lock, and the destructor, which either of them may run.                 *)
(*                                                                         *)
(* The decrement "Test->timeout--" is a load and a store with anything in  *)
(* between.  A thread that has entered a remote call (ssh, scp, a query)   *)
(* may be stuck in it for any time.  A thread that touches an object that  *)
(* another one has deleted may crash the process or get away with it.      *)
(***************************************************************************)
EXTENDS Integers, FiniteSets

CONSTANTS
    Timeouts,      \* what the test passes to set_timeout, in seconds
    CopyTimeout,   \* what copy_all_logs passes to it (300 in the code)
    Results,       \* what the test passes to add_result
    MaxResult,     \* bound: global_result stays within -MaxResult..MaxResult
    ReplNodes,     \* the nodes of the Master/Slave setup
    GaleraNodes,   \* the nodes of the Galera setup
    CopyMayHang    \* may a remote call of the destructor never return?

Never == 999999999

ASSUME ConstantsAssumption ==
    /\ Timeouts \subseteq 1..(Never - 1)
    /\ CopyTimeout \in 1..(Never - 1)
    /\ Results \subseteq Int
    /\ MaxResult \in Nat
    /\ ReplNodes \cap GaleraNodes = {}
    /\ CopyMayHang \in BOOLEAN

VARIABLES
    enable_timeouts,  \* FALSE after -z
    no_galera,        \* TRUE after -y or without Galera nodes
    backend_ssl,      \* from the environment
    timeout,          \* seconds until test termination
    wpc,              \* where the timeout thread is in its loop
    reg,              \* the value it loaded for "timeout--"
    dpc,              \* where each thread is in the destructor ("none": not in it)
    stuck,            \* threads inside a remote call that does not return
    global_result,    \* the sum of the results added
    rval,             \* global_result as main read it before "delete Test"
    blocked,          \* nodes whose firewall rejects the database port
    ssl_cnf,          \* nodes on which ssl.cnf is installed
    reverted,         \* history: a destructor has reverted the snapshot
    exit,             \* exit status of the process, Running before that
    asked,            \* history: seconds asked by the last set_timeout/stop_timeout
    slept,            \* history: how often it woke up since then (at most asked)
    raced,            \* history: that call fell between the load and the store
    late              \* history: the test body went on after the timeout had fired

config   == <<enable_timeouts, no_galera, backend_ssl>>
watchdog == <<timeout, wpc, reg>>
history  == <<asked, slept, raced>>
backend  == <<blocked, ssl_cnf, reverted>>
outcome  == <<global_result, rval, exit>>
vars == <<config, watchdog, dpc, stuck, outcome, backend, history, late>>

Threads == {"main", "watch"}
Stages  == {"none", "ssl", "arm", "copy", "snapshot", "repl", "galera", "freed"}
Nodes   == ReplNodes \cup GaleraNodes
(* Without Galera the pointer "galera" is the pointer "repl". *)
SetupNodes == IF no_galera THEN ReplNodes ELSE Nodes

Running == -1
Crashed == 139   \* what the shell reports for SIGSEGV

TypeOK ==
    /\ enable_timeouts \in BOOLEAN /\ no_galera \in BOOLEAN /\ backend_ssl \in BOOLEAN
    /\ timeout \in Nat
    /\ wpc \in {"test", "sleep", "store", "fired"}
    /\ reg \in Nat
    /\ dpc \in [Threads -> Stages]
    /\ stuck \subseteq Threads
    /\ global_result \in Int
    /\ rval \in Int
    /\ blocked \subseteq Nodes
    /\ ssl_cnf \subseteq Nodes
    /\ reverted \in BOOLEAN
    /\ exit \in {Running} \cup 0..255
    /\ asked \in Nat
    /\ slept \in Nat
    /\ raced \in BOOLEAN /\ late \in BOOLEAN

(* The constructor has run configure_ssl for each setup it has. *)
Init ==
    /\ enable_timeouts \in BOOLEAN
    /\ no_galera \in BOOLEAN
    /\ backend_ssl \in BOOLEAN
    /\ timeout = Never
    /\ wpc = "test"
    /\ reg = Never
    /\ dpc = [t \in Threads |-> "none"]
    /\ stuck = {}
    /\ global_result = 0
    /\ rval = 0
    /\ blocked = {}
    /\ ssl_cnf = IF backend_ssl THEN SetupNodes ELSE {}
    /\ reverted = FALSE
    /\ exit = Running
    /\ asked = Never
    /\ slept = 0
    /\ raced = FALSE
    /\ late = FALSE

-----------------------------------------------------------------------------
(* Defective: the countdown does not count. *)
Minus1Forgotten(t) == t

(* Counting down from 999999999 takes 31 years: it never gets to an end.   *)
Minus1(t) == IF t = Never THEN Never ELSE t - 1

(* Main runs the statements of the test itself. *)
InBody == exit = Running /\ dpc["main"] = "none" /\ "main" \notin stuck

(* A store into "timeout" by a thread other than the timeout thread, and   *)
(* what it asks for.  Once the timeout has fired nobody reads the field.   *)
Store(t) ==
    /\ timeout' = t
    /\ IF wpc = "fired"
          THEN UNCHANGED history
          ELSE asked' = t /\ slept' = 0 /\ raced' = (wpc = "store")

(* Defective: -z is not looked at. *)
StoreTimeoutAlways(t) == Store(t)

StoreTimeout(t) ==
    IF enable_timeouts THEN Store(t) ELSE UNCHANGED <<timeout, history>>

(* Every statement of the body is late once the timeout has fired. *)
Body == InBody /\ late' = (late \/ wpc = "fired")

set_timeout(t) ==
    /\ Body
    /\ StoreTimeout(t)
    /\ UNCHANGED <<config, wpc, reg, dpc, stuck, outcome, backend>>

stop_timeout ==
    /\ Body
    /\ Store(Never)
    /\ UNCHANGED <<config, wpc, reg, dpc, stuck, outcome, backend>>

add_result(r) ==
    /\ Body
    /\ global_result + r \in (-MaxResult)..MaxResult
    /\ global_result' = global_result + r
    /\ UNCHANGED <<config, watchdog, dpc, stuck, rval, exit, backend, history>>

(* A test only blocks nodes of a setup it has. *)
block_node(n) ==
    /\ Body
    /\ n \in SetupNodes
    /\ blocked' = blocked \cup {n}
    /\ UNCHANGED <<config, watchdog, dpc, stuck, outcome, ssl_cnf, reverted, history>>

unblock_node(n) ==
    /\ Body
    /\ n \in SetupNodes
    /\ blocked' = blocked \ {n}
    /\ UNCHANGED <<config, watchdog, dpc, stuck, outcome, ssl_cnf, reverted, history>>

(* copy_all_logs called by the test: it arms the timeout and leaves it armed. *)
copy_all_logs ==
    /\ Body
    /\ StoreTimeout(CopyTimeout)
    /\ UNCHANGED <<config, wpc, reg, dpc, stuck, outcome, backend>>

(* exit(1) in the middle of a test: no destructor runs. *)
ExitInBody ==
    /\ Body
    /\ exit' = 1
    /\ UNCHANGED <<config, watchdog, dpc, stuck, global_result, rval, backend, history>>

(* int rval = Test->global_result; delete Test; *)
Finish ==
    /\ Body
    /\ rval' = global_result
    /\ dpc' = [dpc EXCEPT !["main"] = "ssl"]
    /\ UNCHANGED <<config, watchdog, stuck, global_result, exit, backend, history>>

-----------------------------------------------------------------------------
(* Defective: while (Test->timeout > 1). *)
WatchTestOneEarly ==
    /\ exit = Running /\ wpc = "test"
    /\ IF timeout > 1
          THEN wpc' = "sleep" /\ UNCHANGED dpc
          ELSE wpc' = "fired" /\ dpc' = [dpc EXCEPT !["watch"] = "ssl"]
    /\ UNCHANGED <<config, timeout, reg, stuck, outcome, backend, history, late>>

(* The timeout thread: while (Test->timeout > 0) { sleep 1; timeout--; }   *)
WatchTest ==
    /\ exit = Running /\ wpc = "test"
    /\ IF timeout > 0
          THEN wpc' = "sleep" /\ UNCHANGED dpc
          ELSE wpc' = "fired" /\ dpc' = [dpc EXCEPT !["watch"] = "ssl"]
    /\ UNCHANGED <<config, timeout, reg, stuck, outcome, backend, history, late>>

WatchLoad ==
    /\ exit = Running /\ wpc = "sleep"
    /\ reg' = timeout
    /\ slept' = IF asked = Never \/ slept >= asked THEN slept ELSE slept + 1
    /\ wpc' = "store"
    /\ UNCHANGED <<config, timeout, dpc, stuck, outcome, backend, asked, raced, late>>

WatchStore ==
    /\ exit = Running /\ wpc = "store"
    /\ timeout' = Minus1(reg)
    /\ wpc' = "test"
    /\ UNCHANGED <<config, reg, dpc, stuck, outcome, backend, history, late>>

-----------------------------------------------------------------------------
(* The destructor, run by thread t.  Both threads may be in it at once.    *)
At(t, stage) == exit = Running /\ t \notin stuck /\ dpc[t] = stage
Goto(t, stage) == dpc' = [dpc EXCEPT ![t] = stage]

(* disable_ssl of the Master/Slave setup; the call for Galera is commented out. *)
DtorSsl(t) ==
    /\ At(t, "ssl") /\ Goto(t, "arm")
    /\ ssl_cnf' = IF backend_ssl THEN ssl_cnf \ ReplNodes ELSE ssl_cnf
    /\ UNCHANGED <<config, watchdog, stuck, outcome, blocked, reverted, history, late>>

DtorArm(t) ==
    /\ At(t, "arm") /\ Goto(t, "copy")
    /\ StoreTimeout(CopyTimeout)
    /\ UNCHANGED <<config, wpc, reg, stuck, outcome, backend, late>>

DtorCopy(t) ==
    /\ At(t, "copy") /\ Goto(t, "snapshot")
    /\ UNCHANGED <<config, watchdog, stuck, outcome, backend, history, late>>

(* The snapshot of all machines, if there is one and the command works; its *)
(* result is not looked at.                                                 *)
DtorSnapshot(t) ==
    /\ At(t, "snapshot") /\ Goto(t, "repl")
    /\ \/ UNCHANGED backend
       \/ global_result # 0 /\ blocked' = {} /\ ssl_cnf' = {} /\ reverted' = TRUE
    /\ UNCHANGED <<config, watchdog, stuck, outcome, history, late>>

(* Defective: the destructor waits for the timeout thread to leave its loop. *)
DtorReplJoins(t) ==
    /\ At(t, "repl") /\ Goto(t, "galera")
    /\ wpc = "fired"
    /\ blocked' = blocked \ ReplNodes
    /\ UNCHANGED <<config, watchdog, stuck, outcome, ssl_cnf, reverted, history, late>>

(* ~Mariadb_nodes unblocks what is still blocked. *)
DtorRepl(t) ==
    /\ At(t, "repl") /\ Goto(t, "galera")
    /\ blocked' = blocked \ ReplNodes
    /\ UNCHANGED <<config, watchdog, stuck, outcome, ssl_cnf, reverted, history, late>>

(* Defective: the Galera setup is not deleted. *)
DtorGaleraLeaks(t) ==
    /\ At(t, "galera") /\ Goto(t, "freed")
    /\ UNCHANGED blocked
    /\ UNCHANGED <<config, watchdog, stuck, outcome, ssl_cnf, reverted, history, late>>

DtorGalera(t) ==
    /\ At(t, "galera") /\ Goto(t, "freed")
    /\ blocked' = IF no_galera THEN blocked ELSE blocked \ GaleraNodes
    /\ UNCHANGED <<config, watchdog, stuck, outcome, ssl_cnf, reverted, history, late>>

Dtor(t) ==
    \/ DtorSsl(t)
    \/ DtorArm(t)
    \/ DtorCopy(t)
    \/ DtorSnapshot(t)
    \/ DtorRepl(t)
    \/ DtorGalera(t)

(* The process status is the low byte of what main returns. *)
MainReturns ==
    /\ At("main", "freed")
    /\ exit' = rval % 256
    /\ UNCHANGED <<config, watchdog, dpc, stuck, global_result, rval, backend, history, late>>

WatchExits ==
    /\ At("watch", "freed")
    /\ exit' = 250
    /\ UNCHANGED <<config, watchdog, dpc, stuck, global_result, rval, backend, history, late>>

-----------------------------------------------------------------------------
(* A remote call that does not return, or returns late. *)
InRemoteCall(t) ==
    \/ t = "main" /\ dpc[t] = "none"
    \/ dpc[t] \in {"ssl", "copy", "snapshot", "repl", "galera"} /\ CopyMayHang

Hang(t) ==
    /\ exit = Running /\ t \notin stuck /\ InRemoteCall(t)
    /\ stuck' = stuck \cup {t}
    /\ UNCHANGED <<config, watchdog, dpc, outcome, backend, history, late>>

Return(t) ==
    /\ exit = Running /\ t \in stuck
    /\ stuck' = stuck \ {t}
    /\ UNCHANGED <<config, watchdog, dpc, outcome, backend, history, late>>

(* Thread t uses the setup, or the TestConnections object, that the other  *)
(* thread has deleted.                                                     *)
UsesRepl(t) == (t = "main" /\ dpc[t] = "none") \/ dpc[t] \in {"ssl", "copy", "repl"}
UsesDeleted(t) ==
    \E u \in Threads \ {t} :
        \/ dpc[u] = "freed"
        \/ dpc[u] = "galera" /\ UsesRepl(t)

Crash(t) ==
    /\ exit = Running /\ t \notin stuck /\ UsesDeleted(t)
    /\ exit' = Crashed
    /\ UNCHANGED <<config, watchdog, dpc, stuck, global_result, rval, backend, history, late>>

(* The process is gone. *)
Exited == exit # Running /\ UNCHANGED vars

Main ==
    \/ \E t \in Timeouts : set_timeout(t)
    \/ stop_timeout
    \/ \E r \in Results : add_result(r)
    \/ \E n \in Nodes : block_node(n) \/ unblock_node(n)
    \/ copy_all_logs
    \/ ExitInBody
    \/ Finish

Watch == WatchTest \/ WatchLoad \/ WatchStore \/ Dtor("watch") \/ WatchExits

Next ==
    \/ Main
    \/ Watch
    \/ Dtor("main")
    \/ MainReturns
    \/ \E t \in Threads : Hang(t) \/ Return(t) \/ Crash(t)
    \/ Exited

Spec == Init /\ [][Next]_vars

(* The scheduler runs both threads; nothing says that a test goes on, that *)
(* a stuck call returns or that an access to deleted memory crashes.       *)
FairSpec == Spec /\ WF_vars(Watch) /\ WF_vars(Dtor("main") \/ MainReturns)

-----------------------------------------------------------------------------
(* If the last set_timeout or stop_timeout did not fall into the window of *)
(* the unlocked decrement, the timeout thread gives up only after it has   *)
(* woken up once for every second that was asked for (timeout_thread).     *)
FiresOnTime ==
    (wpc = "fired" /\ ~raced) => (asked # Never /\ slept >= asked)

(* With timeouts disabled the timeout thread never terminates the test,    *)
(* although the destructor and copy_all_logs arm it like everybody else.   *)
DisabledNeverFires ==
    ~enable_timeouts => (wpc # "fired" /\ dpc["watch"] = "none")

(* However the two destructors interleave, a process that has run one to   *)
(* its end leaves no node blocked and no ssl.cnf on the Master/Slave nodes, *)
(* unless the test body went on while the timeout thread was cleaning up.  *)
(* What the constructor has installed on the Galera nodes stays there, but *)
(* for a snapshot that was reverted (testconnections.cpp:267).             *)
BackendRestored ==
    ~late /\ (\E t \in Threads : dpc[t] = "freed") =>
        /\ blocked = {}
        /\ ssl_cnf = IF backend_ssl /\ ~no_galera /\ ~reverted THEN GaleraNodes ELSE {}

(* A stuck test whose timeout was armed outside the window of the          *)
(* decrement is terminated, unless the stuck call returns or the timeout   *)
(* thread gets stuck itself in the destructor (timeout_thread).            *)
UnracedHang ==
    /\ exit = Running /\ "main" \in stuck /\ dpc["main"] = "none"
    /\ asked # Never /\ ~raced
HangIsCutShort ==
    UnracedHang ~> (exit # Running \/ "main" \notin stuck \/ "watch" \in stuck)

(* Once main has begun to destroy the test object the process ends, unless *)
(* a command of the destructor hangs.                                      *)
DestructionEnds == dpc["main"] # "none" ~> (exit # Running \/ "main" \in stuck)

-----------------------------------------------------------------------------
(* HOW_TO_WRITE_TEST.md: "If after set_timeout() a new call of             *)
(* set_timeout() or stop_timeout() is not done the test execution          *)
(* terminated".  Said of every call, raced or not.                         *)
ArmedHang ==
    /\ exit = Running /\ "main" \in stuck /\ dpc["main"] = "none"
    /\ asked # Never
ArmedTimeoutTerminates == ArmedHang ~> (exit # Running \/ "main" \notin stuck)
=============================================================================
