------------------------ MODULE TestConnectionsProofs ------------------------
(* Proofs about TestConnections, for every value of its constants.          *)
EXTENDS TestConnections, TLAPS

USE DEF Running, Threads

LEMMA NeverIsNat == Never \in Nat \ {0}
BY SMT DEF Never

-----------------------------------------------------------------------------
(* Type correctness.  That "timeout" never gets below 0 needs to be known   *)
(* together with where the timeout thread is in its loop.                   *)

PositiveInLoop ==
    /\ wpc = "sleep" => timeout > 0
    /\ wpc = "store" => reg > 0

TypeInv == TypeOK /\ PositiveInLoop

LEMMA InitType == Init => TypeInv
<1>. SUFFICES ASSUME Init PROVE TypeInv
  OBVIOUS
<1>. USE NeverIsNat DEF Init
<1>1. /\ enable_timeouts \in BOOLEAN /\ no_galera \in BOOLEAN /\ backend_ssl \in BOOLEAN
      /\ reverted \in BOOLEAN /\ raced \in BOOLEAN /\ late \in BOOLEAN
  OBVIOUS
<1>2. /\ timeout \in Nat /\ reg \in Nat /\ asked \in Nat /\ slept \in Nat
      /\ global_result \in Int /\ rval \in Int /\ exit \in {Running} \cup 0..255
  OBVIOUS
<1>3. /\ wpc \in {"test", "sleep", "store", "fired"} /\ dpc \in [Threads -> Stages]
      /\ stuck \subseteq Threads /\ blocked \subseteq Nodes /\ ssl_cnf \subseteq Nodes
  BY DEF Stages, SetupNodes, Nodes
<1>4. PositiveInLoop
  BY DEF PositiveInLoop
<1>. QED BY ONLY <1>1, <1>2, <1>3, <1>4 DEF TypeInv, TypeOK

(* A store by main is a positive number of seconds; it keeps the types.     *)
LEMMA StoreType ==
    ASSUME NEW t \in 1..Never, TypeInv, Store(t) \/ StoreTimeout(t), wpc' = wpc, reg' = reg
    PROVE  /\ timeout' \in Nat /\ asked' \in Nat /\ slept' \in Nat /\ raced' \in BOOLEAN
           /\ PositiveInLoop'
<1>1. CASE Store(t)
  <2>. USE <1>1 DEF TypeInv, TypeOK, PositiveInLoop, Store, history
  <2>1. timeout' \in Nat /\ asked' \in Nat /\ slept' \in Nat
    BY NeverIsNat
  <2>2. raced' \in BOOLEAN
    OBVIOUS
  <2>3. PositiveInLoop'
    BY NeverIsNat
  <2>. QED BY ONLY <2>1, <2>2, <2>3
<1>2. CASE UNCHANGED <<timeout, history>>
  BY <1>2 DEF TypeInv, TypeOK, PositiveInLoop, history
<1>. QED BY <1>1, <1>2 DEF StoreTimeout

LEMMA BodyType ==
    ASSUME TypeInv, Main
    PROVE  TypeInv'
<1>. USE DEF TypeInv, TypeOK, config, watchdog, outcome, backend, Body, InBody
<1>1. ASSUME NEW t \in Timeouts, set_timeout(t) PROVE TypeInv'
  BY <1>1, ConstantsAssumption, NeverIsNat, StoreType DEF set_timeout
<1>2. CASE stop_timeout
  BY <1>2, NeverIsNat, StoreType DEF stop_timeout
<1>3. ASSUME NEW r \in Results, add_result(r) PROVE TypeInv'
  BY <1>3, ConstantsAssumption DEF add_result, history, PositiveInLoop
<1>4. ASSUME NEW n \in Nodes, block_node(n) \/ unblock_node(n) PROVE TypeInv'
  <2>1. CASE block_node(n)
    BY <2>1, SMTT(30) DEF block_node, history, PositiveInLoop
  <2>2. CASE unblock_node(n)
    BY <2>2, SMTT(30) DEF unblock_node, history, PositiveInLoop
  <2>. QED BY <1>4, <2>1, <2>2
<1>5. CASE copy_all_logs
  BY <1>5, ConstantsAssumption, NeverIsNat, StoreType DEF copy_all_logs
<1>6. CASE ExitInBody
  BY <1>6 DEF ExitInBody, history, PositiveInLoop
<1>7. CASE Finish
  BY <1>7 DEF Finish, history, PositiveInLoop, Stages
<1>. QED BY <1>1, <1>2, <1>3, <1>4, <1>5, <1>6, <1>7 DEF Main

LEMMA DtorType ==
    ASSUME TypeInv, NEW t \in Threads, Dtor(t)
    PROVE  TypeInv'
<1>. USE DEF TypeInv, TypeOK, config, watchdog, outcome, backend, At, Goto, Stages
<1>1. CASE DtorSsl(t)
  BY <1>1 DEF DtorSsl, history, PositiveInLoop
<1>2. CASE DtorArm(t)
  BY <1>2, ConstantsAssumption, NeverIsNat, StoreType DEF DtorArm
<1>3. CASE DtorCopy(t)
  BY <1>3 DEF DtorCopy, history, PositiveInLoop
<1>4. CASE DtorSnapshot(t)
  BY <1>4 DEF DtorSnapshot, history, PositiveInLoop
<1>5. CASE DtorRepl(t)
  BY <1>5 DEF DtorRepl, history, PositiveInLoop
<1>6. CASE DtorGalera(t)
  BY <1>6 DEF DtorGalera, history, PositiveInLoop
<1>. QED BY <1>1, <1>2, <1>3, <1>4, <1>5, <1>6 DEF Dtor

LEMMA NextType == TypeInv /\ [Next]_vars => TypeInv'
<1>. SUFFICES ASSUME TypeInv, [Next]_vars PROVE TypeInv'
  OBVIOUS
<1>. USE DEF TypeInv, TypeOK, PositiveInLoop, config, watchdog, outcome, backend, history
<1>1. CASE Main
  BY <1>1, BodyType
<1>2. CASE WatchTest
  BY <1>2 DEF WatchTest, Stages
<1>3. CASE WatchLoad
  BY <1>3 DEF WatchLoad
<1>4. CASE WatchStore
  BY <1>4, NeverIsNat DEF WatchStore, Minus1
<1>5. CASE WatchExits
  BY <1>5 DEF WatchExits, At
<1>9. CASE MainReturns
  BY <1>9, SMTT(30) DEF MainReturns, At
<1>6. CASE Dtor("main") \/ Dtor("watch")
  BY <1>6, DtorType
<1>7. ASSUME NEW t \in Threads, Hang(t) \/ Return(t) \/ Crash(t) PROVE TypeInv'
  <2>1. CASE Hang(t)
    BY <2>1 DEF Hang
  <2>2. CASE Return(t)
    BY <2>2 DEF Return
  <2>3. CASE Crash(t)
    BY <2>3, SMTT(30) DEF Crash, Crashed
  <2>. QED BY <1>7, <2>1, <2>2, <2>3
<1>8. CASE UNCHANGED vars
  BY <1>8 DEF vars
<1>. QED BY <1>1, <1>2, <1>3, <1>4, <1>5, <1>6, <1>7, <1>8, <1>9 DEF Next, Watch, Exited

(* The types of all the fields and of the control state; in particular the  *)
(* countdown of timeout_thread never goes below 0, whatever it races with.  *)
THEOREM TypeCorrect == Spec => []TypeOK
<1>1. TypeInv => TypeOK
  BY DEF TypeInv
<1>. QED BY <1>1, InitType, NextType, PTL DEF Spec

LEMMA TypeInvariant == Spec => []TypeInv
BY InitType, NextType, PTL DEF Spec

-----------------------------------------------------------------------------
(* The countdown.  While no store was lost, the field holds what is left of *)
(* the seconds asked for; between the load and the store the register does. *)

CountInv ==
    /\ asked \in 1..Never
    /\ ~raced =>
        /\ wpc \in {"test", "sleep"} =>
              timeout = IF asked = Never THEN Never ELSE asked - slept
        /\ wpc = "store" =>
              IF asked = Never THEN reg = Never
              ELSE slept >= 1 /\ reg = asked - slept + 1
        /\ wpc = "fired" => asked # Never /\ slept >= asked

DisabledInv ==
    ~enable_timeouts =>
        /\ timeout = Never
        /\ wpc = "store" => reg = Never
        /\ wpc # "fired"
        /\ dpc["watch"] = "none"

(* Who touches the countdown: the three steps of the timeout thread, and    *)
(* the stores of the other thread or of a destructor.                       *)
Stores == \E t \in 1..Never :
    /\ StoreTimeout(t) \/ (t = Never /\ Store(t))
    /\ UNCHANGED <<wpc, reg>>

LEMMA CountdownSteps ==
    ASSUME [Next]_vars
    PROVE  \/ WatchTest \/ WatchLoad \/ WatchStore
           \/ Stores
           \/ UNCHANGED <<watchdog, history>>
<1>. USE ConstantsAssumption, NeverIsNat
<1>1. ASSUME NEW t \in Timeouts, set_timeout(t) PROVE Stores
  BY <1>1 DEF set_timeout, Stores
<1>2. CASE stop_timeout
  <2>1. Never \in 1..Never
    OBVIOUS
  <2>. QED BY <1>2, <2>1 DEF stop_timeout, Stores
<1>3. CASE copy_all_logs
  BY <1>3 DEF copy_all_logs, Stores
<1>4. ASSUME NEW t \in Threads, DtorArm(t) PROVE Stores
  BY <1>4 DEF DtorArm, Stores
<1>5. ASSUME NEW t \in Threads, Dtor(t), ~DtorArm(t) PROVE UNCHANGED <<watchdog, history>>
  BY <1>5 DEF Dtor, DtorSsl, DtorCopy, DtorSnapshot, DtorRepl, DtorGalera
<1>6. ASSUME NEW t \in Threads, Hang(t) \/ Return(t) \/ Crash(t)
      PROVE  UNCHANGED <<watchdog, history>>
  BY <1>6 DEF Hang, Return, Crash
<1>7. ASSUME \/ \E r \in Results : add_result(r)
             \/ \E n \in Nodes : block_node(n) \/ unblock_node(n)
             \/ ExitInBody \/ Finish
      PROVE  UNCHANGED <<watchdog, history>>
  BY <1>7 DEF add_result, block_node, unblock_node, ExitInBody, Finish
<1>8. CASE WatchExits \/ MainReturns
  BY <1>8 DEF WatchExits, MainReturns
<1>9. CASE UNCHANGED vars
  BY <1>9 DEF vars
<1>. QED BY <1>1, <1>2, <1>3, <1>4, <1>5, <1>6, <1>7, <1>8, <1>9
         DEF Next, Main, Watch, Exited

LEMMA NextCount ==
    ASSUME TypeInv, CountInv, [Next]_vars
    PROVE  CountInv'
<1>. USE NeverIsNat DEF TypeInv, TypeOK, PositiveInLoop, CountInv
<1>1. CASE WatchTest
  BY <1>1 DEF WatchTest, history
<1>2. CASE WatchLoad
  <2>. USE <1>2 DEF WatchLoad
  <2>1. CASE asked = Never
    BY <2>1
  <2>2. CASE asked # Never /\ ~raced
    BY <2>2
  <2>3. CASE raced
    BY <2>3
  <2>. QED BY <2>1, <2>2, <2>3
<1>3. CASE WatchStore
  <2>. USE <1>3 DEF WatchStore, Minus1, history
  <2>1. CASE asked = Never
    BY <2>1
  <2>2. CASE asked # Never
    BY <2>2
  <2>. QED BY <2>1, <2>2
<1>4. CASE Stores
  <2>1. PICK t \in 1..Never :
          /\ StoreTimeout(t) \/ Store(t)
          /\ wpc' = wpc /\ reg' = reg
    BY <1>4 DEF Stores
  <2>2. CASE Store(t)
    <3>. USE <2>1, <2>2 DEF Store, history
    <3>1. CASE wpc = "fired"
      BY <3>1
    <3>2. CASE wpc = "store"
      <4>1. raced' /\ asked' \in 1..Never
        BY <3>2
      <4>. QED BY <4>1
    <3>3. CASE wpc \in {"test", "sleep"}
      <4>1. asked' = t /\ timeout' = t /\ slept' = 0
        BY <3>3
      <4>. QED BY <3>3, <4>1
    <3>. QED BY <3>1, <3>2, <3>3
  <2>3. CASE UNCHANGED <<timeout, history>>
    BY <2>1, <2>3 DEF history
  <2>. QED BY <2>1, <2>2, <2>3 DEF StoreTimeout
<1>5. CASE UNCHANGED <<watchdog, history>>
  BY <1>5 DEF watchdog, history
<1>. QED BY <1>1, <1>2, <1>3, <1>4, <1>5, CountdownSteps

(* timeout_thread gives up early only after a set_timeout or stop_timeout   *)
(* that fell between the load and the store of its decrement.               *)
THEOREM TimeoutFiresOnTime == Spec => []FiresOnTime
<1>1. Init => CountInv
  BY NeverIsNat DEF Init, CountInv
<1>2. CountInv => FiresOnTime
  BY DEF CountInv, FiresOnTime
<1>. QED BY <1>1, <1>2, NextCount, TypeInvariant, PTL DEF Spec

LEMMA NextDisabled ==
    ASSUME TypeInv, DisabledInv, [Next]_vars
    PROVE  DisabledInv'
<1>. USE NeverIsNat DEF DisabledInv
<1>0. enable_timeouts' = enable_timeouts
  BY DEF Next, Main, Watch, Dtor, Exited, vars, config, set_timeout, stop_timeout, add_result,
     block_node, unblock_node, copy_all_logs, ExitInBody, Finish, WatchTest, WatchLoad,
     WatchStore, DtorSsl, DtorArm, DtorCopy, DtorSnapshot, DtorRepl, DtorGalera,
     MainReturns, WatchExits, Hang, Return, Crash
<1>. SUFFICES ASSUME ~enable_timeouts PROVE DisabledInv'
  BY <1>0
<1>1. CASE WatchTest
  BY <1>1 DEF WatchTest
<1>2. CASE WatchLoad
  BY <1>2 DEF WatchLoad
<1>3. CASE WatchStore
  BY <1>3 DEF WatchStore, Minus1
<1>4. CASE Stores /\ dpc'["watch"] = "none"
  BY <1>4 DEF Stores, StoreTimeout, Store
<1>5. CASE UNCHANGED <<watchdog, history>> /\ dpc'["watch"] = "none"
  BY <1>5 DEF watchdog
<1>6. \/ WatchTest
      \/ dpc'["watch"] = "none"
  <2>. USE DEF TypeInv, TypeOK
  <2>1. CASE Main
    BY <2>1 DEF Main, set_timeout, stop_timeout, add_result, block_node, unblock_node,
       copy_all_logs, ExitInBody, Finish
  <2>2. CASE Dtor("main")
    BY <2>2 DEF Dtor, Goto, DtorSsl, DtorArm, DtorCopy, DtorSnapshot, DtorRepl, DtorGalera
  <2>3. CASE Dtor("watch")
    BY <2>3 DEF Dtor, At, DtorSsl, DtorArm, DtorCopy, DtorSnapshot, DtorRepl, DtorGalera
  <2>4. CASE WatchLoad \/ WatchStore \/ WatchExits \/ MainReturns
    BY <2>4 DEF WatchLoad, WatchStore, WatchExits, MainReturns
  <2>5. ASSUME NEW t \in Threads, Hang(t) \/ Return(t) \/ Crash(t)
        PROVE  dpc'["watch"] = "none"
    BY <2>5 DEF Hang, Return, Crash
  <2>6. CASE UNCHANGED vars
    BY <2>6 DEF vars
  <2>. QED BY <2>1, <2>2, <2>3, <2>4, <2>5, <2>6 DEF Next, Watch, Exited
<1>. QED BY <1>1, <1>2, <1>3, <1>4, <1>5, <1>6, CountdownSteps

(* A test started with -z is never terminated by timeout_thread: every      *)
(* store that could arm the countdown goes through set_timeout.             *)
THEOREM DisabledTimeoutsStayQuiet == Spec => []DisabledNeverFires
<1>1. Init => DisabledInv
  BY DEF Init, DisabledInv
<1>2. DisabledInv => DisabledNeverFires
  BY DEF DisabledInv, DisabledNeverFires
<1>. QED BY <1>1, <1>2, NextDisabled, TypeInvariant, PTL DEF Spec

-----------------------------------------------------------------------------
(* What the destructor leaves behind.  Each stage a thread has passed has   *)
(* undone its part, and nobody but a late test body does it again.          *)

RestoreInv ==
    /\ ssl_cnf \subseteq IF backend_ssl THEN SetupNodes ELSE {}
    /\ reverted => ssl_cnf = {}
    /\ ~reverted /\ backend_ssl /\ ~no_galera => GaleraNodes \subseteq ssl_cnf
    /\ blocked \subseteq SetupNodes
    /\ wpc = "fired" <=> dpc["watch"] # "none"
    /\ ~late => \A t \in Threads :
        /\ dpc[t] \notin {"none", "ssl"} => ssl_cnf \cap ReplNodes = {}
        /\ dpc[t] \in {"galera", "freed"} => blocked \cap ReplNodes = {}
        /\ dpc[t] = "freed" => blocked = {}

LEMMA BodyRestore ==
    ASSUME TypeInv, RestoreInv, Main
    PROVE  RestoreInv'
<1>. USE DEF TypeInv, TypeOK, RestoreInv, SetupNodes, config, backend, watchdog, Body, InBody
<1>1. CASE \/ \E t \in Timeouts : set_timeout(t)
           \/ stop_timeout \/ copy_all_logs
           \/ \E r \in Results : add_result(r)
           \/ ExitInBody
  BY <1>1 DEF set_timeout, stop_timeout, copy_all_logs, add_result, ExitInBody
<1>2. ASSUME NEW n \in Nodes, block_node(n) PROVE RestoreInv'
  BY <1>2 DEF block_node, Nodes
<1>3. ASSUME NEW n \in Nodes, unblock_node(n) PROVE RestoreInv'
  BY <1>3 DEF unblock_node, Nodes
<1>4. CASE Finish
  BY <1>4 DEF Finish, Stages
<1>. QED BY <1>1, <1>2, <1>3, <1>4 DEF Main

LEMMA DtorRestore ==
    ASSUME TypeInv, RestoreInv, NEW t \in Threads, Dtor(t)
    PROVE  RestoreInv'
<1>. USE DEF TypeInv, TypeOK, RestoreInv, SetupNodes, config, backend, watchdog, At, Goto, Stages
<1>1. CASE DtorSsl(t)
  BY <1>1, ConstantsAssumption DEF DtorSsl, Nodes
<1>2. CASE DtorArm(t)
  BY <1>2 DEF DtorArm
<1>3. CASE DtorCopy(t)
  BY <1>3 DEF DtorCopy
<1>4. CASE DtorSnapshot(t)
  BY <1>4 DEF DtorSnapshot
<1>5. CASE DtorRepl(t)
  BY <1>5 DEF DtorRepl
<1>6. CASE DtorGalera(t)
  BY <1>6 DEF DtorGalera, Nodes
<1>. QED BY <1>1, <1>2, <1>3, <1>4, <1>5, <1>6 DEF Dtor

LEMMA NextRestore ==
    ASSUME TypeInv, RestoreInv, [Next]_vars
    PROVE  RestoreInv'
<1>. USE DEF TypeInv, TypeOK, RestoreInv, SetupNodes, config, backend, watchdog
<1>1. CASE Main
  BY <1>1, BodyRestore
<1>2. CASE Dtor("main") \/ Dtor("watch")
  BY <1>2, DtorRestore
<1>3. CASE WatchTest
  BY <1>3 DEF WatchTest
<1>4. CASE WatchLoad \/ WatchStore \/ WatchExits \/ MainReturns
  BY <1>4 DEF WatchLoad, WatchStore, WatchExits, MainReturns
<1>5. ASSUME NEW t \in Threads, Hang(t) \/ Return(t) \/ Crash(t) PROVE RestoreInv'
  BY <1>5 DEF Hang, Return, Crash
<1>6. CASE UNCHANGED vars
  BY <1>6 DEF vars
<1>. QED BY <1>1, <1>2, <1>3, <1>4, <1>5, <1>6 DEF Next, Watch, Exited

(* ~TestConnections and ~Mariadb_nodes leave no node blocked and no ssl.cnf *)
(* on the Master/Slave nodes, also when two threads run them at once, unless *)
(* the body of the test went on after the timeout had fired; the ssl.cnf of  *)
(* the Galera nodes goes only with a snapshot that is reverted.              *)
THEOREM DestructorRestoresBackend == Spec => []BackendRestored
<1>1. Init => RestoreInv
  BY DEF Init, RestoreInv, SetupNodes, Nodes
<1>2. RestoreInv => BackendRestored
  BY ConstantsAssumption DEF RestoreInv, BackendRestored, SetupNodes, Nodes
<1>. QED BY <1>1, <1>2, NextRestore, TypeInvariant, PTL DEF Spec

=============================================================================
