-------------------------- MODULE ReplicationProofs --------------------------
(* Proofs about Replication, for every number of nodes and of faults.       *)
EXTENDS Replication, TLAPS

(* Each start of the setup is paid for: an attempt buys one, a cleanup      *)
(* three.  The cleanup has been charged, and its start not yet made, at     *)
(* "start_clean".                                                           *)
BudgetInv ==
    /\ caller = "first" => starts = 0 /\ attempts = 2 /\ attempts_with_cleanup = 2
    /\ caller # "first" =>
          starts + attempts + 3 * attempts_with_cleanup = IF pc = "start_clean" THEN 7 ELSE 8
    /\ pc \in {"unblock", "check_nodes"} => caller = "first"
    /\ pc \in {"stop", "start"} => caller = "head" /\ attempts > 0
    /\ pc \in {"stop_clean", "clean"} => caller = "inner" /\ attempts_with_cleanup > 0
    /\ pc = "start_clean" => caller = "inner" /\ attempts = 2
    /\ caller = "inner" /\ pc # "start_clean" => attempts = 0
    /\ caller = "head" /\ attempts = 0 => inner_ok
    /\ pc # "done" => result = "none"

FixInv == TypeOK /\ BudgetInv /\ GivesUpForCause /\ SuccessWithoutCheck

LEMMA InitFix == Init => FixInv
<1>. SUFFICES ASSUME Init PROVE FixInv
  OBVIOUS
<1>. USE ReplicationAssumption DEF Init
<1>1. TypeOK
  <2>1. slave \in [Nodes -> Threads] /\ sql \subseteq Nodes
    BY DEF Threads, Slaves
  <2>2. node \in Nodes
    BY DEF Nodes
  <2>3. pc \in Steps
    BY DEF Steps
  <2>4. /\ v51 \in BOOLEAN /\ read_only \in BOOLEAN /\ ok \in BOOLEAN
        /\ inner_ok \in BOOLEAN /\ disturbed \in BOOLEAN
    OBVIOUS
  <2>5. /\ faults \in Nat /\ starts \in Nat /\ tries \in {0, 1} /\ field \in {"IO", "SQL"}
        /\ attempts \in 0..2 /\ attempts_with_cleanup \in 0..2
    OBVIOUS
  <2>6. /\ vm \subseteq Nodes /\ data \subseteq Nodes /\ up \subseteq Nodes /\ closed \subseteq Nodes
        /\ caller \in {"first", "head", "inner"} /\ result \in {"none", "true", "false"}
    OBVIOUS
  <2>. QED BY ONLY <2>1, <2>2, <2>3, <2>4, <2>5, <2>6 DEF TypeOK
<1>2. BudgetInv
  BY DEF BudgetInv
<1>3. GivesUpForCause /\ SuccessWithoutCheck
  BY DEF GivesUpForCause, SuccessWithoutCheck
<1>. QED BY <1>1, <1>2, <1>3 DEF FixInv

(* Nothing that breaks touches the control state of fix_replication, and a  *)
(* VM that is lost stays lost.                                              *)
LEMMA EnvironmentFix ==
    ASSUME FixInv, Environment
    PROVE  FixInv'
<1>. USE DEF FixInv
<1>1. /\ UNCHANGED <<pc, caller, node, field, tries, ok, attempts, attempts_with_cleanup, starts,
                     result, inner_ok, v51>>
      /\ vm' \subseteq vm /\ data' \subseteq data /\ up' \subseteq up /\ sql' \subseteq sql
  BY DEF Environment, Disturb, ServerDies, DataCorrupted, VmLost, SlaveStops, LeftBlocked,
     LeftMisconfigured, SlaveConnects, checker, budget
<1>2. BudgetInv' /\ GivesUpForCause' /\ SuccessWithoutCheck'
  BY <1>1 DEF BudgetInv, GivesUpForCause, SuccessWithoutCheck
<1>3. slave' \in [Nodes -> Threads]
  <2>. USE ReplicationAssumption DEF TypeOK, Threads
  <2>1. ASSUME NEW S PROVE ThreadsWithout(S) \in [Nodes -> Threads]
    BY DEF ThreadsWithout
  <2>. QED BY <2>1 DEF Environment, ServerDies, DataCorrupted, VmLost, SlaveStops,
       LeftBlocked, LeftMisconfigured, SlaveConnects
<1>4. /\ closed' \subseteq Nodes /\ faults' \in Nat
      /\ read_only' \in BOOLEAN /\ disturbed' \in BOOLEAN
  <2>. USE DEF TypeOK, Disturb
  <2>1. ASSUME NEW n \in Nodes, LeftBlocked(n)
        PROVE  closed' \subseteq Nodes /\ faults' \in Nat
               /\ read_only' \in BOOLEAN /\ disturbed' \in BOOLEAN
    <3>1. closed' \subseteq Nodes /\ faults' \in Nat
      BY <2>1 DEF LeftBlocked
    <3>2. read_only' \in BOOLEAN /\ disturbed' \in BOOLEAN
      BY <2>1 DEF LeftBlocked
    <3>. QED BY <3>1, <3>2
  <2>2. CASE LeftMisconfigured
    <3>1. closed' \subseteq Nodes /\ faults' \in Nat
      BY <2>2 DEF LeftMisconfigured
    <3>2. read_only' \in BOOLEAN /\ disturbed' \in BOOLEAN
      BY <2>2 DEF LeftMisconfigured
    <3>. QED BY <3>1, <3>2
  <2>3. ASSUME NEW n \in Nodes, SlaveConnects(n)
        PROVE  UNCHANGED <<closed, faults, read_only, disturbed>>
    BY <2>3 DEF SlaveConnects
  <2>4. ASSUME NEW n \in Nodes,
               ServerDies(n) \/ DataCorrupted(n) \/ VmLost(n) \/ SlaveStops(n)
        PROVE  UNCHANGED <<closed, read_only>> /\ faults' \in Nat /\ disturbed' \in BOOLEAN
    <3>1. UNCHANGED <<closed, read_only>> /\ faults' \in Nat
      BY <2>4 DEF ServerDies, DataCorrupted, VmLost, SlaveStops
    <3>2. disturbed' \in BOOLEAN
      BY <2>4 DEF ServerDies, DataCorrupted, VmLost, SlaveStops
    <3>. QED BY <3>1, <3>2
  <2>5. ASSUME UNCHANGED <<closed, faults, read_only, disturbed>>
        PROVE  closed' \subseteq Nodes /\ faults' \in Nat
               /\ read_only' \in BOOLEAN /\ disturbed' \in BOOLEAN
    BY <2>5
  <2>6. ASSUME UNCHANGED <<closed, read_only>>
        PROVE  closed' \subseteq Nodes /\ read_only' \in BOOLEAN
    BY <2>6
  <2>. HIDE DEF TypeOK, Disturb, FixInv
  <2>. QED BY <2>1, <2>2, <2>3, <2>4, <2>5, <2>6 DEF Environment
<1>5. TypeOK'
  BY <1>1, <1>3, <1>4 DEF TypeOK
<1>. QED BY <1>2, <1>5

LEMMA CheckFix ==
    ASSUME FixInv, CheckConnect \/ CheckMaster \/ bad_slave_thread_status
    PROVE  FixInv'
<1>. USE DEF FixInv
<1>1. /\ UNCHANGED <<cluster, faults, budget, result, inner_ok, disturbed, caller>>
      /\ pc \in {"connect", "node"} /\ pc' \in {"connect", "node", "decide"}
      /\ node' \in Nodes /\ tries' \in {0, 1} /\ field' \in {"IO", "SQL"} /\ ok' \in BOOLEAN
  BY DEF CheckConnect, CheckMaster, bad_slave_thread_status, LookAtSql, SqlStatus, Checked,
     NextNode, checker, TypeOK
<1>2. TypeOK'
  BY <1>1 DEF TypeOK, cluster, budget, Steps
<1>3. BudgetInv'
  BY <1>1 DEF BudgetInv, budget
<1>4. GivesUpForCause' /\ SuccessWithoutCheck'
  BY <1>1 DEF BudgetInv, GivesUpForCause, SuccessWithoutCheck
<1>. QED BY <1>2, <1>3, <1>4

LEMMA NodeZero == 0 \in Nodes
BY ReplicationAssumption DEF Nodes

LEMMA NextFix ==
    ASSUME FixInv, [Next]_vars
    PROVE  FixInv'
<1>. USE NodeZero DEF FixInv, cluster, checker, budget
<1>. USE DEF TypeOK, BudgetInv, GivesUpForCause, SuccessWithoutCheck
<1>1. CASE Environment
  BY <1>1, EnvironmentFix
<1>2. CASE CheckConnect \/ CheckMaster \/ bad_slave_thread_status
  BY <1>2, CheckFix
<1>3. CASE FirstCheck
  BY <1>3 DEF FirstCheck, Returns, Steps
<1>4. CASE unblock_all_nodes
  BY <1>4 DEF unblock_all_nodes, Steps
<1>5. CASE check_nodes
  <2>. USE <1>5 DEF check_nodes, check_node_ssh, Steps
  <2>1. CASE 0 \in vm
    <3>1. disturbed' \in BOOLEAN
      BY <2>1 DEF Check
    <3>. QED BY <2>1, <3>1 DEF Check
  <2>2. CASE 0 \notin vm
    BY <2>2 DEF Returns
  <2>. QED BY <2>1, <2>2
<1>6. CASE LoopHead
  BY <1>6 DEF LoopHead, Returns, Steps
<1>7. CASE InnerCheck
  <2>. USE <1>7 DEF InnerCheck, Steps
  <2>1. CASE ok
    <3>1. disturbed' \in BOOLEAN /\ inner_ok' \in BOOLEAN
      BY <2>1 DEF Check
    <3>2. /\ pc' = "connect" /\ caller' = "head" /\ node' = 0 /\ field' = "IO" /\ tries' = 0 /\ inner_ok'
          /\ caller = "inner" /\ pc = "decide"
          /\ UNCHANGED <<ok, result, cluster, faults, budget>>
      BY <2>1 DEF Check
    <3>3. TypeOK'
      BY <3>1, <3>2
    <3>4. BudgetInv' /\ GivesUpForCause' /\ SuccessWithoutCheck'
      BY <3>2
    <3>. QED BY <3>3, <3>4
  <2>2. CASE ~ok /\ attempts_with_cleanup > 0
    <3>1. /\ pc' = "stop_clean" /\ caller = "inner" /\ pc = "decide"
          /\ UNCHANGED <<checker, result, disturbed, cluster, faults, budget>>
      BY <2>2
    <3>2. inner_ok' \in BOOLEAN
      OBVIOUS
    <3>3. TypeOK'
      BY <3>1, <3>2
    <3>4. BudgetInv' /\ GivesUpForCause' /\ SuccessWithoutCheck'
      BY <2>2, <3>1
    <3>. QED BY <3>3, <3>4
  <2>3. CASE ~ok /\ attempts_with_cleanup = 0
    BY <2>3 DEF Returns
  <2>. QED BY <2>1, <2>2, <2>3
<1>8. CASE stop_nodes
  <2>1. slave' \in [Nodes -> Threads] /\ sql' \subseteq Nodes
    BY <1>8 DEF stop_nodes, ThreadsWithout, Threads
  <2>. QED BY <1>8, <2>1 DEF stop_nodes, Steps
<1>9. CASE cleanup_db_nodes
  BY <1>9 DEF cleanup_db_nodes, Steps
<1>10. CASE start_replication \/ start_after_cleanup
  <2>1. /\ slave' \in [Nodes -> Threads] /\ up' \subseteq Nodes /\ sql' \subseteq Nodes
        /\ read_only' \in BOOLEAN /\ starts' = starts + 1
        /\ UNCHANGED <<v51, vm, data, closed, faults, result, inner_ok>>
    BY <1>10 DEF start_replication, start_after_cleanup, StartReplication, Threads
  <2>2. CASE start_replication
    <3>1. /\ pc = "start" /\ pc' = "connect" /\ node' = 0 /\ field' = "IO" /\ tries' = 0
          /\ disturbed' = FALSE /\ ok' = ok /\ attempts' = attempts - 1
          /\ attempts_with_cleanup' = attempts_with_cleanup
          /\ caller' = IF attempts' = 0 THEN "inner" ELSE "head"
      BY <2>2 DEF start_replication, Check
    <3>2. TypeOK'
      <4>1. disturbed' \in BOOLEAN
        BY <3>1
      <4>. QED BY <2>1, <3>1, <4>1 DEF Steps
    <3>3. BudgetInv' /\ GivesUpForCause' /\ SuccessWithoutCheck'
      BY <2>1, <3>1
    <3>. QED BY <3>2, <3>3
  <2>3. CASE start_after_cleanup
    <3>1. /\ pc = "start_clean" /\ pc' = "connect" /\ node' = 0 /\ field' = "IO" /\ tries' = 0
          /\ disturbed' = FALSE /\ ok' = ok /\ caller' = "head"
          /\ UNCHANGED <<attempts, attempts_with_cleanup>>
      BY <2>3 DEF start_after_cleanup, Check
    <3>2. TypeOK'
      <4>1. disturbed' \in BOOLEAN
        BY <3>1
      <4>. QED BY <2>1, <3>1, <4>1 DEF Steps
    <3>3. BudgetInv' /\ GivesUpForCause' /\ SuccessWithoutCheck'
      BY <2>1, <3>1
    <3>. QED BY <3>2, <3>3
  <2>. QED BY <1>10, <2>2, <2>3
<1>11. CASE UNCHANGED vars
  BY <1>11 DEF vars
<1>. QED BY <1>1, <1>2, <1>3, <1>4, <1>5, <1>6, <1>7, <1>8, <1>9, <1>10, <1>11
         DEF Next, fix_replication, Returned

LEMMA FixInvariant == Spec => []FixInv
BY InitFix, NextFix, PTL DEF Spec

(* Types of the cluster and of the control state of fix_replication; the    *)
(* counters of attempts and of cleanups stay within 0..2.                   *)
THEOREM ReplicationTypes == Spec => []TypeOK
<1>1. FixInv => TypeOK
  BY DEF FixInv
<1>. QED BY <1>1, FixInvariant, PTL

(* fix_replication starts the setup at most eight times, for every number   *)
(* of nodes and whatever breaks while it works.                             *)
THEOREM AtMostEightStarts == Spec => []RestartsBounded
<1>1. FixInv => RestartsBounded
  BY DEF FixInv, TypeOK, BudgetInv, RestartsBounded
<1>. QED BY <1>1, FixInvariant, PTL

(* When fix_replication answers false, node 0 could not be reached, or all  *)
(* attempts and cleanups were spent and the last check failed.              *)
THEOREM FalseForCause == Spec => []GivesUpForCause
<1>1. FixInv => GivesUpForCause
  BY DEF FixInv
<1>. QED BY <1>1, FixInvariant, PTL

(* When it answers true and its last check failed, the check just before    *)
(* that one had passed and the attempts were spent.                         *)
THEOREM TrueForCause == Spec => []SuccessWithoutCheck
<1>1. FixInv => SuccessWithoutCheck
  BY DEF FixInv
<1>. QED BY <1>1, FixInvariant, PTL

-----------------------------------------------------------------------------
(* check_replication walks over the nodes; what it has seen stays true as   *)
(* long as nothing breaks.                                                  *)

Seen ==
    /\ \A n \in Nodes : Reachable(n)
    /\ node # 0 => slave[0] = "none" /\ ~read_only
    /\ \A n \in Slaves : n < node => slave[n] = "Yes" /\ n \in sql
    /\ field = "SQL" => slave[node] = "Yes"

SoundInv ==
    /\ pc = "connect" => node = 0 /\ field = "IO"
    /\ pc = "node" /\ ~disturbed => Seen
    /\ CheckIsSound

LEMMA LastNode ==
    ASSUME TypeOK, node + 1 \notin Nodes
    PROVE  \A n \in Slaves : n < node + 1
BY ReplicationAssumption DEF TypeOK, Nodes, Slaves

LEMMA NextNodeSound ==
    ASSUME TypeOK, NextNode, Seen, UNCHANGED <<cluster, disturbed>>, pc = "node",
           slave[0] = "none", ~read_only, node # 0 => slave[node] = "Yes" /\ node \in sql
    PROVE  SoundInv'
<1>. USE DEF SoundInv, CheckIsSound, cluster, Reachable
<1>1. \A n \in Slaves : n < node + 1 => slave[n] = "Yes" /\ n \in sql
  BY DEF Seen, TypeOK, Nodes, Slaves
<1>2. CASE node + 1 \in Nodes
  <2>1. pc' = "node" /\ node' = node + 1 /\ field' = "IO"
    BY <1>2 DEF NextNode
  <2>2. Seen'
    BY <1>1, <2>1 DEF Seen
  <2>. QED BY <2>1, <2>2
<1>3. CASE node + 1 \notin Nodes
  <2>1. pc' = "decide"
    BY <1>3 DEF NextNode, Checked
  <2>2. Healthy'
    BY <1>1, <1>3, LastNode DEF Healthy, Seen
  <2>. QED BY <2>1, <2>2
<1>. QED BY <1>2, <1>3

LEMMA NextSound ==
    ASSUME FixInv, SoundInv, [Next]_vars
    PROVE  SoundInv'
<1>. USE DEF FixInv, cluster, checker
<1>1. CASE Environment
  <2>1. ASSUME NEW n \in Nodes, SlaveConnects(n) PROVE SoundInv'
    BY <2>1 DEF SlaveConnects, SoundInv, CheckIsSound, Seen, Healthy, Reachable, TypeOK, Slaves
  <2>2. ASSUME Disturb PROVE SoundInv'
    BY <2>2 DEF Disturb, SoundInv, CheckIsSound
  <2>. QED BY <1>1, <2>1, <2>2 DEF Environment, ServerDies, DataCorrupted, VmLost, SlaveStops,
       LeftBlocked, LeftMisconfigured
<1>2. CASE CheckConnect
  BY <1>2 DEF CheckConnect, Checked, SoundInv, CheckIsSound, Seen, Healthy, Reachable, Slaves,
     Nodes, TypeOK
<1>3. CASE CheckMaster
  <2>1. CASE check_master_node /\ ~disturbed
    <3>1. NextNode /\ Seen /\ UNCHANGED <<cluster, disturbed>> /\ pc = "node"
          /\ slave[0] = "none" /\ ~read_only /\ node = 0
      BY <1>3, <2>1 DEF CheckMaster, check_master_node, SoundInv
    <3>. QED BY <3>1, NextNodeSound
  <2>2. CASE check_master_node /\ disturbed
    BY <1>3, <2>2 DEF CheckMaster, NextNode, Checked, SoundInv, CheckIsSound
  <2>3. CASE ~check_master_node
    BY <1>3, <2>3 DEF CheckMaster, Checked, SoundInv, CheckIsSound
  <2>. QED BY <2>1, <2>2, <2>3 DEF TypeOK
<1>4. CASE bad_slave_thread_status
  <2>. USE <1>4 DEF bad_slave_thread_status
  <2>1. CASE SqlStatus /\ node \in up /\ node \in sql /\ ~disturbed
    <3>1. NextNode /\ Seen /\ UNCHANGED <<cluster, disturbed>> /\ pc = "node" /\ node # 0
      BY <2>1 DEF SoundInv, SqlStatus
    <3>2. slave[0] = "none" /\ ~read_only /\ slave[node] = "Yes"
      BY <2>1, <3>1 DEF Seen, SqlStatus
    <3>. QED BY <2>1, <3>1, <3>2, NextNodeSound
  <2>2. CASE SqlStatus /\ disturbed
    BY <2>2 DEF SqlStatus, NextNode, Checked, SoundInv, CheckIsSound
  <2>3. CASE SqlStatus /\ ~(node \in up /\ node \in sql)
    BY <2>3 DEF SqlStatus, Checked, SoundInv, CheckIsSound
  <2>4. CASE LookAtSql /\ slave[node] = "Yes"
    BY <2>4 DEF LookAtSql, SoundInv, CheckIsSound, Seen, Reachable
  <2>5. CASE ~SqlStatus /\ ~(node \in up /\ slave[node] = "Yes")
    BY <2>5 DEF Checked, SoundInv, CheckIsSound, Seen, Reachable
  <2>. QED BY <2>1, <2>2, <2>3, <2>4, <2>5 DEF TypeOK
<1>5. CASE check_nodes \/ InnerCheck \/ start_replication \/ start_after_cleanup
  BY <1>5 DEF check_nodes, InnerCheck, start_replication, start_after_cleanup, Check, Returns,
     SoundInv, CheckIsSound
<1>6. CASE FirstCheck \/ LoopHead
  BY <1>6 DEF FirstCheck, LoopHead, Returns, SoundInv, CheckIsSound
<1>7. CASE unblock_all_nodes \/ stop_nodes \/ cleanup_db_nodes
  BY <1>7 DEF unblock_all_nodes, stop_nodes, cleanup_db_nodes, SoundInv, CheckIsSound
<1>8. CASE UNCHANGED vars
  BY <1>8 DEF vars, SoundInv, CheckIsSound, Seen, Healthy, Reachable
<1>. QED BY <1>1, <1>2, <1>3, <1>4, <1>5, <1>6, <1>7, <1>8 DEF Next, fix_replication, Returned

(* A check_replication that nothing disturbs accepts only a setup whose     *)
(* every server is reachable, whose master is writable and nobody's slave,  *)
(* and whose every slave has its threads running.                           *)
THEOREM CheckAcceptsOnlyHealthy == Spec => []CheckIsSound
<1>1. Init => SoundInv
  BY DEF Init, SoundInv, CheckIsSound
<1>2. SoundInv => CheckIsSound
  BY DEF SoundInv
<1>. QED BY <1>1, <1>2, NextSound, FixInvariant, PTL DEF Spec
=============================================================================
