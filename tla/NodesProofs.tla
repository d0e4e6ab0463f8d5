----------------------------- MODULE NodesProofs -----------------------------
(* Proofs about Mariadb_nodes: Firewall, for every number of nodes, calls,   *)
(* failing commands and rules of others, and SyncSlaves, for every number of *)
(* slaves and every length of the log.                                       *)
EXTENDS Firewall, SyncSlaves, WellFoundedInduction, TLAPS

(* The type invariant in the parts that different provers are good at. *)
Chains == chain \in [Nodes -> [Families -> Seq(Rules)]]
Places == script \in [Nodes -> SUBSET Families] /\ runnable \subseteq Nodes /\ failed \subseteq Nodes
Flags  == blocked \in [Nodes -> BOOLEAN] /\ gone \in BOOLEAN
Words  == /\ op \in {"none", "block", "unblock"} /\ loop \in {"none", "all", "destructor"}
          /\ last \in [Nodes -> {"none", "block", "unblock"}]
Counts == /\ node \in Nodes /\ step \in 1..8
          /\ calls \in Nat /\ failures \in Nat /\ others \in Nat

FirewallTypes == Chains /\ Places /\ Flags /\ Words /\ Counts

(* Node n is not the one a call is working on. *)
AtRest(n) == op = "none" \/ n # node

(* The flag of a node that no call is working on is right, unless a command *)
(* of its last call has failed.                                             *)
Agrees ==
    \A n \in Nodes \ failed, f \in Families : AtRest(n) => (Rejects(n, f) <=> blocked[n])

(* The rules that the call under way has already inserted decide. *)
Decided ==
    op # "none" /\ node \notin failed =>
        /\ step > 6 => (Rejects(node, "iptables") <=> op = "block")
        /\ step > 7 => (Rejects(node, "ip6tables") <=> op = "block")

(* The flag tells the last call of the node; only calls fail. *)
Remembered ==
    /\ \A n \in Nodes : AtRest(n) => (blocked[n] <=> last[n] = "block")
    /\ op # "none" => last[node] = op
    /\ \A n \in failed : last[n] # "none"

(* The destructor has unblocked the nodes that it has passed. *)
Passed ==
    /\ loop = "destructor" => op = "unblock" /\ \A m \in Nodes : m < node => ~blocked[m]
    /\ gone => op = "none" /\ \A m \in Nodes : ~blocked[m]

FirewallInv == FirewallTypes /\ Agrees /\ Decided /\ Remembered /\ Passed

-----------------------------------------------------------------------------
(* Facts about chains of rules. *)

(* What Rejects says of one chain. *)
Rejecting(c) ==
    \E i \in 1..Len(c) : c[i] = "REJECT" /\ \A j \in 1..(i - 1) : c[j] = "other"

(* A rule in front of a chain shifts the others by one. *)
LEMMA InFront ==
    ASSUME NEW c \in Seq(Rules), NEW r \in Rules
    PROVE  LET d == <<r>> \o c
           IN  /\ d \in Seq(Rules) /\ Len(d) = Len(c) + 1
               /\ d[1] = r
               /\ \A i \in 1..Len(c) : d[i + 1] = c[i]
OBVIOUS

(* A rule for another port changes nothing. *)
LEMMA OtherInFront ==
    ASSUME NEW c \in Seq(Rules)
    PROVE  Rejecting(<<"other">> \o c) <=> Rejecting(c)
<1>. DEFINE d == <<"other">> \o c
<1>1. /\ Len(d) = Len(c) + 1 /\ Len(c) \in Nat
      /\ d[1] = "other"
      /\ \A i \in 1..Len(c) : d[i + 1] = c[i]
  BY InFront DEF Rules
<1>. HIDE DEF d
<1>2. ASSUME Rejecting(c) PROVE Rejecting(d)
  <2>1. PICK i \in 1..Len(c) : c[i] = "REJECT" /\ \A j \in 1..(i - 1) : c[j] = "other"
    BY <1>2 DEF Rejecting
  <2>2. i + 1 \in 1..Len(d) /\ d[i + 1] = "REJECT"
    BY <1>1, <2>1
  <2>3. ASSUME NEW j \in 1..((i + 1) - 1) PROVE d[j] = "other"
    <3>1. CASE j = 1
      BY <1>1, <3>1
    <3>2. CASE j # 1
      <4>1. j - 1 \in 1..(i - 1) /\ j - 1 \in 1..Len(c) /\ (j - 1) + 1 = j
        BY <2>1, <3>2
      <4>. QED BY <1>1, <2>1, <4>1
    <3>. QED BY <3>1, <3>2
  <2>. QED BY <2>2, <2>3 DEF Rejecting
<1>3. ASSUME Rejecting(d) PROVE Rejecting(c)
  <2>1. PICK i \in 1..Len(d) : d[i] = "REJECT" /\ \A j \in 1..(i - 1) : d[j] = "other"
    BY <1>3 DEF Rejecting
  <2>2. i # 1
    BY <1>1, <2>1
  <2>3. i - 1 \in 1..Len(c) /\ (i - 1) + 1 = i
    BY <1>1, <2>1, <2>2
  <2>4. c[i - 1] = "REJECT"
    BY <1>1, <2>1, <2>3
  <2>5. ASSUME NEW j \in 1..((i - 1) - 1) PROVE c[j] = "other"
    <3>1. j \in 1..Len(c) /\ j + 1 \in 1..(i - 1)
      BY <2>1, <2>3
    <3>. QED BY <1>1, <2>1, <3>1
  <2>. QED BY <2>3, <2>4, <2>5 DEF Rejecting
<1>. QED BY <1>2, <1>3 DEF d

(* A rule for the port in front decides. *)
LEMMA TargetInFront ==
    ASSUME NEW c \in Seq(Rules), NEW r \in PortRules
    PROVE  Rejecting(<<r>> \o c) <=> r = "REJECT"
<1>. DEFINE d == <<r>> \o c
<1>1. Len(d) = Len(c) + 1 /\ Len(c) \in Nat /\ d[1] = r
  BY InFront DEF Rules
<1>. HIDE DEF d
<1>2. ASSUME r = "REJECT" PROVE Rejecting(d)
  <2>1. 1 \in 1..Len(d) /\ d[1] = "REJECT" /\ \A j \in 1..(1 - 1) : d[j] = "other"
    BY <1>1, <1>2
  <2>. QED BY <2>1 DEF Rejecting
<1>3. ASSUME Rejecting(d) PROVE r = "REJECT"
  <2>1. PICK i \in 1..Len(d) : d[i] = "REJECT" /\ \A j \in 1..(i - 1) : d[j] = "other"
    BY <1>3 DEF Rejecting
  <2>2. CASE i = 1
    BY <1>1, <2>1, <2>2
  <2>3. CASE i # 1
    <3>1. 1 \in 1..(i - 1)
      BY <2>1, <2>3
    <3>2. d[1] = "other"
      BY <2>1, <3>1
    <3>. QED BY <1>1, <3>2 DEF PortRules
  <2>. QED BY <2>2, <2>3
<1>. QED BY <1>2, <1>3 DEF d

(* A nonempty set of natural numbers has a least element. *)
LEMMA Least ==
    ASSUME NEW S \in SUBSET Nat, S # {}
    PROVE  \E n \in S : \A m \in S : n <= m
<1>. DEFINE Below == OpToRel(<, Nat)
<1>1. IsWellFoundedOn(Below, Nat)
  BY NatLessThanWellFounded
<1>2. \A x, y \in Nat : x < y => <<x, y>> \in Below
  BY DEF OpToRel
<1>. HIDE DEF Below
<1>3. PICK n \in S : \A m \in S : ~(<<m, n>> \in Below)
  BY <1>1, WFMin
<1>4. \A m \in S : n <= m
  <2>. SUFFICES ASSUME NEW m \in S, ~(n <= m) PROVE FALSE
    OBVIOUS
  <2>1. m < n /\ m \in Nat /\ n \in Nat
    OBVIOUS
  <2>2. <<m, n>> \in Below
    BY <1>2, <2>1
  <2>. QED BY <1>3, <2>2
<1>. QED BY <1>4

LEMMA LowestIsLeast ==
    ASSUME NEW S \in SUBSET Nodes, S # {}
    PROVE  Lowest(S) \in S /\ \A m \in S : Lowest(S) <= m
<1>1. S \in SUBSET Nat
  BY FirewallAssumption DEF Nodes
<1>2. \E n \in S : \A m \in S : n <= m
  BY <1>1, Least
<1>. QED BY <1>2 DEF Lowest

(* clean_iptables.sh leaves a chain of rules. *)
LEMMA StrippedIsChain ==
    ASSUME NEW c \in Seq(Rules)
    PROVE  Stripped(c) \in Seq(Rules)
<1>. DEFINE keep == {i \in 1..Len(c) : c[i] = "other"}
<1>1. CASE keep = {}
  BY <1>1 DEF Stripped
<1>2. CASE keep # {}
  <2>. DEFINE k == CHOOSE i \in keep : \A j \in keep : i <= j
  <2>1. keep \in SUBSET Nat /\ Len(c) \in Nat
    OBVIOUS
  <2>. HIDE DEF keep
  <2>2. k \in keep
    BY <1>2, <2>1, Least
  <2>. USE DEF keep
  <2>3. k \in 1..Len(c)
    BY <2>2
  <2>. HIDE DEF k
  <2>4. SubSeq(c, k, Len(c)) \in Seq(Rules)
    BY <2>1, <2>3
  <2>5. Stripped(c) = SubSeq(c, k, Len(c))
    BY <1>2 DEF Stripped, k
  <2>. QED BY <2>4, <2>5
<1>. QED BY <1>1, <1>2

-----------------------------------------------------------------------------
(* The inductive invariant. *)

LEMMA TypeParts == FirewallTypes => TypeOK
<1>1. Len(Commands) + 1 = 8
  BY DEF Commands
<1>. QED BY <1>1 DEF FirewallTypes, TypeOK, Chains, Places, Flags, Words, Counts

LEMMA InitFirewall == Init => FirewallInv
<1>. SUFFICES ASSUME Init PROVE FirewallInv
  OBVIOUS
<1>. USE FirewallAssumption DEF Init
<1>1. Chains
  BY DEF Chains
<1>2. Places /\ Words /\ Counts
  BY DEF Places, Words, Counts, Nodes
<1>3. Flags
  BY Zenon DEF Flags
<1>4. ASSUME NEW n \in Nodes, NEW f \in Families PROVE ~Rejects(n, f)
  <2>1. Len(chain[n][f]) = 0
    OBVIOUS
  <2>. QED BY <2>1 DEF Rejects
<1>5. Agrees /\ Decided /\ Remembered /\ Passed
  BY <1>4 DEF Agrees, Decided, Remembered, Passed
<1>. QED BY <1>1, <1>2, <1>3, <1>5 DEF FirewallInv, FirewallTypes

(* A call of the test starts. *)
LEMMA CallStarts ==
    ASSUME FirewallInv, NEW o \in {"block", "unblock"}, NEW n \in Nodes, NEW l \in {"none", "all"},
           TestCalls, Call(o, n, l), UNCHANGED <<remote, blocked, failures, others, gone>>
    PROVE  FirewallInv'
<1>. USE FirewallAssumption DEF FirewallInv, remote
<1>0. Chains /\ Places /\ Flags /\ Words /\ Counts
  BY DEF FirewallTypes
<1>1. Chains' /\ Places'
  BY <1>0 DEF Chains, Places, Call
<1>2. Flags'
  BY <1>0 DEF Flags
<1>3. Words'
  BY <1>0 DEF Words, Call
<1>4. Counts'
  BY <1>0 DEF Counts, Call, TestCalls
<1>5. \A m \in Nodes, f \in Families : Rejects(m, f)' <=> Rejects(m, f)
  BY DEF Rejects
<1>6. op = "none" /\ ~gone /\ op' # "none" /\ node' = n /\ step' = 1 /\ failed' = failed \ {n}
  BY DEF TestCalls, Call
<1>7. Agrees'
  BY <1>5, <1>6 DEF Agrees, AtRest
<1>8. Decided'
  BY <1>6 DEF Decided
<1>9. Remembered'
  BY <1>0, <1>6 DEF Remembered, AtRest, Call, Words, Places
<1>10. Passed'
  BY <1>6 DEF Passed, Call
<1>. QED BY <1>1, <1>2, <1>3, <1>4, <1>7, <1>8, <1>9, <1>10 DEF FirewallTypes

(* A command changes the chains of its own node only. *)
LEMMA EffectIsLocal ==
    ASSUME Chains, Places, Counts, NEW c, Effect(c)
    PROVE  /\ chain' \in [Nodes -> [Families -> Seq(Rules)]]
           /\ script' \in [Nodes -> SUBSET Families] /\ runnable' \subseteq Nodes
           /\ \A m \in Nodes \ {node} : chain'[m] = chain[m]
<1>. USE DEF Chains, Places, Counts
<1>1. CASE c \in {"header", "append", "append6"}
  BY <1>1 DEF Effect, Families
<1>2. CASE c = "chmod"
  BY <1>2 DEF Effect
<1>3. CASE c = "run"
  <2>. DEFINE new == [f \in Families |-> IF f \in script[node] THEN Stripped(chain[node][f])
                                                             ELSE chain[node][f]]
  <2>1. chain' = [chain EXCEPT ![node] = new] /\ UNCHANGED <<script, runnable>>
    BY <1>3 DEF Effect
  <2>2. \A f \in Families : chain[node][f] \in Seq(Rules)
    OBVIOUS
  <2>3. new \in [Families -> Seq(Rules)]
    BY <2>2, StrippedIsChain
  <2>. HIDE DEF new
  <2>. QED BY <2>1, <2>3
<1>4. CASE c \in {"rule", "rule6"}
  <2>1. PICK f \in Families : chain' = Insert(f) /\ UNCHANGED <<script, runnable>>
    BY <1>4 DEF Effect, Families
  <2>2. chain[node] \in [Families -> Seq(Rules)] /\ chain[node][f] \in Seq(Rules)
    OBVIOUS
  <2>3. <<Target>> \o chain[node][f] \in Seq(Rules)
    BY <2>2, InFront DEF Target, Rules, PortRules
  <2>. DEFINE new == [chain[node] EXCEPT ![f] = <<Target>> \o @]
  <2>4. new \in [Families -> Seq(Rules)]
    BY <2>2, <2>3
  <2>5. chain' = [chain EXCEPT ![node] = new]
    BY <2>1 DEF Insert
  <2>. HIDE DEF new
  <2>. QED BY <2>1, <2>4, <2>5
<1>. QED BY <1>1, <1>2, <1>3, <1>4 DEF Effect

(* The rule that a call inserts decides for its family, and the other      *)
(* family keeps its chain.                                                 *)
LEMMA InsertDecides ==
    ASSUME Chains, Counts, Words, op # "none", NEW f \in Families, chain' = Insert(f)
    PROVE  /\ Rejecting(chain'[node][f]) <=> op = "block"
           /\ \A g \in Families \ {f} : chain'[node][g] = chain[node][g]
<1>. USE DEF Chains, Counts, Words
<1>1. chain[node] \in [Families -> Seq(Rules)] /\ chain[node][f] \in Seq(Rules)
  OBVIOUS
<1>2. chain'[node] = [chain[node] EXCEPT ![f] = <<Target>> \o @]
  BY DEF Insert
<1>3. chain'[node][f] = <<Target>> \o chain[node][f]
  BY <1>1, <1>2
<1>4. Target \in PortRules /\ (Target = "REJECT" <=> op = "block")
  BY DEF Target, PortRules
<1>5. Rejecting(chain'[node][f]) <=> op = "block"
  BY <1>1, <1>3, <1>4, TargetInFront
<1>6. \A g \in Families \ {f} : chain'[node][g] = chain[node][g]
  BY <1>1, <1>2
<1>. QED BY <1>5, <1>6

(* A command of the call under way is sent. *)
LEMMA CommandSent == FirewallInv /\ ssh_node => FirewallInv'
<1>. SUFFICES ASSUME FirewallInv, ssh_node PROVE FirewallInv'
  OBVIOUS
<1>. USE FirewallAssumption DEF FirewallInv
<1>0. Chains /\ Places /\ Flags /\ Words /\ Counts
  BY DEF FirewallTypes
<1>1. /\ op # "none" /\ step \in 1..7 /\ step' = step + 1
      /\ UNCHANGED <<blocked, op, loop, node, last, calls, others, gone>>
  BY DEF ssh_node, Commands
<1>2. \/ Effect(Commands[step]) /\ UNCHANGED <<failed, failures>>
      \/ /\ failures' \in {failures, failures + 1}
         /\ failed' = failed \cup {node}
         /\ Effect(Commands[step]) \/ UNCHANGED remote
  BY DEF ssh_node
<1>3. /\ chain' \in [Nodes -> [Families -> Seq(Rules)]]
      /\ script' \in [Nodes -> SUBSET Families] /\ runnable' \subseteq Nodes
      /\ \A m \in Nodes \ {node} : chain'[m] = chain[m]
  <2>1. CASE Effect(Commands[step])
    BY <1>0, <2>1, EffectIsLocal
  <2>2. CASE UNCHANGED remote
    BY <1>0, <2>2 DEF remote, Chains, Places
  <2>. QED BY <1>2, <2>1, <2>2
<1>4. (Chains /\ Places)'
  BY <1>0, <1>2, <1>3 DEF Chains, Places, Counts
<1>5. (Words /\ Counts)'
  BY <1>0, <1>1, <1>2 DEF Words, Counts
<1>6. Flags'
  BY <1>0, <1>1 DEF Flags
<1>7. failed \subseteq failed' /\ failed' \subseteq failed \cup {node}
  BY <1>2
<1>8. Agrees'
  <2>1. \A m \in Nodes \ {node}, f \in Families : Rejects(m, f)' <=> Rejects(m, f)
    BY <1>3 DEF Rejects
  <2>. QED BY <1>1, <1>7, <2>1 DEF Agrees, AtRest
<1>9. Decided'
  <2>. SUFFICES ASSUME node \notin failed'
                PROVE  /\ step' > 6 => (Rejecting(chain'[node]["iptables"]) <=> op = "block")
                       /\ step' > 7 => (Rejecting(chain'[node]["ip6tables"]) <=> op = "block")
    BY <1>1 DEF Decided, Rejects, Rejecting
  <2>1. Effect(Commands[step]) /\ node \notin failed
    BY <1>2
  <2>2. CASE step \in 1..5
    BY <1>1, <2>2
  <2>3. CASE step = 6
    <3>1. chain' = Insert("iptables")
      BY <2>1, <2>3 DEF Effect, Commands
    <3>2. Rejecting(chain'[node]["iptables"]) <=> op = "block"
      BY <1>0, <1>1, <3>1, InsertDecides DEF Families
    <3>. QED BY <1>1, <2>3, <3>2
  <2>4. CASE step = 7
    <3>1. chain' = Insert("ip6tables")
      BY <2>1, <2>4 DEF Effect, Commands
    <3>2. /\ Rejecting(chain'[node]["ip6tables"]) <=> op = "block"
          /\ chain'[node]["iptables"] = chain[node]["iptables"]
      BY <1>0, <1>1, <3>1, InsertDecides DEF Families
    <3>3. Rejecting(chain[node]["iptables"]) <=> op = "block"
      BY <1>1, <2>1, <2>4 DEF Decided, Rejects, Rejecting
    <3>. QED BY <3>2, <3>3
  <2>. QED BY <1>1, <2>2, <2>3, <2>4
<1>10. Remembered'
  BY <1>0, <1>1, <1>7 DEF Remembered, AtRest, Words
<1>11. Passed'
  BY <1>1 DEF Passed
<1>. QED BY <1>4, <1>5, <1>6, <1>8, <1>9, <1>10, <1>11 DEF FirewallTypes

(* The last statement of a call, and the next call of its loop. *)
LEMMA CallEnds == FirewallInv /\ Ends => FirewallInv'
<1>. SUFFICES ASSUME FirewallInv, Ends PROVE FirewallInv'
  OBVIOUS
<1>. USE FirewallAssumption DEF FirewallInv
<1>0. Chains /\ Places /\ Flags /\ Words /\ Counts
  BY DEF FirewallTypes
<1>1. /\ op # "none" /\ step = 8
      /\ blocked' = [blocked EXCEPT ![node] = (op = "block")]
      /\ gone' = (loop = "destructor" /\ Ahead(loop, node) = {})
      /\ UNCHANGED <<remote, bounds>>
  BY DEF Ends, Commands
<1>2. (Chains /\ Flags)'
  <2>1. Chains'
    BY <1>0, <1>1 DEF Chains, remote
  <2>2. Flags'
    BY <1>0, <1>1, Zenon DEF Flags
  <2>. QED BY <2>1, <2>2
<1>3. \A m \in Nodes, f \in Families : Rejects(m, f)' <=> Rejects(m, f)
  BY <1>1 DEF Rejects, remote
<1>4. /\ blocked'[node] <=> op = "block"
      /\ \A m \in Nodes \ {node} : blocked'[m] = blocked[m]
  BY <1>0, <1>1 DEF Flags, Counts
<1>5. ASSUME NEW n \in Nodes \ failed, NEW f \in Families PROVE Rejects(n, f) <=> blocked'[n]
  <2>1. CASE n = node
    BY <1>1, <1>4, <1>5, <2>1 DEF Decided, Families
  <2>2. CASE n # node
    BY <1>4, <1>5, <2>2 DEF Agrees, AtRest
  <2>. QED BY <2>1, <2>2
<1>6. ASSUME NEW n \in Nodes PROVE blocked'[n] <=> last[n] = "block"
  <2>1. CASE n = node
    BY <1>1, <1>4, <2>1 DEF Remembered
  <2>2. CASE n # node
    BY <1>4, <2>2 DEF Remembered, AtRest
  <2>. QED BY <2>1, <2>2
<1>7. CASE loop # "none" /\ Ahead(loop, node) # {}
  <2>. DEFINE n == Lowest(Ahead(loop, node))
  <2>1. Call("unblock", n, loop)
    BY <1>7 DEF Ends
  <2>2. Ahead(loop, node) \in SUBSET Nodes
    BY DEF Ahead
  <2>3. n \in Ahead(loop, node) /\ \A m \in Ahead(loop, node) : n <= m
    BY <1>7, <2>2, LowestIsLeast
  <2>. HIDE DEF n
  <2>4. n \in Nodes /\ n > node
    BY <2>3 DEF Ahead
  <2>5. /\ op' = "unblock" /\ node' = n /\ loop' = loop /\ step' = 1 /\ failed' = failed \ {n}
        /\ last' = [last EXCEPT ![n] = "unblock"]
    BY <2>1 DEF Call
  <2>6. (Places /\ Words /\ Counts)'
    BY <1>0, <1>1, <2>4, <2>5 DEF Places, Words, Counts, remote, bounds
  <2>7. Agrees'
    BY <1>3, <1>5, <2>5 DEF Agrees, AtRest
  <2>8. Decided'
    BY <2>5 DEF Decided
  <2>9. Remembered'
    BY <1>0, <1>6, <2>4, <2>5 DEF Remembered, AtRest, Words, Places
  <2>10. ~gone'
    BY <1>1, <1>7
  <2>11. ASSUME loop = "destructor", NEW m \in Nodes, m < n PROVE ~blocked'[m]
    <3>1. CASE m < node
      BY <1>4, <2>11, <3>1 DEF Passed, Counts
    <3>2. CASE m = node
      BY <1>4, <2>11, <3>2 DEF Passed
    <3>3. CASE m > node
      <4>1. m \notin Ahead(loop, node)
        BY <2>3, <2>4, <2>11 DEF Nodes
      <4>2. ~blocked[m]
        BY <2>11, <3>3, <4>1 DEF Ahead
      <4>. QED BY <1>0, <1>4, <3>3, <4>2 DEF Counts, Nodes
    <3>. QED BY <1>0, <3>1, <3>2, <3>3 DEF Counts, Nodes
  <2>12. Passed'
    BY <2>5, <2>10, <2>11 DEF Passed
  <2>. QED BY <1>2, <2>6, <2>7, <2>8, <2>9, <2>12 DEF FirewallTypes
<1>8. CASE ~(loop # "none" /\ Ahead(loop, node) # {})
  <2>1. op' = "none" /\ loop' = "none" /\ step' = 1 /\ UNCHANGED <<node, failed, last>>
    BY <1>8 DEF Ends, Idle
  <2>2. (Places /\ Words /\ Counts)'
    BY <1>0, <1>1, <2>1 DEF Places, Words, Counts, remote, bounds
  <2>3. Agrees'
    BY <1>3, <1>5, <2>1 DEF Agrees
  <2>4. Decided'
    BY <2>1 DEF Decided
  <2>5. Remembered'
    BY <1>6, <2>1 DEF Remembered
  <2>6. ASSUME gone', NEW m \in Nodes PROVE ~blocked'[m]
    <3>1. loop = "destructor" /\ Ahead(loop, node) = {}
      BY <1>1, <2>6
    <3>2. CASE m < node
      BY <1>0, <1>4, <3>1, <3>2 DEF Passed, Counts, Nodes
    <3>3. CASE m = node
      BY <1>4, <3>1, <3>3 DEF Passed
    <3>4. CASE m > node
      <4>1. ~blocked[m]
        BY <3>1, <3>4 DEF Ahead
      <4>. QED BY <1>0, <1>4, <3>4, <4>1 DEF Counts, Nodes
    <3>. QED BY <1>0, <3>2, <3>3, <3>4 DEF Counts, Nodes
  <2>7. Passed'
    BY <2>1, <2>6 DEF Passed
  <2>. QED BY <1>2, <2>2, <2>3, <2>4, <2>5, <2>7 DEF FirewallTypes
<1>. QED BY <1>7, <1>8

(* The destructor starts with the lowest node that is blocked, or ends. *)
LEMMA Destroyed == FirewallInv /\ Destructor => FirewallInv'
<1>. SUFFICES ASSUME FirewallInv, Destructor PROVE FirewallInv'
  OBVIOUS
<1>. USE FirewallAssumption DEF FirewallInv
<1>0. Chains /\ Places /\ Flags /\ Words /\ Counts
  BY DEF FirewallTypes
<1>. DEFINE todo == Ahead("destructor", -1)
<1>1. op = "none" /\ ~gone /\ UNCHANGED <<remote, blocked, bounds>>
  BY DEF Destructor
<1>2. (Chains /\ Flags)'
  <2>1. Chains'
    BY <1>0, <1>1 DEF Chains, remote
  <2>2. gone' \in BOOLEAN
    BY DEF Destructor
  <2>3. Flags'
    BY <1>0, <1>1, <2>2 DEF Flags
  <2>. QED BY <2>1, <2>3
<1>3. \A m \in Nodes, f \in Families : Rejects(m, f)' <=> Rejects(m, f)
  BY <1>1 DEF Rejects, remote
<1>4. todo \in SUBSET Nodes /\ \A m \in Nodes : m \in todo <=> blocked[m]
  BY DEF Ahead, Nodes
<1>5. CASE todo = {}
  <2>1. gone' = TRUE /\ UNCHANGED <<op, loop, node, step, failed, last>>
    BY <1>5 DEF Destructor
  <2>2. (Places /\ Words /\ Counts)'
    BY <1>0, <1>1, <2>1 DEF Places, Words, Counts, remote, bounds
  <2>3. Agrees'
    BY <1>1, <1>3, <2>1 DEF Agrees, AtRest
  <2>4. Decided'
    BY <1>1, <2>1 DEF Decided
  <2>5. Remembered'
    BY <1>1, <2>1 DEF Remembered, AtRest
  <2>6. Passed'
    BY <1>1, <1>4, <1>5, <2>1 DEF Passed
  <2>. QED BY <1>2, <2>2, <2>3, <2>4, <2>5, <2>6 DEF FirewallTypes
<1>6. CASE todo # {}
  <2>. DEFINE n == Lowest(todo)
  <2>1. gone' = FALSE /\ Call("unblock", n, "destructor")
    BY <1>6 DEF Destructor
  <2>. HIDE DEF todo
  <2>2. n \in todo /\ \A m \in todo : n <= m
    BY <1>4, <1>6, LowestIsLeast
  <2>. HIDE DEF n
  <2>3. n \in Nodes
    BY <1>4, <2>2
  <2>4. /\ op' = "unblock" /\ node' = n /\ loop' = "destructor" /\ step' = 1
        /\ failed' = failed \ {n} /\ last' = [last EXCEPT ![n] = "unblock"]
    BY <2>1 DEF Call
  <2>5. (Places /\ Words /\ Counts)'
    BY <1>0, <1>1, <2>3, <2>4 DEF Places, Words, Counts, remote, bounds
  <2>6. Agrees'
    BY <1>1, <1>3, <2>4 DEF Agrees, AtRest
  <2>7. Decided'
    BY <2>4 DEF Decided
  <2>8. Remembered'
    BY <1>0, <1>1, <2>3, <2>4 DEF Remembered, AtRest, Words, Places
  <2>9. ASSUME NEW m \in Nodes, m < n PROVE ~blocked[m]
    BY <1>4, <2>2, <2>3, <2>9 DEF Nodes
  <2>10. Passed'
    BY <1>1, <2>1, <2>4, <2>9 DEF Passed
  <2>. QED BY <1>2, <2>5, <2>6, <2>7, <2>8, <2>10 DEF FirewallTypes
<1>. QED BY <1>5, <1>6

(* Somebody else inserts a rule for another port. *)
LEMMA OtherRuleInserted ==
    ASSUME FirewallInv, NEW n \in Nodes, NEW f \in Families, OtherRule(n, f)
    PROVE  FirewallInv'
<1>. USE FirewallAssumption DEF FirewallInv
<1>0. Chains /\ Places /\ Flags /\ Words /\ Counts
  BY DEF FirewallTypes
<1>1. /\ others' = others + 1
      /\ UNCHANGED <<script, runnable, blocked, op, loop, node, step, failed, last, calls,
                     failures, gone>>
  BY DEF OtherRule
<1>2. chain[n] \in [Families -> Seq(Rules)] /\ chain[n][f] \in Seq(Rules)
  BY <1>0 DEF Chains
<1>. DEFINE longer == <<"other">> \o chain[n][f]
<1>3. longer \in Seq(Rules) /\ (Rejecting(longer) <=> Rejecting(chain[n][f]))
  BY <1>2, InFront, OtherInFront DEF Rules
<1>4. chain' = [chain EXCEPT ![n] = [chain[n] EXCEPT ![f] = longer]]
  BY DEF OtherRule
<1>. HIDE DEF longer
<1>5. Chains'
  BY <1>0, <1>2, <1>3, <1>4 DEF Chains
<1>6. ASSUME NEW m \in Nodes, NEW g \in Families PROVE Rejects(m, g)' <=> Rejects(m, g)
  <2>1. CASE m = n /\ g = f
    <3>1. chain'[m][g] = longer
      BY <1>0, <1>2, <1>4, <2>1 DEF Chains
    <3>. QED BY <1>3, <2>1, <3>1 DEF Rejects, Rejecting
  <2>2. CASE ~(m = n /\ g = f)
    <3>1. chain'[m][g] = chain[m][g]
      BY <1>0, <1>2, <1>4, <2>2 DEF Chains
    <3>. QED BY <3>1 DEF Rejects
  <2>. QED BY <2>1, <2>2
<1>7. (Places /\ Words /\ Counts)'
  BY <1>0, <1>1 DEF Places, Words, Counts
<1>8. Flags'
  BY <1>0, <1>1 DEF Flags
<1>9. Agrees' /\ Remembered'
  BY <1>1, <1>6 DEF Agrees, Remembered, AtRest
<1>10. Decided'
  BY <1>0, <1>1, <1>6 DEF Decided, Counts, Families
<1>11. Passed'
  BY <1>1 DEF Passed
<1>. QED BY <1>5, <1>7, <1>8, <1>9, <1>10, <1>11 DEF FirewallTypes

LEMMA NextFirewall == FirewallInv /\ [Next]_vars => FirewallInv'
<1>. SUFFICES ASSUME FirewallInv, [Next]_vars PROVE FirewallInv'
  OBVIOUS
<1>1. CASE \E n \in Nodes : block_node(n)
  BY <1>1, CallStarts DEF block_node
<1>2. CASE \E n \in Nodes : unblock_node(n)
  BY <1>2, CallStarts DEF unblock_node
<1>3. CASE unblock_all_nodes
  <2>1. 0 \in Nodes
    BY FirewallAssumption DEF Nodes
  <2>. QED BY <1>3, <2>1, CallStarts DEF unblock_all_nodes
<1>4. CASE ssh_node
  BY <1>4, CommandSent
<1>5. CASE Ends
  BY <1>5, CallEnds
<1>6. CASE Destructor
  BY <1>6, Destroyed
<1>7. CASE \E n \in Nodes, f \in Families : OtherRule(n, f)
  BY <1>7, OtherRuleInserted
<1>8. CASE UNCHANGED vars
  <2>1. Chains' /\ Places' /\ Words' /\ Counts'
    BY <1>8 DEF vars, remote, bounds, FirewallInv, FirewallTypes, Chains, Places, Words, Counts
  <2>2. Flags'
    BY <1>8 DEF vars, remote, bounds, FirewallInv, FirewallTypes, Flags
  <2>3. \A m \in Nodes, f \in Families : Rejects(m, f)' <=> Rejects(m, f)
    BY <1>8 DEF Rejects, vars, remote
  <2>4. (Agrees /\ Remembered /\ Passed)'
    BY <1>8, <2>3 DEF vars, FirewallInv, Agrees, Remembered, Passed, AtRest
  <2>5. Decided'
    BY <1>8, <2>3 DEF vars, FirewallInv, FirewallTypes, Counts, Decided, Families
  <2>. QED BY <2>1, <2>2, <2>4, <2>5 DEF FirewallInv, FirewallTypes
<1>. QED BY <1>1, <1>2, <1>3, <1>4, <1>5, <1>6, <1>7, <1>8 DEF Next

-----------------------------------------------------------------------------
(* The inductive invariant of Firewall. *)
THEOREM FirewallInvariant == Spec => []FirewallInv
<1>. QED BY InitFirewall, NextFirewall, PTL DEF Spec

(* The variables of the firewall keep their types: the rules stay chains   *)
(* whatever clean_iptables.sh strips from them.                            *)
THEOREM FirewallTypeCorrect == Spec => []TypeOK
<1>1. FirewallInv => TypeOK
  BY TypeParts DEF FirewallInv
<1>. QED BY <1>1, FirewallInvariant, PTL

(* Between two calls of block_node and unblock_node, Mariadb_nodes::blocked *)
(* tells for every node whose last call had no failing command whether the  *)
(* node rejects its port, for both protocols, whatever clean_iptables.sh    *)
(* did not strip and whatever rules others have inserted.                   *)
THEOREM BlockedTellsState == Spec => []FlagTellsState
<1>1. FirewallInv => FlagTellsState
  <2>. SUFFICES ASSUME FirewallInv, op = "none", NEW n \in Nodes \ failed, NEW f \in Families
                PROVE  Rejects(n, f) = blocked[n]
    BY DEF FlagTellsState
  <2>1. Rejects(n, f) <=> blocked[n]
    BY DEF FirewallInv, Agrees, AtRest
  <2>2. Rejects(n, f) \in BOOLEAN
    BY DEF Rejects
  <2>3. blocked[n] \in BOOLEAN
    BY DEF FirewallInv, FirewallTypes, Flags
  <2>. QED BY <2>1, <2>2, <2>3
<1>. QED BY <1>1, FirewallInvariant, PTL

(* After the destructor of Mariadb_nodes a node rejects its port only if a *)
(* command of its last unblock_node has failed.                            *)
THEOREM DestructorUnblocks == Spec => []LeftRejecting
<1>1. FirewallInv => LeftRejecting
  <2>. SUFFICES ASSUME FirewallInv, gone, NEW n \in Nodes, NEW f \in Families, Rejects(n, f)
                PROVE  n \in failed /\ last[n] = "unblock"
    BY DEF LeftRejecting
  <2>1. op = "none" /\ ~blocked[n]
    BY DEF FirewallInv, Passed
  <2>2. n \in failed
    BY <2>1 DEF FirewallInv, Agrees, AtRest
  <2>3. last[n] # "none" /\ last[n] # "block"
    BY <2>1, <2>2 DEF FirewallInv, Remembered, AtRest
  <2>. QED BY <2>2, <2>3 DEF FirewallInv, FirewallTypes, Words
<1>. QED BY <1>1, FirewallInvariant, PTL

-----------------------------------------------------------------------------
(* SyncSlaves: waiting for the slaves. *)

(* Threads only move forward, and only as far as there is a file.           *)
FileOrder ==
    \A s \in Slaves : sql_file[s] <= io_file[s] /\ io_file[s] <= mfile

(* What sync_slaves knows: which slaves it has visited, and that the place  *)
(* it waits for, if the master told one, is one the master has been at.     *)
VisitInv ==
    /\ filenum \in 0..mfile
    /\ filenum = 0 => synced = {} /\ crossed = {}
    /\ filenum # 0 => \A s \in alive : s < cur => s \in synced
    /\ pc = "status" => filenum = 0
    /\ pc = "wait" => filenum # 0
    /\ pc = "done" => IF filenum = 0 THEN "no_status" \in Failures ELSE cur \notin Slaves
    /\ mfile = 1 => crossed = {}

SyncInv == SyncTypeOK /\ FileOrder /\ VisitInv /\ SyncedInSameFile

LEMMA InitSync == SyncInit => SyncInv
<1>. SUFFICES ASSUME SyncInit PROVE SyncInv
  OBVIOUS
<1>. USE SyncAssumption DEF SyncInit
<1>1. SyncTypeOK
  <2>1. mfile \in Files
    BY DEF Files
  <2>2. end \in [Files -> Nat]
    OBVIOUS
  <2>3. /\ io_file \in [Slaves -> Files] /\ io_pos \in [Slaves -> Nat]
        /\ sql_file \in [Slaves -> Files] /\ sql_pos \in [Slaves -> Nat]
    BY DEF Files
  <2>4. cur \in 1..NodeCount /\ filenum \in Nat /\ pos \in Nat
    OBVIOUS
  <2>5. /\ running \subseteq Slaves /\ alive \subseteq Slaves
        /\ synced \subseteq Slaves /\ crossed \subseteq synced
        /\ pc \in {"status", "wait", "done"}
    OBVIOUS
  <2>. QED BY ONLY <2>1, <2>2, <2>3, <2>4, <2>5 DEF SyncTypeOK
<1>2. FileOrder
  BY DEF FileOrder
<1>3. VisitInv
  BY DEF VisitInv
<1>4. SyncedInSameFile
  BY DEF SyncedInSameFile
<1>. QED BY <1>1, <1>2, <1>3, <1>4 DEF SyncInv

(* The master and the failures change nothing that was established.         *)
LEMMA OthersSync ==
    ASSUME SyncInv,
           \/ MasterWrites \/ MasterRotates
           \/ \E s \in Slaves : SlaveStops(s) \/ SlaveDies(s)
    PROVE  SyncInv'
<1>. USE SyncAssumption DEF SyncInv
<1>1. /\ UNCHANGED <<slaves, sync, synced, crossed>>
      /\ alive' \subseteq alive /\ running' \subseteq running
      /\ mfile' \in Files /\ mfile' >= mfile
      /\ end' \in [Files -> Nat]
  <2>0. /\ mfile \in Files /\ mfile \in Nat /\ MaxFile \in Nat /\ mfile >= 1 /\ mfile <= MaxFile
        /\ end \in [Files -> Nat] /\ end[mfile] \in Nat
    BY DEF SyncTypeOK, Files
  <2>1. CASE MasterWrites
    BY <2>0, <2>1 DEF MasterWrites
  <2>2. CASE MasterRotates
    BY <2>0, <2>2 DEF MasterRotates, Files
  <2>3. CASE \E s \in Slaves : SlaveStops(s) \/ SlaveDies(s)
    BY <2>0, <2>3 DEF SlaveStops, SlaveDies, master
  <2>. QED BY <2>1, <2>2, <2>3
<1>2. SyncTypeOK'
  BY <1>1 DEF SyncTypeOK, slaves, sync
<1>3. FileOrder'
  BY <1>1 DEF FileOrder, SyncTypeOK, slaves, Files
<1>4. VisitInv'
  BY <1>1 DEF VisitInv, SyncTypeOK, slaves, sync, Files
<1>5. SyncedInSameFile'
  BY <1>1 DEF SyncedInSameFile, CaughtUp, slaves, sync
<1>. QED BY <1>2, <1>3, <1>4, <1>5

(* A slave that has caught up stays so while its threads go on.             *)
LEMMA ThreadsSync ==
    ASSUME SyncInv, Replicates
    PROVE  SyncInv'
<1>. USE SyncAssumption DEF SyncInv
<1>1. PICK s \in Slaves : IoThread(s) \/ SqlThread(s)
  BY DEF Replicates
<1>0. /\ io_file \in [Slaves -> Files] /\ io_pos \in [Slaves -> Nat]
      /\ sql_file \in [Slaves -> Files] /\ sql_pos \in [Slaves -> Nat]
      /\ mfile \in Files
  BY DEF SyncTypeOK
<1>f. \A f \in Files : f \in Nat /\ 1 <= f /\ f <= MaxFile
  BY DEF Files
<1>n. \A f \in Files : \A g \in Files : f < g => f + 1 \in Files /\ f + 1 <= g
  BY DEF Files
<1>o. \A t \in Slaves : sql_file[t] <= io_file[t] /\ io_file[t] <= mfile
  BY DEF FileOrder
<1>2. CASE IoThread(s)
  <2>1. UNCHANGED <<master, sql_file, sql_pos, running, alive, sync, synced, crossed>>
    BY <1>2 DEF IoThread
  <2>2. io_file' \in [Slaves -> Files] /\ io_pos' \in [Slaves -> Nat]
    BY <1>0, <1>f, <1>n, <1>2 DEF IoThread
  <2>3. SyncTypeOK'
    BY <2>1, <2>2 DEF SyncTypeOK, master, sync
  <2>4. FileOrder'
    <3>1. mfile' = mfile /\ sql_file' = sql_file
      BY <2>1 DEF master
    <3>2. \A t \in Slaves : io_file'[t] >= io_file[t] /\ io_file'[t] <= mfile
      BY <1>0, <1>f, <1>n, <1>o, <1>2 DEF IoThread
    <3>3. \A t \in Slaves : io_file'[t] \in Nat /\ io_file[t] \in Nat /\ sql_file[t] \in Nat
      BY <1>0, <1>f, <2>2
    <3>. QED BY <1>o, <3>1, <3>2, <3>3 DEF FileOrder
  <2>5. VisitInv'
    BY <2>1 DEF VisitInv, master, sync
  <2>6. SyncedInSameFile'
    BY <2>1 DEF SyncedInSameFile, CaughtUp, sync
  <2>. QED BY <2>3, <2>4, <2>5, <2>6
<1>3. CASE SqlThread(s)
  <2>1. UNCHANGED <<master, io_file, io_pos, running, alive, sync, synced, crossed>>
    BY <1>3 DEF SqlThread
  <2>2. sql_file' \in [Slaves -> Files] /\ sql_pos' \in [Slaves -> Nat]
    BY <1>0, <1>f, <1>n, <1>3 DEF SqlThread
  <2>3. SyncTypeOK'
    BY <2>1, <2>2 DEF SyncTypeOK, master, sync
  <2>4. FileOrder'
    <3>1. mfile' = mfile /\ io_file' = io_file
      BY <2>1 DEF master
    <3>2. \A t \in Slaves : sql_file'[t] <= io_file[t]
      BY <1>0, <1>f, <1>n, <1>o, <1>3 DEF SqlThread
    <3>. QED BY <1>o, <3>1, <3>2 DEF FileOrder
  <2>5. VisitInv'
    BY <2>1 DEF VisitInv, master, sync
  <2>6. ASSUME NEW t \in synced \ crossed
        PROVE  CaughtUp(t)'
    <3>1. CaughtUp(t) /\ t \in Slaves
      BY DEF SyncedInSameFile, SyncTypeOK
    <3>2. \/ sql_file'[t] = sql_file[t] /\ sql_pos'[t] >= sql_pos[t]
          \/ sql_file'[t] > sql_file[t]
      BY <1>0, <1>f, <1>3, <3>1 DEF SqlThread
    <3>3. /\ sql_file[t] \in Nat /\ sql_file'[t] \in Nat
          /\ sql_pos[t] \in Nat /\ sql_pos'[t] \in Nat
          /\ filenum \in Nat /\ pos \in Nat
      BY <1>0, <1>f, <2>2, <3>1 DEF SyncTypeOK
    <3>. QED BY <2>1, <3>1, <3>2, <3>3 DEF CaughtUp, sync
  <2>7. SyncedInSameFile'
    BY <2>1, <2>6 DEF SyncedInSameFile
  <2>. QED BY <2>3, <2>4, <2>5, <2>7
<1>. QED BY <1>1, <1>2, <1>3

LEMMA StatusSync ==
    ASSUME SyncInv, show_master_status
    PROVE  SyncInv'
<1>. USE SyncAssumption DEF SyncInv, show_master_status
<1>1. filenum' \in 0..mfile /\ filenum' # 0 /\ pos' \in Nat /\ cur' \in 1..NodeCount
  BY DEF SyncTypeOK, Files
<1>2. synced' = {} /\ crossed' = {}
  BY DEF VisitInv
<1>3. SyncTypeOK'
  BY <1>1, <1>2 DEF SyncTypeOK, master, slaves, Files
<1>4. FileOrder'
  BY DEF FileOrder, master, slaves
<1>5. \A s \in alive' : ~(s < cur')
  BY DEF SyncTypeOK, Slaves
<1>6. VisitInv'
  BY <1>1, <1>2, <1>5 DEF VisitInv, master
<1>7. SyncedInSameFile'
  BY <1>2 DEF SyncedInSameFile
<1>. QED BY <1>3, <1>4, <1>6, <1>7

(* Outside the old files the position is the one that counts.               *)
LEMMA WaitSync ==
    ASSUME SyncInv, wait_until_pos
    PROVE  SyncInv'
<1>. USE SyncAssumption DEF SyncInv, wait_until_pos
<1>1. cur \in Slaves /\ cur' \in 1..NodeCount
  BY DEF SyncTypeOK, Slaves
<1>2. /\ UNCHANGED <<master, slaves, running, alive, pc, filenum, pos>>
      /\ synced' \subseteq Slaves /\ crossed' \subseteq synced'
      /\ synced \subseteq synced'
  BY <1>1 DEF SyncTypeOK
<1>3. SyncTypeOK'
  BY <1>1, <1>2 DEF SyncTypeOK, master, slaves
<1>4. FileOrder'
  BY <1>2 DEF FileOrder, master, slaves
<1>5. /\ filenum \in Nat /\ pos \in Nat
      /\ sql_file[cur] \in Nat /\ sql_pos[cur] \in Nat
  BY <1>1 DEF SyncTypeOK, Files
<1>6. \A s \in alive' : s < cur' => s \in synced'
  <2>. SUFFICES ASSUME NEW s \in alive, s < cur + 1 PROVE s \in synced'
    BY <1>2
  <2>1. CASE s = cur
    BY <2>1
  <2>2. CASE s # cur
    <3>1. s < cur
      BY <1>1, <2>2 DEF SyncTypeOK, Slaves
    <3>. QED BY <1>2, <3>1 DEF VisitInv
  <2>. QED BY <2>1, <2>2
<1>7. mfile' = 1 => crossed' = {}
  <2>. SUFFICES ASSUME mfile = 1 PROVE crossed' = {}
    BY <1>2 DEF master
  <2>1. ~(sql_file[cur] < filenum)
    BY <1>1, <1>5 DEF VisitInv, SyncTypeOK, Files
  <2>. QED BY <2>1 DEF VisitInv
<1>8. VisitInv'
  BY <1>2, <1>6, <1>7 DEF VisitInv, master
<1>9. ASSUME NEW t \in synced' \ crossed'
      PROVE  CaughtUp(t)'
  <2>1. CASE t \in synced \ crossed
    BY <1>2, <2>1 DEF SyncedInSameFile, CaughtUp, slaves
  <2>2. CASE t \notin synced \ crossed
    <3>1. t = cur /\ cur \in alive /\ ~(sql_file[cur] < filenum)
      BY <2>2
    <3>. QED BY <1>2, <1>5, <3>1 DEF GotThere, slave_pos, CaughtUp, slaves
  <2>. QED BY <2>1, <2>2
<1>. QED BY <1>3, <1>4, <1>8, <1>9 DEF SyncedInSameFile

LEMMA ReturnSync ==
    ASSUME SyncInv, Return \/ NoMasterStatus
    PROVE  SyncInv'
<1>. USE DEF SyncInv, Return, NoMasterStatus
<1>1. SyncTypeOK'
  BY DEF SyncTypeOK, master, slaves
<1>2. FileOrder' /\ VisitInv'
  BY DEF FileOrder, VisitInv, master, slaves
<1>3. SyncedInSameFile'
  BY DEF SyncedInSameFile, CaughtUp, master, slaves
<1>. QED BY <1>1, <1>2, <1>3

LEMMA SyncInductive == SyncSpec => []SyncInv
<1>1. SyncInit => SyncInv
  BY InitSync
<1>2. SyncInv /\ [SyncNext]_syncVars => SyncInv'
  <2>. SUFFICES ASSUME SyncInv, [SyncNext]_syncVars PROVE SyncInv'
    OBVIOUS
  <2>1. CASE UNCHANGED syncVars
    <3>1. SyncTypeOK'
      BY <2>1 DEF SyncInv, syncVars, SyncTypeOK, master, slaves, sync
    <3>2. FileOrder' /\ VisitInv'
      BY <2>1 DEF SyncInv, syncVars, FileOrder, VisitInv, master, slaves, sync
    <3>3. SyncedInSameFile'
      BY <2>1 DEF SyncInv, syncVars, SyncedInSameFile, CaughtUp, master, slaves, sync
    <3>. QED BY <3>1, <3>2, <3>3 DEF SyncInv
  <2>2. CASE SyncNext
    BY <2>2, OthersSync, ThreadsSync, StatusSync, WaitSync, ReturnSync DEF SyncNext, sync_slaves
  <2>. QED BY <2>1, <2>2
<1>. QED BY <1>1, <1>2, PTL DEF SyncSpec

(* For any number of slaves and any log the state of sync_slaves, of the    *)
(* master and of the threads has its type (sync_slaves, wait_until_pos).    *)
THEOREM SyncTypes == SyncSpec => []SyncTypeOK
<1>1. SyncInv => SyncTypeOK
  BY DEF SyncInv
<1>. QED BY <1>1, SyncInductive, PTL

(* A slave that wait_until_pos let through outside an old log file has      *)
(* applied everything up to the master's place, whatever was logged,        *)
(* rotated, stopped or lost meanwhile.                                      *)
THEOREM LetThroughInSameFile == SyncSpec => []SyncedInSameFile
<1>1. SyncInv => SyncedInSameFile
  BY DEF SyncInv
<1>. QED BY <1>1, SyncInductive, PTL

(* As long as the master stays in its first log file, every slave that      *)
(* still answers has caught up when sync_slaves returns, or sync_slaves has  *)
(* returned at once because the master did not tell its place.               *)
THEOREM SoundWithoutRotation == SyncSpec => []SyncedWithoutRotation
<1>1. SyncInv => SyncedWithoutRotation
  <2>. SUFFICES ASSUME SyncInv, pc = "done", mfile = 1
                PROVE  \/ filenum = mfile /\ \A s \in alive : CaughtUp(s)
                       \/ "no_status" \in Failures /\ filenum = 0 /\ synced = {}
    BY DEF SyncedWithoutRotation
  <2>1. CASE filenum = 0
    BY <2>1 DEF SyncInv, VisitInv
  <2>2. CASE filenum # 0
    <3>1. filenum = mfile
      BY <2>2 DEF SyncInv, VisitInv
    <3>2. ASSUME NEW s \in alive PROVE CaughtUp(s)
      <4>1. s \in Slaves /\ cur \in 1..NodeCount /\ cur \notin Slaves
        BY <2>2 DEF SyncInv, SyncTypeOK, VisitInv
      <4>2. s < cur
        BY <4>1, SyncAssumption DEF Slaves
      <4>. QED BY <2>2, <4>2 DEF SyncInv, VisitInv, SyncedInSameFile
    <3>. QED BY <3>1, <3>2
  <2>. QED BY <2>1, <2>2
<1>. QED BY <1>1, SyncInductive, PTL
=============================================================================
