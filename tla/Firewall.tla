------------------------------ MODULE Firewall ------------------------------
(***************************************************************************)
(* Mariadb_nodes::block_node, unblock_node, unblock_all_nodes and the      *)
(* destructor: the array "blocked" of the harness, and the rules for the   *)
(* database port in the INPUT chains of iptables and ip6tables on each     *)
(* node.  Both are changed by a series of commands over ssh, each of which *)
(* may fail, before or after it has had its effect.                        *)
(***************************************************************************)
EXTENDS Integers, Sequences, FiniteSets

CONSTANTS
    N,            \* number of nodes
    MaxCalls,     \* bound: calls the test makes
    MaxFailures,  \* bound: commands that fail
    MaxOthers     \* bound: rules for other ports that others insert

ASSUME FirewallAssumption ==
    N \in Nat \ {0} /\ MaxCalls \in Nat /\ MaxFailures \in Nat /\ MaxOthers \in Nat

Nodes    == 0..(N - 1)
Families == {"iptables", "ip6tables"}
PortRules == {"REJECT", "ACCEPT"}
Rules    == PortRules \cup {"other"}

(* The commands of one call, in the order of the code. *)
Commands == <<"header", "append", "append6", "chmod", "run", "rule", "rule6">>

VARIABLES
    chain,      \* chain[n][f]: the rules of node n, the one asked first in front
    script,     \* the loops that clean_iptables.sh on each node consists of
    runnable,   \* nodes where it may be executed
    blocked,    \* what the harness believes
    op,         \* the call under way: "none", "block", "unblock"
    loop,       \* the loop it belongs to: "none", "all", "destructor"
    node,       \* its node
    step,       \* its next command, an index of Commands
    failed,     \* nodes whose last call had a command that failed
    last,       \* history: the last call for each node
    calls, failures, others,
    gone        \* the destructor has ended

remote == <<chain, script, runnable>>
bounds == <<calls, failures, others>>
vars == <<remote, blocked, op, loop, node, step, failed, last, bounds, gone>>

TypeOK ==
    /\ chain \in [Nodes -> [Families -> Seq(Rules)]]
    /\ script \in [Nodes -> SUBSET Families]
    /\ runnable \subseteq Nodes
    /\ blocked \in [Nodes -> BOOLEAN]
    /\ op \in {"none", "block", "unblock"}
    /\ loop \in {"none", "all", "destructor"}
    /\ node \in Nodes
    /\ step \in 1..(Len(Commands) + 1)
    /\ failed \subseteq Nodes
    /\ last \in [Nodes -> {"none", "block", "unblock"}]
    /\ calls \in Nat /\ failures \in Nat /\ others \in Nat
    /\ gone \in BOOLEAN

Init ==
    /\ chain = [n \in Nodes |-> [f \in Families |-> <<>>]]
    /\ script = [n \in Nodes |-> {}]
    /\ runnable = {}
    /\ blocked = [n \in Nodes |-> FALSE]
    /\ op = "none" /\ loop = "none" /\ node = 0 /\ step = 1
    /\ failed = {} /\ last = [n \in Nodes |-> "none"]
    /\ calls = 0 /\ failures = 0 /\ others = 0
    /\ gone = FALSE

-----------------------------------------------------------------------------
(* while the first rule of the chain mentions the port, delete it *)
Stripped(c) ==
    LET keep == {i \in 1..Len(c) : c[i] = "other"}
    IN  IF keep = {} THEN <<>>
        ELSE SubSeq(c, CHOOSE i \in keep : \A j \in keep : i <= j, Len(c))

Target == IF op = "block" THEN "REJECT" ELSE "ACCEPT"

(* Defective: -A instead of -I. *)
InsertAtEnd(f) == [chain EXCEPT ![node][f] = @ \o <<Target>>]

Insert(f) == [chain EXCEPT ![node][f] = <<Target>> \o @]

(* What command c does on the node, when it gets there. *)
Effect(c) ==
    \/ /\ c = "header" /\ script' = [script EXCEPT ![node] = {}]
       /\ UNCHANGED <<chain, runnable>>
    \/ /\ c = "append" /\ script' = [script EXCEPT ![node] = @ \cup {"iptables"}]
       /\ UNCHANGED <<chain, runnable>>
    \/ /\ c = "append6" /\ script' = [script EXCEPT ![node] = @ \cup {"ip6tables"}]
       /\ UNCHANGED <<chain, runnable>>
    \/ /\ c = "chmod" /\ runnable' = runnable \cup {node}
       /\ UNCHANGED <<chain, script>>
    \/ /\ c = "run" /\ node \in runnable
       /\ chain' = [chain EXCEPT ![node] =
                       [f \in Families |-> IF f \in script[node] THEN Stripped(@[f]) ELSE @[f]]]
       /\ UNCHANGED <<script, runnable>>
    \/ c = "rule" /\ chain' = Insert("iptables") /\ UNCHANGED <<script, runnable>>
    \/ c = "rule6" /\ chain' = Insert("ip6tables") /\ UNCHANGED <<script, runnable>>

(* ssh_node: the exit code is added to the result of the call, and the     *)
(* next command is sent all the same.                                      *)
ssh_node ==
    /\ op # "none" /\ step \in 1..Len(Commands)
    /\ \/ Effect(Commands[step]) /\ UNCHANGED <<failed, failures>>
       \/ /\ failures < MaxFailures \/ (Commands[step] = "run" /\ node \notin runnable)
          /\ failures' = IF Commands[step] = "run" /\ node \notin runnable
                            THEN failures ELSE failures + 1
          /\ failed' = failed \cup {node}
          /\ Effect(Commands[step]) \/ UNCHANGED remote
    /\ step' = step + 1
    /\ UNCHANGED <<blocked, op, loop, node, last, calls, others, gone>>

Call(o, n, l) ==
    /\ op' = o /\ node' = n /\ loop' = l /\ step' = 1
    /\ failed' = failed \ {n} /\ last' = [last EXCEPT ![n] = o]

Idle ==
    op' = "none" /\ loop' = "none" /\ step' = 1 /\ UNCHANGED <<node, failed, last>>

(* The nodes that the loop of the call still has before it. *)
Ahead(l, n) ==
    {m \in Nodes : m > n /\ (l = "all" \/ (l = "destructor" /\ blocked[m]))}

Lowest(S) == CHOOSE n \in S : \A m \in S : n <= m

(* Defective: blocked is set or cleared only when every command has succeeded. *)
EndsIfDone ==
    /\ op # "none" /\ step = Len(Commands) + 1
    /\ blocked' = [blocked EXCEPT ![node] = IF node \in failed THEN @ ELSE op = "block"]
    /\ IF loop # "none" /\ Ahead(loop, node) # {}
          THEN Call("unblock", Lowest(Ahead(loop, node)), loop)
          ELSE Idle
    /\ gone' = (loop = "destructor" /\ Ahead(loop, node) = {})
    /\ UNCHANGED <<remote, bounds>>

(* The last statement of the call: "blocked" is set whatever the commands  *)
(* returned.                                                               *)
Ends ==
    /\ op # "none" /\ step = Len(Commands) + 1
    /\ blocked' = [blocked EXCEPT ![node] = (op = "block")]
    /\ IF loop # "none" /\ Ahead(loop, node) # {}
          THEN Call("unblock", Lowest(Ahead(loop, node)), loop)
          ELSE Idle
    /\ gone' = (loop = "destructor" /\ Ahead(loop, node) = {})
    /\ UNCHANGED <<remote, bounds>>

TestCalls == op = "none" /\ ~gone /\ calls < MaxCalls /\ calls' = calls + 1

block_node(n) ==
    /\ TestCalls /\ Call("block", n, "none")
    /\ UNCHANGED <<remote, blocked, failures, others, gone>>

unblock_node(n) ==
    /\ TestCalls /\ Call("unblock", n, "none")
    /\ UNCHANGED <<remote, blocked, failures, others, gone>>

unblock_all_nodes ==
    /\ TestCalls /\ Call("unblock", 0, "all")
    /\ UNCHANGED <<remote, blocked, failures, others, gone>>

Destructor ==
    /\ op = "none" /\ ~gone
    /\ LET todo == Ahead("destructor", -1)
       IN  IF todo = {}
              THEN gone' = TRUE /\ UNCHANGED <<op, loop, node, step, failed, last>>
              ELSE gone' = FALSE /\ Call("unblock", Lowest(todo), "destructor")
    /\ UNCHANGED <<remote, blocked, bounds>>

(* Somebody else on the node puts a rule for another port in front. *)
OtherRule(n, f) ==
    /\ others < MaxOthers /\ ~gone
    /\ others' = others + 1
    /\ chain' = [chain EXCEPT ![n][f] = <<"other">> \o @]
    /\ UNCHANGED <<script, runnable, blocked, op, loop, node, step, failed, last, calls,
                   failures, gone>>

Next ==
    \/ \E n \in Nodes : block_node(n) \/ unblock_node(n)
    \/ unblock_all_nodes
    \/ ssh_node \/ Ends
    \/ Destructor
    \/ \E n \in Nodes, f \in Families : OtherRule(n, f)

Spec == Init /\ [][Next]_vars

-----------------------------------------------------------------------------
(* The first rule that mentions the port decides. *)
Rejects(n, f) ==
    \E i \in 1..Len(chain[n][f]) :
        chain[n][f][i] = "REJECT" /\ \A j \in 1..(i - 1) : chain[n][f][j] = "other"

(* Between two calls, a node whose last call had no failed command rejects *)
(* both protocols if "blocked" says so and neither if it does not, in      *)
(* spite of everything that failed in earlier calls and of the rules that  *)
(* others insert (block_node, unblock_node).                               *)
FlagTellsState ==
    op = "none" => \A n \in Nodes \ failed, f \in Families : Rejects(n, f) = blocked[n]

(* After the destructor a node rejects only if a command of its last       *)
(* unblock_node has failed: what block_node leaves half done is undone.    *)
LeftRejecting ==
    gone => \A n \in Nodes, f \in Families : Rejects(n, f) => (n \in failed /\ last[n] = "unblock")
=============================================================================
