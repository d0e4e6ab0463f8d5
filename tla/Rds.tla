-------------------------------- MODULE Rds --------------------------------
(***************************************************************************)
(* Class RDS: create_rds_db, which builds a network and a database cluster *)
(* in the cloud one resource after the other and takes down what it has    *)
(* built when a step fails, and delete_rds_cluster, which finds out what   *)
(* there is and takes it down while instances go away in their own time.   *)
(*                                                                         *)
(* Every "aws" command may fail without effect.  The cloud refuses a       *)
(* command that would leave a resource without what it depends on.         *)
(***************************************************************************)
EXTENDS Integers, FiniteSets

CONSTANTS
    N,            \* instances of the cluster
    MaxFailures   \* bound: commands that fail

ASSUME RdsAssumption == N \in Nat /\ MaxFailures \in Nat

Instances == 0..(N - 1)
Subnets   == {"subnet1", "subnet2"}
(* "attached": the gateway is attached to the VPC. *)
Resources == {"vpc", "group", "gw", "attached", "cluster"} \cup Subnets
(* A cluster whose deletion was accepted is still described for a while. *)
Going     == "going"

VARIABLES
    cloud,      \* the resources there are, and Going
    instances,  \* state of each instance: "none", "up", "deleting"
    vpc_id_intern,    \* "garbage" as long as nobody has set it, "null" or "vpc"
    subnets_intern,   \* the subnets it lists
    cluster_intern,   \* "garbage" as long as nobody has set it, "null" or "cluster"
    members,    \* instances that delete_rds_cluster found
    pc,         \* the next call of create_rds_db or delete_rds_cluster
    result,     \* what create_rds_db returned: "none", "0", "-1"
    failures,   \* commands that failed
    cleanup     \* history: commands that failed while taking things down

fields == <<vpc_id_intern, subnets_intern, cluster_intern>>
vars == <<cloud, instances, fields, members, pc, result, failures, cleanup>>

CreateSteps  == {"create_vpc", "create_subnet1", "create_subnet2", "create_subnet_group",
                 "create_gw", "configure_route_table", "create_cluster"}
DestroySteps == {"destroy_nodes", "destroy_cluster", "detach_and_destroy_gw", "destroy_subnets",
                 "destroy_subnets_group", "destroy_vpc"}
DeleteSteps  == {"get_cluster", "get_subnets", "delete_nodes", "wait_nodes", "delete_cluster",
                 "wait_cluster", "delete_subnets", "delete_subnets_group", "delete_gw",
                 "delete_vpc"}

TypeOK ==
    /\ cloud \subseteq Resources \cup {Going}
    /\ instances \in [Instances -> {"none", "up", "deleting"}]
    /\ vpc_id_intern \in {"garbage", "null", "vpc"}
    /\ subnets_intern \subseteq Subnets
    /\ cluster_intern \in {"garbage", "null", "cluster"}
    /\ members \subseteq Instances
    /\ pc \in CreateSteps \cup DestroySteps \cup DeleteSteps \cup {"idle", "crashed", "deleted"}
    /\ result \in {"none", "0", "-1"}
    /\ failures \in 0..MaxFailures
    /\ cleanup \in 0..failures

(* A new object: the constructor sets subnets_intern and neither of the    *)
(* pointers.  Their memory may happen to hold zero; otherwise whoever      *)
(* follows them crashes.  gw_intern and the name of the group are set      *)
(* before they are used.                                                   *)
NewObject ==
    /\ vpc_id_intern' \in {"garbage", "null"} /\ subnets_intern' = {}
    /\ cluster_intern' \in {"garbage", "null"}

Init ==
    /\ cloud = {} /\ instances = [i \in Instances |-> "none"]
    /\ vpc_id_intern \in {"garbage", "null"} /\ subnets_intern = {}
    /\ cluster_intern \in {"garbage", "null"}
    /\ members = {}
    /\ pc = "create_vpc" /\ result = "none"
    /\ failures = 0 /\ cleanup = 0

-----------------------------------------------------------------------------
Live == {i \in Instances : instances[i] # "none"}

(* A command fails although the cloud would have carried it out. *)
Fails == failures < MaxFailures /\ failures' = failures + 1
Works == UNCHANGED failures

(* create_rds_db: on failure, the first of the calls that take things down. *)
Goes(ok, next, undo) == pc' = IF ok THEN next ELSE undo

create_vpc ==
    /\ pc = "create_vpc"
    /\ \/ Fails /\ Goes(FALSE, "", "destroy_vpc") /\ UNCHANGED <<cloud, vpc_id_intern>>
       \/ /\ cloud' = cloud \cup {"vpc"} /\ vpc_id_intern' = "vpc"
          /\ \/ Fails /\ Goes(FALSE, "", "destroy_vpc")
             \/ Works /\ Goes(TRUE, "create_subnet1", "")
    /\ UNCHANGED <<instances, subnets_intern, cluster_intern, members, result, cleanup>>

(* Defective: the subnet is recorded after its attribute has been set. *)
create_subnet_RecordsLast(s) ==
    /\ pc = (IF s = "subnet1" THEN "create_subnet1" ELSE "create_subnet2")
    /\ \/ Fails /\ UNCHANGED <<cloud, subnets_intern>>
       \/ Fails /\ cloud' = cloud \cup {s} /\ UNCHANGED subnets_intern
       \/ Works /\ cloud' = cloud \cup {s} /\ subnets_intern' = subnets_intern \cup {s}
    /\ pc' = IF s = "subnet1" THEN "create_subnet2" ELSE "create_subnet_group"
    /\ UNCHANGED <<instances, vpc_id_intern, cluster_intern, members, result, cleanup>>

(* The results of both calls are ignored. *)
create_subnet(s) ==
    /\ pc = (IF s = "subnet1" THEN "create_subnet1" ELSE "create_subnet2")
    /\ \/ Fails /\ UNCHANGED <<cloud, subnets_intern>>
       \/ /\ cloud' = cloud \cup {s} /\ subnets_intern' = subnets_intern \cup {s}
          /\ Fails \/ Works
    /\ pc' = IF s = "subnet1" THEN "create_subnet2" ELSE "create_subnet_group"
    /\ UNCHANGED <<instances, vpc_id_intern, cluster_intern, members, result, cleanup>>

(* A group needs subnets in two zones. *)
create_subnet_group ==
    /\ pc = "create_subnet_group"
    /\ \/ /\ subnets_intern # Subnets /\ Works
          /\ Goes(FALSE, "", "destroy_subnets") /\ UNCHANGED cloud
       \/ Fails /\ Goes(FALSE, "", "destroy_subnets") /\ UNCHANGED cloud
       \/ /\ subnets_intern = Subnets /\ Works
          /\ cloud' = cloud \cup {"group"} /\ Goes(TRUE, "create_gw", "")
    /\ UNCHANGED <<instances, fields, members, result, cleanup>>

(* Defective: a gateway that cannot be attached is not an error. *)
create_gw_Unattached ==
    /\ pc = "create_gw"
    /\ \/ Fails /\ Goes(FALSE, "", "detach_and_destroy_gw") /\ UNCHANGED cloud
       \/ Fails /\ Goes(TRUE, "configure_route_table", "") /\ cloud' = cloud \cup {"gw"}
       \/ /\ Works /\ Goes(TRUE, "configure_route_table", "")
          /\ cloud' = cloud \cup {"gw", "attached"}
    /\ UNCHANGED <<instances, fields, members, result, cleanup>>

create_gw ==
    /\ pc = "create_gw"
    /\ \/ Fails /\ Goes(FALSE, "", "detach_and_destroy_gw") /\ UNCHANGED cloud
       \/ Fails /\ Goes(FALSE, "", "detach_and_destroy_gw") /\ cloud' = cloud \cup {"gw"}
       \/ /\ Works /\ Goes(TRUE, "configure_route_table", "")
          /\ cloud' = cloud \cup {"gw", "attached"}
    /\ UNCHANGED <<instances, fields, members, result, cleanup>>

configure_route_table ==
    /\ pc = "configure_route_table"
    /\ \/ Fails /\ Goes(FALSE, "", "detach_and_destroy_gw")
       \/ Works /\ Goes(TRUE, "create_cluster", "")
    /\ UNCHANGED <<cloud, instances, fields, members, result, cleanup>>

(* The exit code of create-db-cluster is ignored, but without output there *)
(* is nothing to parse.  Each instance may fail to be created.             *)
create_cluster ==
    /\ pc = "create_cluster"
    /\ \/ /\ Fails /\ Goes(FALSE, "", "destroy_nodes")
          /\ UNCHANGED <<cloud, instances, cluster_intern, result>>
       \/ \E failed \in SUBSET Instances :
             /\ failures + Cardinality(failed) <= MaxFailures
             /\ failures' = failures + Cardinality(failed)
             /\ cloud' = cloud \cup {"cluster"}
             /\ instances' = [i \in Instances |-> IF i \in failed THEN "none" ELSE "up"]
             /\ cluster_intern' = "cluster"
             /\ pc' = "idle" /\ result' = "0"
    /\ UNCHANGED <<vpc_id_intern, subnets_intern, members, cleanup>>

-----------------------------------------------------------------------------
(* Taking things down, from create_rds_db and from delete_rds_cluster.     *)

FailsDown == Fails /\ cleanup' = cleanup + 1
WorksDown == Works /\ UNCHANGED cleanup

(* A command that takes S down unless the cloud refuses it. *)
Removes(S, allowed) ==
    \/ FailsDown /\ UNCHANGED cloud
    \/ WorksDown /\ cloud' = IF allowed THEN cloud \ S ELSE cloud

(* describe-internet-gateways lists the gateways attached to the VPC. *)
Gateways ==
    IF vpc_id_intern = "vpc" /\ "attached" \in cloud
       THEN \/ FailsDown /\ UNCHANGED cloud
            \/ FailsDown /\ cloud' = cloud \ {"attached"}
            \/ WorksDown /\ cloud' = cloud \ {"attached", "gw"}
       ELSE WorksDown /\ UNCHANGED cloud

(* Each subnet is deleted twice: one of the commands has to get through.   *)
SubnetsDown ==
    \E failed \in SUBSET subnets_intern :
       /\ failures + 2 * Cardinality(failed) <= MaxFailures
       /\ failures' = failures + 2 * Cardinality(failed)
       /\ cleanup' = cleanup + 2 * Cardinality(failed)
       /\ cloud' = IF Live = {} THEN cloud \ (subnets_intern \ failed) ELSE cloud

VpcDown == Removes({"vpc"}, vpc_id_intern = "vpc" /\ cloud \cap (Subnets \cup {"attached"}) = {})

(* The cloud accepts the deletion of a cluster without instances, and       *)
(* carries it out later.                                                    *)
ClusterDown ==
    \/ FailsDown /\ UNCHANGED cloud
    \/ WorksDown /\ cloud' = IF "cluster" \in cloud /\ Live = {} THEN cloud \cup {Going} ELSE cloud

(* get_subnetgroup_name looks into cluster_intern unless it is NULL. *)
GroupDown == Removes({"group"}, "cluster" \notin cloud)
Crashes == pc' = "crashed" /\ UNCHANGED <<cloud, failures, cleanup>>

(* The calls after a failed create_cluster: a cluster_intern that nobody   *)
(* has set holds no members, if it can be looked into at all.              *)
destroy_nodes ==
    /\ pc = "destroy_nodes"
    /\ IF cluster_intern = "garbage"
          THEN Crashes
          ELSE pc' = "destroy_cluster" /\ WorksDown /\ UNCHANGED cloud
    /\ UNCHANGED <<instances, fields, members, result>>

destroy_cluster ==
    /\ pc = "destroy_cluster" /\ pc' = "detach_and_destroy_gw"
    /\ ClusterDown
    /\ UNCHANGED <<instances, fields, members, result>>

detach_and_destroy_gw ==
    /\ pc = "detach_and_destroy_gw" /\ pc' = "destroy_subnets"
    /\ Gateways
    /\ UNCHANGED <<instances, fields, members, result>>

destroy_subnets ==
    /\ pc = "destroy_subnets" /\ pc' = "destroy_subnets_group"
    /\ SubnetsDown
    /\ UNCHANGED <<instances, fields, members, result>>

destroy_subnets_group ==
    /\ pc = "destroy_subnets_group"
    /\ IF cluster_intern = "garbage"
          THEN Crashes
          ELSE pc' = "destroy_vpc" /\ GroupDown
    /\ UNCHANGED <<instances, fields, members, result>>

(* After a failed create_vpc nobody has set vpc_id_intern. *)
destroy_vpc ==
    /\ pc = "destroy_vpc"
    /\ IF vpc_id_intern = "garbage"
          THEN Crashes /\ UNCHANGED result
          ELSE pc' = "idle" /\ result' = "-1" /\ VpcDown
    /\ UNCHANGED <<instances, fields, members>>

-----------------------------------------------------------------------------
(* delete_rds_cluster, in a process of its own. *)

DeleteStarts ==
    /\ pc \in {"idle", "crashed"} /\ "cluster" \in cloud
    /\ pc' = "get_cluster" /\ cleanup' = 0
    /\ NewObject
    /\ UNCHANGED <<cloud, instances, members, result, failures>>

(* describe-db-clusters: without an answer there is no cluster. *)
Describe(found) ==
    \/ FailsDown /\ ~found
    \/ WorksDown /\ found = ("cluster" \in cloud)

get_cluster ==
    /\ pc = "get_cluster" /\ pc' = "get_subnets"
    /\ \E found \in BOOLEAN :
          /\ Describe(found)
          /\ cluster_intern' = IF found THEN "cluster" ELSE "null"
          /\ members' = IF found THEN Live ELSE {}
    /\ UNCHANGED <<cloud, instances, vpc_id_intern, subnets_intern, result>>

(* The caller prints vpc_id_intern, also when no group was described. *)
get_subnets ==
    /\ pc = "get_subnets"
    /\ \/ FailsDown /\ UNCHANGED <<vpc_id_intern, subnets_intern>>
       \/ /\ "group" \in cloud
          /\ WorksDown /\ vpc_id_intern' = "vpc" /\ subnets_intern' = cloud \cap Subnets
    /\ pc' = IF vpc_id_intern' = "garbage" THEN "crashed" ELSE "delete_nodes"
    /\ UNCHANGED <<cloud, instances, cluster_intern, members, result>>

delete_nodes ==
    /\ pc = "delete_nodes" /\ pc' = "wait_nodes"
    /\ \E failed \in SUBSET members :
          /\ failures + Cardinality(failed) <= MaxFailures
          /\ failures' = failures + Cardinality(failed)
          /\ cleanup' = cleanup + Cardinality(failed)
          /\ instances' = [i \in Instances |-> IF i \in members \ failed /\ instances[i] = "up"
                                                  THEN "deleting" ELSE instances[i]]
    /\ UNCHANGED <<cloud, fields, members, result>>

(* The loop ends when the description lists no member. *)
wait_nodes ==
    /\ pc = "wait_nodes" /\ pc' = "delete_cluster"
    /\ \E found \in BOOLEAN : Describe(found) /\ (~found \/ Live = {})
    /\ UNCHANGED <<cloud, instances, fields, members, result>>

delete_cluster ==
    /\ pc = "delete_cluster" /\ pc' = "wait_cluster"
    /\ ClusterDown
    /\ UNCHANGED <<instances, fields, members, result>>

(* Defective: the cluster is taken to be gone with the command. *)
wait_cluster_TooEarly ==
    /\ pc = "wait_cluster" /\ pc' = "delete_subnets"
    /\ \E found \in BOOLEAN : Describe(found)
    /\ UNCHANGED <<cloud, instances, fields, members, result>>

(* Defective: the loop looks at the description that get_cluster left. *)
wait_cluster_Stale ==
    /\ pc = "wait_cluster" /\ pc' = "delete_subnets"
    /\ cluster_intern = "null" /\ \E found \in BOOLEAN : Describe(found)
    /\ UNCHANGED <<cloud, instances, fields, members, result>>

wait_cluster ==
    /\ pc = "wait_cluster" /\ pc' = "delete_subnets"
    /\ Describe(FALSE)
    /\ UNCHANGED <<cloud, instances, fields, members, result>>

delete_subnets ==
    /\ pc = "delete_subnets" /\ pc' = "delete_subnets_group"
    /\ SubnetsDown
    /\ UNCHANGED <<instances, fields, members, result>>

delete_subnets_group ==
    /\ pc = "delete_subnets_group" /\ pc' = "delete_gw"
    /\ GroupDown
    /\ UNCHANGED <<instances, fields, members, result>>

delete_gw ==
    /\ pc = "delete_gw" /\ pc' = "delete_vpc"
    /\ Gateways
    /\ UNCHANGED <<instances, fields, members, result>>

delete_vpc ==
    /\ pc = "delete_vpc" /\ pc' = "deleted"
    /\ VpcDown
    /\ UNCHANGED <<instances, fields, members, result>>

InstanceGone(i) ==
    /\ instances[i] = "deleting"
    /\ instances' = [instances EXCEPT ![i] = "none"]
    /\ UNCHANGED <<cloud, fields, members, pc, result, failures, cleanup>>

ClusterGone ==
    /\ Going \in cloud
    /\ cloud' = cloud \ {"cluster", Going}
    /\ UNCHANGED <<instances, fields, members, pc, result, failures, cleanup>>

create_rds_db ==
    \/ create_vpc
    \/ \E s \in Subnets : create_subnet(s)
    \/ create_subnet_group \/ create_gw \/ configure_route_table \/ create_cluster
    \/ destroy_nodes \/ destroy_cluster \/ detach_and_destroy_gw \/ destroy_subnets
    \/ destroy_subnets_group \/ destroy_vpc

delete_rds_cluster ==
    \/ get_cluster \/ get_subnets
    \/ delete_nodes \/ wait_nodes \/ delete_cluster \/ wait_cluster
    \/ delete_subnets \/ delete_subnets_group \/ delete_gw \/ delete_vpc

Next ==
    \/ create_rds_db
    \/ DeleteStarts \/ delete_rds_cluster
    \/ \E i \in Instances : InstanceGone(i)
    \/ ClusterGone

Spec == Init /\ [][Next]_vars

(* Both programs go on, and the cloud completes the deletions it accepted. *)
FairSpec ==
    /\ Spec
    /\ WF_vars(create_rds_db) /\ WF_vars(delete_rds_cluster)
    /\ \A i \in 0..(N - 1) : WF_vars(InstanceGone(i))
    /\ WF_vars(ClusterGone)

-----------------------------------------------------------------------------
(* create_rds_db succeeds only if the whole network is there, although it  *)
(* looks neither at the results of create_subnet nor at the exit code of   *)
(* create-db-cluster.                                                      *)
CreatedIsComplete ==
    (pc = "idle" /\ result = "0") => cloud = Resources

(* If create_rds_db fails and returns (no pointer that nobody has set was  *)
(* followed) and the commands that take things down all work, then at most *)
(* a gateway is left.                                                      *)
RollbackLeavesGateway ==
    (pc = "idle" /\ result = "-1" /\ cleanup = 0) => cloud \subseteq {"gw"}

(* If no command of delete_rds_cluster fails nothing is left, whatever     *)
(* failed when the cluster was created: the group of subnets, which the    *)
(* cloud keeps as long as the cluster is described, is deleted after it.   *)
DeletedIsGone ==
    (pc = "deleted" /\ cleanup = 0) => (cloud = {} /\ Live = {})

(* delete_rds_cluster ends, unless it crashes, an instance was not told to *)
(* go, or the cluster was not.                                             *)
DeleteEnds ==
    pc = "get_cluster" ~>
        \/ pc \in {"deleted", "crashed"}
        \/ pc = "wait_nodes" /\ \E i \in Live : instances[i] = "up"
        \/ pc = "wait_cluster" /\ "cluster" \in cloud /\ Going \notin cloud
=============================================================================
