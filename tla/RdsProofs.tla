------------------------------ MODULE RdsProofs ------------------------------
(* Proofs about Rds, for every number of instances and of failing commands. *)
EXTENDS Rds, FiniteSetTheorems, TLAPS

(* The type invariant in the parts that different provers are good at. *)
Things    == cloud \subseteq Resources \cup {Going} /\ subnets_intern \subseteq Subnets /\ members \subseteq Instances
Machines  == instances \in [Instances -> {"none", "up", "deleting"}]
Steps     == pc \in CreateSteps \cup DestroySteps \cup DeleteSteps \cup {"idle", "crashed", "deleted"}
Words     == /\ cluster_intern \in {"garbage", "null", "cluster"} /\ result \in {"none", "0", "-1"}
             /\ vpc_id_intern \in {"garbage", "null", "vpc"}
Counters  == failures \in 0..MaxFailures /\ cleanup \in 0..failures

RdsTypes == Things /\ Machines /\ Steps /\ Words /\ Counters

(* The network without the cluster in it. *)
Network == Resources \ {"cluster"}

(* What create_rds_db has built when it is about to make each call. *)
Built ==
    /\ pc = "create_vpc" => cloud = {} /\ subnets_intern = {}
    /\ pc = "create_subnet1" => cloud = {"vpc"} /\ subnets_intern = {}
    /\ pc \in {"create_subnet2", "create_subnet_group"} =>
          cloud = {"vpc"} \cup subnets_intern
    /\ pc = "create_gw" => cloud = Network \ {"gw", "attached"} /\ subnets_intern = Subnets
    /\ pc \in {"configure_route_table", "create_cluster"} =>
          cloud = Network /\ subnets_intern = Subnets

(* As long as there is no cluster there are no instances, the harness knows *)
(* the network it has to take down, and the VPC is only gone at the end.    *)
Unfinished ==
    /\ pc \in CreateSteps \cup DestroySteps => "cluster" \notin cloud /\ Live = {}
    /\ pc \in (CreateSteps \cup DestroySteps) \ {"create_vpc", "destroy_vpc"} =>
          vpc_id_intern = "vpc"
    /\ pc = "destroy_vpc" => ("vpc" \in cloud => vpc_id_intern = "vpc")
    /\ pc = "crashed" => cloud = Resources \/ "cluster" \notin cloud
    /\ pc \in {"destroy_nodes", "destroy_cluster", "detach_and_destroy_gw", "destroy_subnets"} =>
          cloud \cap Subnets \subseteq subnets_intern

(* What is gone when the commands that take things down have all worked. *)
Undone ==
    cleanup = 0 =>
        /\ pc = "destroy_subnets" => "attached" \notin cloud
        /\ pc = "destroy_subnets_group" => cloud \subseteq {"vpc", "gw", "group"}
        /\ pc = "destroy_vpc" => cloud \subseteq {"vpc", "gw"}

(* Only delete_rds_cluster has the cluster deleted, after its members, and *)
(* only a cluster that there is can be on its way out.                     *)
OnItsWay ==
    Going \in cloud =>
        /\ "cluster" \in cloud
        /\ pc \in {"wait_cluster", "delete_subnets", "delete_subnets_group", "delete_gw",
                   "delete_vpc", "deleted"}

(* create_rds_db returns with the whole network or without a cluster. *)
Returned ==
    pc = "idle" => \/ result = "0" /\ cloud = Resources
                   \/ result = "-1" /\ "cluster" \notin cloud

(* What is left of the network when delete_rds_cluster is about to make each *)
(* call, if its commands have all worked.                                    *)
Remaining ==
    /\ pc \in {"get_cluster", "get_subnets"} => cloud = Resources
    /\ cleanup = 0 =>
        /\ pc \in {"delete_nodes", "wait_nodes", "delete_cluster"} => cloud = Resources
        /\ pc \in {"delete_nodes", "wait_nodes", "delete_cluster", "wait_cluster",
                   "delete_subnets", "delete_subnets_group", "delete_gw", "delete_vpc"} =>
              vpc_id_intern = "vpc" /\ subnets_intern = Subnets
        /\ pc = "wait_cluster" => cloud = Resources \cup {Going} \/ cloud = Network
        /\ pc = "delete_subnets" => cloud = Network
        /\ pc = "delete_subnets_group" => cloud = Network \ Subnets
        /\ pc = "delete_gw" => cloud = {"vpc", "gw", "attached"}
        /\ pc = "delete_vpc" => cloud = {"vpc"}
        /\ pc \in {"delete_cluster", "wait_cluster", "delete_subnets", "delete_subnets_group",
                   "delete_gw", "delete_vpc", "deleted"} => Live = {}

RdsInv ==
    /\ RdsTypes
    /\ Built /\ Unfinished /\ OnItsWay /\ Undone /\ Returned /\ Remaining
    /\ RollbackLeavesGateway /\ DeletedIsGone

-----------------------------------------------------------------------------
LEMMA TypeParts == RdsTypes => TypeOK
BY DEF RdsTypes, TypeOK, Things, Machines, Steps, Words, Counters

(* Sets of failed commands are finite, and none has failed if they count 0. *)
LEMMA Counted ==
    ASSUME NEW S, S \subseteq Instances \/ S \subseteq Subnets, NEW failed \in SUBSET S
    PROVE  Cardinality(failed) \in Nat /\ (Cardinality(failed) = 0 => failed = {})
<1>1. IsFiniteSet(Instances)
  BY RdsAssumption, FS_Interval DEF Instances
<1>2. IsFiniteSet(Subnets)
  <2>1. IsFiniteSet({"subnet1"}) /\ IsFiniteSet({"subnet2"})
    BY FS_Singleton
  <2>2. Subnets = {"subnet1"} \cup {"subnet2"}
    BY DEF Subnets
  <2>. QED BY <2>1, <2>2, FS_Union
<1>3. IsFiniteSet(failed)
  BY <1>1, <1>2, FS_Subset
<1>. QED BY <1>3, FS_CardinalityType, FS_EmptySet

(* Failures are only ever added, up to the bound. *)
LEMMA CountersGrow ==
    ASSUME Counters,
           \/ (Fails \/ Works) /\ UNCHANGED cleanup
           \/ FailsDown \/ WorksDown
    PROVE  Counters' /\ cleanup' >= cleanup /\ (FailsDown => cleanup' # 0)
BY RdsAssumption DEF Counters, Fails, Works, FailsDown, WorksDown

LEMMA SubnetsCount ==
    ASSUME Counters, Things, SubnetsDown
    PROVE  /\ Counters'
           /\ cleanup' >= cleanup
           /\ cloud' \subseteq cloud /\ cloud \ Subnets \subseteq cloud'
           /\ cleanup' = 0 /\ Live = {} => cloud' = cloud \ subnets_intern
<1>1. PICK failed \in SUBSET subnets_intern :
          /\ failures + 2 * Cardinality(failed) <= MaxFailures
          /\ failures' = failures + 2 * Cardinality(failed)
          /\ cleanup' = cleanup + 2 * Cardinality(failed)
          /\ cloud' = IF Live = {} THEN cloud \ (subnets_intern \ failed) ELSE cloud
  BY DEF SubnetsDown
<1>2. Cardinality(failed) \in Nat /\ (Cardinality(failed) = 0 => failed = {})
  BY Counted DEF Things
<1>3. Counters' /\ cleanup' >= cleanup /\ (cleanup' = 0 => Cardinality(failed) = 0)
  <2>. DEFINE c == Cardinality(failed)
  <2>1. /\ c \in Nat /\ failures + 2 * c <= MaxFailures
        /\ failures' = failures + 2 * c /\ cleanup' = cleanup + 2 * c
    BY <1>1, <1>2
  <2>. HIDE DEF c
  <2>2. Counters' /\ cleanup' >= cleanup /\ (cleanup' = 0 => c = 0)
    BY <2>1, RdsAssumption DEF Counters
  <2>. QED BY <2>2 DEF c
<1>. QED BY <1>1, <1>2, <1>3 DEF Things

LEMMA InitRds == Init => RdsInv
<1>. SUFFICES ASSUME Init PROVE RdsInv
  OBVIOUS
<1>1. RdsTypes
  <2>1. Things /\ Machines /\ Steps /\ Counters
    BY RdsAssumption DEF Init, Things, Machines, Steps, Counters, CreateSteps
  <2>2. Words
    BY DEF Init, Words
  <2>. QED BY <2>1, <2>2 DEF RdsTypes
<1>2. Built /\ Unfinished /\ OnItsWay /\ Undone /\ Returned /\ Remaining
  BY DEF Init, Built, Unfinished, OnItsWay, Undone, Returned, Remaining, CreateSteps, DestroySteps, Live
<1>3. RollbackLeavesGateway /\ DeletedIsGone
  BY DEF Init, RollbackLeavesGateway, DeletedIsGone
<1>. QED BY <1>1, <1>2, <1>3 DEF RdsInv

LEMMA NextRds == RdsInv /\ [Next]_vars => RdsInv'
<1>. SUFFICES ASSUME RdsInv, [Next]_vars PROVE RdsInv'
  OBVIOUS
<1>. USE RdsAssumption
         DEF RdsInv, Resources, Network, Going, Subnets, CreateSteps, DestroySteps, DeleteSteps,
             fields, OnItsWay
<1>0. Things /\ Machines /\ Steps /\ Words /\ Counters
  BY DEF RdsTypes
<1>1. CASE create_vpc
  <2>1. Things' /\ Machines'
    BY <1>0, <1>1, CountersGrow DEF create_vpc, Goes, Things, Machines, Live
  <2>2. Steps'
    BY <1>1 DEF create_vpc, Goes, Steps
  <2>3. Counters' /\ cleanup' >= cleanup
    BY <1>0, <1>1, CountersGrow DEF create_vpc, Goes
  <2>4. Words'
    BY <1>0, <1>1, Zenon DEF create_vpc, Goes, Words
  <2>5. (Built /\ Unfinished /\ OnItsWay /\ Undone /\ RollbackLeavesGateway)'
    BY <1>0, <1>1, <2>3, CountersGrow
       DEF create_vpc, Goes, Counters, Words, Things, Live, Built, Unfinished, Undone,
           RollbackLeavesGateway
  <2>6. (Returned /\ Remaining /\ DeletedIsGone)'
    BY <1>0, <1>1, <2>3, CountersGrow
       DEF create_vpc, Goes, Counters, Words, Things, Live, Built, Unfinished, Returned,
           Remaining, DeletedIsGone
  <2>. QED BY <2>1, <2>2, <2>3, <2>4, <2>5, <2>6 DEF RdsTypes
<1>2. CASE create_subnet("subnet1")
  <2>1. Things' /\ Machines'
    BY <1>0, <1>2, CountersGrow DEF create_subnet, Things, Machines, Live
  <2>2. Steps'
    BY <1>2 DEF create_subnet, Steps
  <2>3. Counters' /\ cleanup' >= cleanup
    BY <1>0, <1>2, CountersGrow DEF create_subnet
  <2>4. Words'
    BY <1>0, <1>2, Zenon DEF create_subnet, Words
  <2>5. (Built /\ Unfinished /\ OnItsWay /\ Undone /\ RollbackLeavesGateway)'
    BY <1>0, <1>2, <2>3, CountersGrow
       DEF create_subnet, Counters, Words, Things, Live, Built, Unfinished, Undone,
           RollbackLeavesGateway
  <2>6. (Returned /\ Remaining /\ DeletedIsGone)'
    BY <1>0, <1>2, <2>3, CountersGrow
       DEF create_subnet, Counters, Words, Things, Live, Built, Unfinished, Returned, Remaining,
           DeletedIsGone
  <2>. QED BY <2>1, <2>2, <2>3, <2>4, <2>5, <2>6 DEF RdsTypes
<1>3. CASE create_subnet("subnet2")
  <2>1. Things' /\ Machines'
    BY <1>0, <1>3, CountersGrow DEF create_subnet, Things, Machines, Live
  <2>2. Steps'
    BY <1>3 DEF create_subnet, Steps
  <2>3. Counters' /\ cleanup' >= cleanup
    BY <1>0, <1>3, CountersGrow DEF create_subnet
  <2>4. Words'
    BY <1>0, <1>3, Zenon DEF create_subnet, Words
  <2>5. (Built /\ Unfinished /\ OnItsWay /\ Undone /\ RollbackLeavesGateway)'
    BY <1>0, <1>3, <2>3, CountersGrow
       DEF create_subnet, Counters, Words, Things, Live, Built, Unfinished, Undone,
           RollbackLeavesGateway
  <2>6. (Returned /\ Remaining /\ DeletedIsGone)'
    BY <1>0, <1>3, <2>3, CountersGrow
       DEF create_subnet, Counters, Words, Things, Live, Built, Unfinished, Returned, Remaining,
           DeletedIsGone
  <2>. QED BY <2>1, <2>2, <2>3, <2>4, <2>5, <2>6 DEF RdsTypes
<1>4. CASE create_subnet_group
  <2>1. Things' /\ Machines'
    BY <1>0, <1>4, CountersGrow DEF create_subnet_group, Goes, Things, Machines, Live
  <2>2. Steps'
    BY <1>4 DEF create_subnet_group, Goes, Steps
  <2>3. Counters' /\ cleanup' >= cleanup
    BY <1>0, <1>4, CountersGrow DEF create_subnet_group, Goes
  <2>4. Words'
    BY <1>0, <1>4, Zenon DEF create_subnet_group, Goes, Words
  <2>5. (Built /\ Unfinished /\ OnItsWay /\ Undone /\ RollbackLeavesGateway)'
    BY <1>0, <1>4, <2>3, CountersGrow
       DEF create_subnet_group, Goes, Counters, Words, Things, Live, Built, Unfinished, Undone,
           RollbackLeavesGateway
  <2>6. (Returned /\ Remaining /\ DeletedIsGone)'
    BY <1>0, <1>4, <2>3, CountersGrow
       DEF create_subnet_group, Goes, Counters, Words, Things, Live, Built, Unfinished,
           Returned, Remaining, DeletedIsGone
  <2>. QED BY <2>1, <2>2, <2>3, <2>4, <2>5, <2>6 DEF RdsTypes
<1>5. CASE create_gw
  <2>1. Things' /\ Machines'
    BY <1>0, <1>5, CountersGrow DEF create_gw, Goes, Things, Machines, Live
  <2>2. Steps'
    BY <1>5 DEF create_gw, Goes, Steps
  <2>3. Counters' /\ cleanup' >= cleanup
    BY <1>0, <1>5, CountersGrow DEF create_gw, Goes
  <2>4. Words'
    BY <1>0, <1>5, Zenon DEF create_gw, Goes, Words
  <2>5. (Built /\ Unfinished /\ OnItsWay /\ Undone /\ RollbackLeavesGateway)'
    BY <1>0, <1>5, <2>3, CountersGrow
       DEF create_gw, Goes, Counters, Words, Things, Live, Built, Unfinished, Undone,
           RollbackLeavesGateway
  <2>6. (Returned /\ Remaining /\ DeletedIsGone)'
    BY <1>0, <1>5, <2>3, CountersGrow
       DEF create_gw, Goes, Counters, Words, Things, Live, Built, Unfinished, Returned,
           Remaining, DeletedIsGone
  <2>. QED BY <2>1, <2>2, <2>3, <2>4, <2>5, <2>6 DEF RdsTypes
<1>6. CASE configure_route_table
  <2>1. Things' /\ Machines'
    BY <1>0, <1>6, CountersGrow DEF configure_route_table, Goes, Things, Machines, Live
  <2>2. Steps'
    BY <1>6 DEF configure_route_table, Goes, Steps
  <2>3. Counters' /\ cleanup' >= cleanup
    BY <1>0, <1>6, CountersGrow DEF configure_route_table, Goes
  <2>4. Words'
    BY <1>0, <1>6, Zenon DEF configure_route_table, Goes, Words
  <2>5. (Built /\ Unfinished /\ OnItsWay /\ Undone /\ RollbackLeavesGateway)'
    BY <1>0, <1>6, <2>3, CountersGrow
       DEF configure_route_table, Goes, Counters, Words, Things, Live, Built, Unfinished,
           Undone, RollbackLeavesGateway
  <2>6. (Returned /\ Remaining /\ DeletedIsGone)'
    BY <1>0, <1>6, <2>3, CountersGrow
       DEF configure_route_table, Goes, Counters, Words, Things, Live, Built, Unfinished,
           Returned, Remaining, DeletedIsGone
  <2>. QED BY <2>1, <2>2, <2>3, <2>4, <2>5, <2>6 DEF RdsTypes
<1>7. CASE create_cluster
  <2>1. Things' /\ Machines'
    BY <1>0, <1>7, CountersGrow DEF create_cluster, Goes, Things, Machines, Live
  <2>2. Steps'
    BY <1>7 DEF create_cluster, Goes, Steps
  <2>3. Counters' /\ cleanup' >= cleanup
    <3>1. CASE Fails /\ UNCHANGED cleanup
      BY <1>0, <3>1, CountersGrow
    <3>2. ASSUME NEW failed \in SUBSET Instances,
                 failures + Cardinality(failed) <= MaxFailures,
                 failures' = failures + Cardinality(failed), UNCHANGED cleanup
          PROVE  Counters' /\ cleanup' >= cleanup
      BY <1>0, <3>2, Counted DEF Counters
    <3>. QED BY <1>7, <3>1, <3>2 DEF create_cluster
  <2>4. Words'
    BY <1>0, <1>7, Zenon DEF create_cluster, Goes, Words
  <2>5. (Built /\ Unfinished /\ OnItsWay /\ Undone /\ RollbackLeavesGateway)'
    BY <1>0, <1>7, <2>3, CountersGrow
       DEF create_cluster, Goes, Counters, Words, Things, Live, Built, Unfinished, Undone,
           RollbackLeavesGateway
  <2>6. (Returned /\ Remaining /\ DeletedIsGone)'
    BY <1>0, <1>7, <2>3, CountersGrow
       DEF create_cluster, Goes, Counters, Words, Things, Live, Built, Unfinished, Returned,
           Remaining, DeletedIsGone
  <2>. QED BY <2>1, <2>2, <2>3, <2>4, <2>5, <2>6 DEF RdsTypes
<1>8. CASE destroy_nodes
  <2>1. Things' /\ Machines'
    BY <1>0, <1>8, CountersGrow DEF destroy_nodes, Crashes, Things, Machines, Live
  <2>2. Steps'
    BY <1>8 DEF destroy_nodes, Crashes, Steps
  <2>3. Counters' /\ cleanup' >= cleanup
    <3>1. CASE FailsDown \/ WorksDown
      BY <1>0, <3>1, CountersGrow
    <3>2. CASE Crashes
      BY <1>0, <3>2 DEF Crashes, Counters
    <3>. QED BY <1>8, <3>1, <3>2 DEF destroy_nodes
  <2>4. Words'
    BY <1>0, <1>8, Zenon DEF destroy_nodes, Crashes, Words
  <2>5. (Built /\ Unfinished /\ OnItsWay /\ Undone /\ RollbackLeavesGateway)'
    BY <1>0, <1>8, <2>3, CountersGrow
       DEF destroy_nodes, Crashes, Counters, Words, Things, Live, Built, Unfinished, Undone,
           RollbackLeavesGateway
  <2>6. (Returned /\ Remaining /\ DeletedIsGone)'
    BY <1>0, <1>8, <2>3, CountersGrow
       DEF destroy_nodes, Crashes, Counters, Words, Things, Live, Built, Unfinished, Returned,
           Remaining, DeletedIsGone
  <2>. QED BY <2>1, <2>2, <2>3, <2>4, <2>5, <2>6 DEF RdsTypes
<1>9. CASE destroy_cluster
  <2>1. Things' /\ Machines'
    BY <1>0, <1>9, CountersGrow DEF destroy_cluster, ClusterDown, Things, Machines, Live
  <2>2. Steps'
    BY <1>9 DEF destroy_cluster, ClusterDown, Steps
  <2>3. Counters' /\ cleanup' >= cleanup
    BY <1>0, <1>9, CountersGrow DEF destroy_cluster, ClusterDown
  <2>4. Words'
    BY <1>0, <1>9, Zenon DEF destroy_cluster, ClusterDown, Words
  <2>5. (Built /\ Unfinished /\ OnItsWay /\ Undone /\ RollbackLeavesGateway)'
    BY <1>0, <1>9, <2>3, CountersGrow
       DEF destroy_cluster, ClusterDown, Counters, Words, Things, Live, Built, Unfinished, Undone,
           RollbackLeavesGateway
  <2>6. (Returned /\ Remaining /\ DeletedIsGone)'
    BY <1>0, <1>9, <2>3, CountersGrow
       DEF destroy_cluster, ClusterDown, Counters, Words, Things, Live, Built, Unfinished, Returned,
           Remaining, DeletedIsGone
  <2>. QED BY <2>1, <2>2, <2>3, <2>4, <2>5, <2>6 DEF RdsTypes
<1>10. CASE detach_and_destroy_gw
  <2>1. Things' /\ Machines'
    BY <1>0, <1>10, CountersGrow DEF detach_and_destroy_gw, Gateways, Things, Machines, Live
  <2>2. Steps'
    BY <1>10 DEF detach_and_destroy_gw, Gateways, Steps
  <2>3. Counters' /\ cleanup' >= cleanup
    BY <1>0, <1>10, CountersGrow DEF detach_and_destroy_gw, Gateways
  <2>4. Words'
    BY <1>0, <1>10, Zenon DEF detach_and_destroy_gw, Gateways, Words
  <2>5. (Built /\ Unfinished /\ OnItsWay /\ Undone /\ RollbackLeavesGateway)'
    BY <1>0, <1>10, <2>3, CountersGrow
       DEF detach_and_destroy_gw, Gateways, Counters, Words, Things, Live, Built, Unfinished,
           Undone, RollbackLeavesGateway
  <2>6. (Returned /\ Remaining /\ DeletedIsGone)'
    BY <1>0, <1>10, <2>3, CountersGrow
       DEF detach_and_destroy_gw, Gateways, Counters, Words, Things, Live, Built, Unfinished,
           Returned, Remaining, DeletedIsGone
  <2>. QED BY <2>1, <2>2, <2>3, <2>4, <2>5, <2>6 DEF RdsTypes
<1>11. CASE destroy_subnets
  <2>1. Things' /\ Machines'
    BY <1>0, <1>11, SubnetsCount DEF destroy_subnets, Things, Machines, Live
  <2>2. Steps'
    BY <1>11 DEF destroy_subnets, Steps
  <2>3. Counters' /\ cleanup' >= cleanup
    BY <1>0, <1>11, SubnetsCount DEF destroy_subnets
  <2>4. Words'
    BY <1>0, <1>11, Zenon DEF destroy_subnets, Words
  <2>5. /\ "cluster" \notin cloud /\ Live = {} /\ Live' = {} /\ vpc_id_intern = "vpc"
        /\ cloud \cap Subnets \subseteq subnets_intern
        /\ cleanup = 0 => "attached" \notin cloud
    BY <1>11 DEF destroy_subnets, Unfinished, Undone, Live
  <2>6. pc' = "destroy_subnets_group" /\ vpc_id_intern' = vpc_id_intern
    BY <1>11 DEF destroy_subnets
  <2>7. /\ cloud' \subseteq cloud
        /\ cleanup' = 0 => cloud' = cloud \ subnets_intern /\ cleanup = 0
    BY <1>0, <1>11, <2>3, <2>5, SubnetsCount DEF destroy_subnets, Counters
  <2>8. (Built /\ RollbackLeavesGateway)'
    BY <2>6 DEF Built, RollbackLeavesGateway
  <2>9. (Unfinished /\ OnItsWay)'
    BY <2>5, <2>6, <2>7 DEF Unfinished
  <2>10. cleanup' = 0 => cloud' \subseteq {"vpc", "gw", "group"}
    BY <1>0, <2>5, <2>7 DEF Things
  <2>11. Undone'
    BY <2>6, <2>10 DEF Undone
  <2>12. (Returned /\ Remaining /\ DeletedIsGone)'
    BY <1>0, <1>11, <2>3, SubnetsCount
       DEF destroy_subnets, Counters, Words, Things, Live, Built, Unfinished, Returned,
           Remaining, DeletedIsGone
  <2>. QED BY <2>1, <2>2, <2>3, <2>4, <2>8, <2>9, <2>11, <2>12 DEF RdsTypes
<1>12. CASE destroy_subnets_group
  <2>1. Things' /\ Machines'
    BY <1>0, <1>12, CountersGrow
       DEF destroy_subnets_group, Crashes, GroupDown, Removes, Things, Machines, Live
  <2>2. Steps'
    BY <1>12 DEF destroy_subnets_group, Crashes, GroupDown, Removes, Steps
  <2>3. Counters' /\ cleanup' >= cleanup
    <3>1. CASE FailsDown \/ WorksDown
      BY <1>0, <3>1, CountersGrow
    <3>2. CASE Crashes
      BY <1>0, <3>2 DEF Crashes, Counters
    <3>. QED BY <1>12, <3>1, <3>2 DEF destroy_subnets_group, GroupDown, Removes
  <2>4. Words'
    BY <1>0, <1>12, Zenon DEF destroy_subnets_group, Crashes, GroupDown, Removes, Words
  <2>5. /\ "cluster" \notin cloud /\ Live = {} /\ Live' = {} /\ vpc_id_intern = "vpc"
        /\ cleanup = 0 => cloud \subseteq {"vpc", "gw", "group"}
    BY <1>12 DEF destroy_subnets_group, Unfinished, Undone, Live
  <2>6. vpc_id_intern' = vpc_id_intern /\ pc' \in {"crashed", "destroy_vpc"}
    BY <1>12 DEF destroy_subnets_group, Crashes
  <2>7. cloud' \subseteq cloud
    BY <1>12 DEF destroy_subnets_group, Crashes, GroupDown, Removes
  <2>8. pc' = "destroy_vpc" /\ cleanup' = 0 => cleanup = 0 /\ "group" \notin cloud'
    BY <1>0, <1>12, <2>3, <2>5, CountersGrow
       DEF destroy_subnets_group, Crashes, GroupDown, Removes, Counters
  <2>9. (Built /\ RollbackLeavesGateway)'
    BY <2>6 DEF Built, RollbackLeavesGateway
  <2>10. (Unfinished /\ OnItsWay)'
    BY <2>5, <2>6, <2>7 DEF Unfinished
  <2>11. Undone'
    BY <2>5, <2>6, <2>7, <2>8 DEF Undone
  <2>12. (Returned /\ Remaining /\ DeletedIsGone)'
    BY <1>0, <1>12, <2>3, CountersGrow
       DEF destroy_subnets_group, Crashes, GroupDown, Removes, Counters, Words, Things, Live,
           Built, Unfinished, Returned, Remaining, DeletedIsGone
  <2>. QED BY <2>1, <2>2, <2>3, <2>4, <2>9, <2>10, <2>11, <2>12 DEF RdsTypes
<1>13. CASE destroy_vpc
  <2>1. Things' /\ Machines'
    BY <1>0, <1>13, CountersGrow DEF destroy_vpc, Crashes, VpcDown, Removes, Things, Machines, Live
  <2>2. Steps'
    BY <1>13 DEF destroy_vpc, Crashes, VpcDown, Removes, Steps
  <2>3. Counters' /\ cleanup' >= cleanup
    <3>1. CASE FailsDown \/ WorksDown
      BY <1>0, <3>1, CountersGrow
    <3>2. CASE Crashes
      BY <1>0, <3>2 DEF Crashes, Counters
    <3>. QED BY <1>13, <3>1, <3>2 DEF destroy_vpc, VpcDown, Removes
  <2>4. Words'
    BY <1>0, <1>13, Zenon DEF destroy_vpc, Crashes, VpcDown, Removes, Words
  <2>5. (Built /\ Unfinished /\ OnItsWay /\ Undone)'
    BY <1>13 DEF destroy_vpc, Crashes, VpcDown, Removes, Built, Unfinished, Undone
  <2>6. pc' = "idle" /\ cleanup' = 0 => cleanup = 0 /\ WorksDown
    BY <1>0, <1>13, <2>3, CountersGrow DEF destroy_vpc, Crashes, VpcDown, Removes, Counters
  <2>7. ASSUME pc' = "idle", cleanup' = 0 PROVE cloud' \subseteq {"gw"}
    <3>1. cloud \subseteq {"vpc", "gw"} /\ ("vpc" \in cloud => vpc_id_intern = "vpc")
      BY <1>13, <2>6, <2>7 DEF destroy_vpc, Undone, Unfinished
    <3>2. cloud \cap (Subnets \cup {"attached"}) = {}
      BY <3>1
    <3>3. CASE "vpc" \in cloud
      BY <1>0, <1>13, <2>7, <3>1, <3>2, <3>3, CountersGrow DEF destroy_vpc, Crashes, VpcDown, Removes
    <3>4. CASE "vpc" \notin cloud
      <4>1. cloud' = cloud \/ cloud' = cloud \ {"vpc"}
        BY <1>13, Zenon DEF destroy_vpc, Crashes, VpcDown, Removes
      <4>2. \A r \in cloud : r = "gw"
        BY <3>1, <3>4
      <4>. QED BY <4>1, <4>2
    <3>. QED BY <3>3, <3>4
  <2>8. RollbackLeavesGateway'
    BY <2>7 DEF RollbackLeavesGateway
  <2>9. (Returned /\ Remaining /\ DeletedIsGone)'
    BY <1>0, <1>13, <2>3, CountersGrow
       DEF destroy_vpc, Crashes, VpcDown, Removes, Counters, Words, Things, Live, Built, Unfinished,
           Returned, Remaining, DeletedIsGone
  <2>. QED BY <2>1, <2>2, <2>3, <2>4, <2>5, <2>8, <2>9 DEF RdsTypes
<1>14. CASE DeleteStarts
  <2>1. Things' /\ Machines'
    BY <1>0, <1>14, CountersGrow DEF DeleteStarts, NewObject, Things, Machines, Live
  <2>2. Steps'
    BY <1>14 DEF DeleteStarts, NewObject, Steps
  <2>3. Counters'
    BY <1>0, <1>14 DEF DeleteStarts, Counters
  <2>4. Words'
    BY <1>0, <1>14, Zenon DEF DeleteStarts, NewObject, Words
  <2>5. (Built /\ Unfinished /\ OnItsWay /\ Undone /\ RollbackLeavesGateway)'
    BY <1>0, <1>14, <2>3, CountersGrow
       DEF DeleteStarts, NewObject, Counters, Words, Things, Live, Built, Unfinished, Undone,
           RollbackLeavesGateway
  <2>6. (Returned /\ Remaining /\ DeletedIsGone)'
    BY <1>0, <1>14, <2>3, CountersGrow
       DEF DeleteStarts, NewObject, Counters, Words, Things, Live, Built, Unfinished, Returned,
           Remaining, DeletedIsGone
  <2>. QED BY <2>1, <2>2, <2>3, <2>4, <2>5, <2>6 DEF RdsTypes
<1>15. CASE get_cluster
  <2>1. Things' /\ Machines'
    BY <1>0, <1>15, CountersGrow DEF get_cluster, Describe, Things, Machines, Live
  <2>2. Steps'
    BY <1>15 DEF get_cluster, Describe, Steps
  <2>3. Counters' /\ cleanup' >= cleanup
    BY <1>0, <1>15, CountersGrow DEF get_cluster, Describe
  <2>4. Words'
    BY <1>0, <1>15, Zenon DEF get_cluster, Describe, Words
  <2>5. (Built /\ Unfinished /\ OnItsWay /\ Undone /\ RollbackLeavesGateway)'
    BY <1>0, <1>15, <2>3, CountersGrow
       DEF get_cluster, Describe, Counters, Words, Things, Live, Built, Unfinished, Undone,
           RollbackLeavesGateway
  <2>6. (Returned /\ Remaining /\ DeletedIsGone)'
    BY <1>0, <1>15, <2>3, CountersGrow
       DEF get_cluster, Describe, Counters, Words, Things, Live, Built, Unfinished, Returned,
           Remaining, DeletedIsGone
  <2>. QED BY <2>1, <2>2, <2>3, <2>4, <2>5, <2>6 DEF RdsTypes
<1>16. CASE get_subnets
  <2>1. Things' /\ Machines'
    BY <1>0, <1>16, CountersGrow DEF get_subnets, Things, Machines, Live
  <2>2. Steps'
    BY <1>16 DEF get_subnets, Steps
  <2>3. Counters' /\ cleanup' >= cleanup
    BY <1>0, <1>16, CountersGrow DEF get_subnets
  <2>4. Words'
    BY <1>0, <1>16, Zenon DEF get_subnets, Words
  <2>5. (Built /\ Unfinished /\ OnItsWay /\ Undone /\ RollbackLeavesGateway)'
    BY <1>0, <1>16, <2>3, CountersGrow
       DEF get_subnets, Built, Unfinished, Undone, Remaining, RollbackLeavesGateway
  <2>6. (Returned /\ DeletedIsGone)'
    BY <1>16 DEF get_subnets, Returned, DeletedIsGone
  <2>7. cleanup' = 0 => cleanup = 0 /\ WorksDown
    BY <1>0, <1>16, <2>3, CountersGrow DEF get_subnets, Counters
  <2>8. /\ cloud' = Resources
        /\ cleanup' = 0 => vpc_id_intern' = "vpc" /\ subnets_intern' = Subnets
    <3>1. cloud = Resources /\ cloud' = Resources
      BY <1>16 DEF get_subnets, Remaining
    <3>2. ASSUME cleanup' = 0 PROVE vpc_id_intern' = "vpc" /\ subnets_intern' = cloud \cap Subnets
      BY <1>0, <1>16, <3>2, CountersGrow DEF get_subnets
    <3>. QED BY <3>1, <3>2
  <2>9. Remaining'
    BY <1>16, <2>8 DEF get_subnets, Remaining
  <2>. QED BY <2>1, <2>2, <2>3, <2>4, <2>5, <2>6, <2>9 DEF RdsTypes
<1>17. CASE delete_nodes
  <2>1. Things' /\ Machines'
    BY <1>0, <1>17, CountersGrow DEF delete_nodes, Things, Machines, Live
  <2>2. Steps'
    BY <1>17 DEF delete_nodes, Steps
  <2>3. Counters' /\ cleanup' >= cleanup
    <3>1. PICK failed \in SUBSET members :
              /\ failures + Cardinality(failed) <= MaxFailures
              /\ failures' = failures + Cardinality(failed)
              /\ cleanup' = cleanup + Cardinality(failed)
      BY <1>17 DEF delete_nodes
    <3>2. Cardinality(failed) \in Nat
      BY <1>0, Counted DEF Things
    <3>. QED BY <1>0, <3>1, <3>2 DEF Counters
  <2>4. Words'
    BY <1>0, <1>17, Zenon DEF delete_nodes, Words
  <2>5. (Built /\ Unfinished /\ OnItsWay /\ Undone /\ RollbackLeavesGateway)'
    BY <1>0, <1>17, <2>3, CountersGrow
       DEF delete_nodes, Counters, Words, Things, Live, Built, Unfinished, Undone,
           RollbackLeavesGateway
  <2>6. (Returned /\ Remaining /\ DeletedIsGone)'
    BY <1>0, <1>17, <2>3, CountersGrow
       DEF delete_nodes, Counters, Words, Things, Live, Built, Unfinished, Returned, Remaining,
           DeletedIsGone
  <2>. QED BY <2>1, <2>2, <2>3, <2>4, <2>5, <2>6 DEF RdsTypes
<1>18. CASE wait_nodes
  <2>1. Things' /\ Machines'
    BY <1>0, <1>18, CountersGrow DEF wait_nodes, Describe, Things, Machines, Live
  <2>2. Steps'
    BY <1>18 DEF wait_nodes, Describe, Steps
  <2>3. Counters' /\ cleanup' >= cleanup
    BY <1>0, <1>18, CountersGrow DEF wait_nodes, Describe
  <2>4. Words'
    BY <1>0, <1>18, Zenon DEF wait_nodes, Describe, Words
  <2>5. (Built /\ Unfinished /\ OnItsWay /\ Undone /\ RollbackLeavesGateway)'
    BY <1>0, <1>18, <2>3, CountersGrow
       DEF wait_nodes, Describe, Counters, Words, Things, Live, Built, Unfinished, Undone,
           RollbackLeavesGateway
  <2>6. (Returned /\ Remaining /\ DeletedIsGone)'
    BY <1>0, <1>18, <2>3, CountersGrow
       DEF wait_nodes, Describe, Counters, Words, Things, Live, Built, Unfinished, Returned,
           Remaining, DeletedIsGone
  <2>. QED BY <2>1, <2>2, <2>3, <2>4, <2>5, <2>6 DEF RdsTypes
<1>19. CASE delete_cluster
  <2>1. Things' /\ Machines'
    BY <1>0, <1>19, CountersGrow DEF delete_cluster, ClusterDown, Things, Machines, Live
  <2>2. Steps'
    BY <1>19 DEF delete_cluster, ClusterDown, Steps
  <2>3. Counters' /\ cleanup' >= cleanup
    BY <1>0, <1>19, CountersGrow DEF delete_cluster, ClusterDown
  <2>4. Words'
    BY <1>0, <1>19, Zenon DEF delete_cluster, ClusterDown, Words
  <2>5. (Built /\ Unfinished /\ OnItsWay /\ Undone /\ RollbackLeavesGateway)'
    BY <1>0, <1>19, <2>3, CountersGrow
       DEF delete_cluster, ClusterDown, Counters, Words, Things, Live, Built, Unfinished, Undone,
           RollbackLeavesGateway
  <2>6. (Returned /\ Remaining /\ DeletedIsGone)'
    BY <1>0, <1>19, <2>3, CountersGrow
       DEF delete_cluster, ClusterDown, Counters, Words, Things, Live, Built, Unfinished, Returned,
           Remaining, DeletedIsGone
  <2>. QED BY <2>1, <2>2, <2>3, <2>4, <2>5, <2>6 DEF RdsTypes
<1>20. CASE wait_cluster
  <2>1. Things' /\ Machines'
    BY <1>0, <1>20, CountersGrow DEF wait_cluster, Describe, Things, Machines, Live
  <2>2. Steps'
    BY <1>20 DEF wait_cluster, Describe, Steps
  <2>3. Counters' /\ cleanup' >= cleanup
    BY <1>0, <1>20, CountersGrow DEF wait_cluster, Describe
  <2>4. Words'
    BY <1>0, <1>20, Zenon DEF wait_cluster, Describe, Words
  <2>5. (Built /\ Unfinished /\ OnItsWay /\ Undone /\ RollbackLeavesGateway)'
    BY <1>0, <1>20, <2>3, CountersGrow
       DEF wait_cluster, Describe, Counters, Words, Things, Live, Built, Unfinished, Undone,
           RollbackLeavesGateway
  <2>6. (Returned /\ Remaining /\ DeletedIsGone)'
    BY <1>0, <1>20, <2>3, CountersGrow
       DEF wait_cluster, Describe, Counters, Words, Things, Live, Built, Unfinished, Returned,
           Remaining, DeletedIsGone
  <2>. QED BY <2>1, <2>2, <2>3, <2>4, <2>5, <2>6 DEF RdsTypes
<1>21. CASE delete_subnets
  <2>1. Things' /\ Machines'
    BY <1>0, <1>21, SubnetsCount DEF delete_subnets, Things, Machines, Live
  <2>2. Steps'
    BY <1>21 DEF delete_subnets, Steps
  <2>3. Counters' /\ cleanup' >= cleanup
    BY <1>0, <1>21, SubnetsCount DEF delete_subnets
  <2>4. Words'
    BY <1>0, <1>21, Zenon DEF delete_subnets, Words
  <2>5. (Built /\ Unfinished /\ OnItsWay /\ Undone /\ RollbackLeavesGateway)'
    BY <1>0, <1>21, <2>3, SubnetsCount
       DEF delete_subnets, Counters, Words, Things, Live, Built, Unfinished, Undone,
           RollbackLeavesGateway
  <2>6. (Returned /\ Remaining /\ DeletedIsGone)'
    BY <1>0, <1>21, <2>3, SubnetsCount
       DEF delete_subnets, Counters, Words, Things, Live, Built, Unfinished, Returned,
           Remaining, DeletedIsGone
  <2>. QED BY <2>1, <2>2, <2>3, <2>4, <2>5, <2>6 DEF RdsTypes
<1>22. CASE delete_subnets_group
  <2>1. Things' /\ Machines'
    BY <1>0, <1>22, CountersGrow
       DEF delete_subnets_group, GroupDown, Removes, Things, Machines, Live
  <2>2. Steps'
    BY <1>22 DEF delete_subnets_group, GroupDown, Removes, Steps
  <2>3. Counters' /\ cleanup' >= cleanup
    BY <1>0, <1>22, CountersGrow DEF delete_subnets_group, GroupDown, Removes
  <2>4. Words'
    BY <1>0, <1>22, Zenon DEF delete_subnets_group, GroupDown, Removes, Words
  <2>5. (Built /\ Unfinished /\ OnItsWay /\ Undone /\ RollbackLeavesGateway)'
    BY <1>0, <1>22, <2>3, CountersGrow
       DEF delete_subnets_group, GroupDown, Removes, Counters, Words, Things, Live, Built,
           Unfinished, Undone, RollbackLeavesGateway
  <2>6. (Returned /\ Remaining /\ DeletedIsGone)'
    BY <1>0, <1>22, <2>3, CountersGrow
       DEF delete_subnets_group, GroupDown, Removes, Counters, Words, Things, Live, Built,
           Unfinished, Returned, Remaining, DeletedIsGone
  <2>. QED BY <2>1, <2>2, <2>3, <2>4, <2>5, <2>6 DEF RdsTypes
<1>23. CASE delete_gw
  <2>1. Things' /\ Machines'
    BY <1>0, <1>23, CountersGrow DEF delete_gw, Gateways, Things, Machines, Live
  <2>2. Steps'
    BY <1>23 DEF delete_gw, Gateways, Steps
  <2>3. Counters' /\ cleanup' >= cleanup
    BY <1>0, <1>23, CountersGrow DEF delete_gw, Gateways
  <2>4. Words'
    BY <1>0, <1>23, Zenon DEF delete_gw, Gateways, Words
  <2>5. (Built /\ Unfinished /\ OnItsWay /\ Undone /\ RollbackLeavesGateway)'
    BY <1>0, <1>23, <2>3, CountersGrow
       DEF delete_gw, Gateways, Counters, Words, Things, Live, Built, Unfinished, Undone,
           RollbackLeavesGateway
  <2>6. (Returned /\ Remaining /\ DeletedIsGone)'
    BY <1>0, <1>23, <2>3, CountersGrow
       DEF delete_gw, Gateways, Counters, Words, Things, Live, Built, Unfinished, Returned,
           Remaining, DeletedIsGone
  <2>. QED BY <2>1, <2>2, <2>3, <2>4, <2>5, <2>6 DEF RdsTypes
<1>24. CASE delete_vpc
  <2>1. Things' /\ Machines'
    BY <1>0, <1>24, CountersGrow DEF delete_vpc, VpcDown, Removes, Things, Machines, Live
  <2>2. Steps'
    BY <1>24 DEF delete_vpc, VpcDown, Removes, Steps
  <2>3. Counters' /\ cleanup' >= cleanup
    BY <1>0, <1>24, CountersGrow DEF delete_vpc, VpcDown, Removes
  <2>4. Words'
    BY <1>0, <1>24, Zenon DEF delete_vpc, VpcDown, Removes, Words
  <2>5. (Built /\ Unfinished /\ OnItsWay /\ Undone /\ RollbackLeavesGateway)'
    BY <1>0, <1>24, <2>3, CountersGrow
       DEF delete_vpc, VpcDown, Removes, Counters, Words, Things, Live, Built, Unfinished,
           Undone, RollbackLeavesGateway
  <2>6. (Returned /\ Remaining /\ DeletedIsGone)'
    BY <1>0, <1>24, <2>3, CountersGrow
       DEF delete_vpc, VpcDown, Removes, Counters, Words, Things, Live, Built, Unfinished,
           Returned, Remaining, DeletedIsGone
  <2>. QED BY <2>1, <2>2, <2>3, <2>4, <2>5, <2>6 DEF RdsTypes
<1>25. CASE \E i \in Instances : InstanceGone(i)
  <2>1. PICK i \in Instances : InstanceGone(i)
    BY <1>25
  <2>2. /\ UNCHANGED <<cloud, vpc_id_intern, subnets_intern, cluster_intern, members, pc, result,
                     failures, cleanup>>
        /\ instances' = [instances EXCEPT ![i] = "none"]
    BY <2>1 DEF InstanceGone
  <2>3. Machines'
    BY <1>0, <2>2 DEF Machines
  <2>4. Live' \subseteq Live
    BY <1>0, <2>2 DEF Machines, Live
  <2>5. (Things /\ Steps /\ Counters)'
    BY <1>0, <2>2 DEF Things, Steps, Counters
  <2>6. Words'
    BY <1>0, <2>2 DEF Words
  <2>7. (Built /\ Unfinished /\ OnItsWay /\ Undone /\ RollbackLeavesGateway)'
    BY <2>2, <2>4 DEF Built, Unfinished, Undone, RollbackLeavesGateway
  <2>8. (Returned /\ Remaining /\ DeletedIsGone)'
    BY <2>2, <2>4 DEF Returned, Remaining, DeletedIsGone
  <2>. QED BY <2>3, <2>5, <2>6, <2>7, <2>8 DEF RdsTypes
<1>26. CASE ClusterGone
  <2>1. /\ Going \in cloud /\ cloud' = cloud \ {"cluster", Going}
        /\ UNCHANGED <<instances, vpc_id_intern, subnets_intern, cluster_intern, members, pc, result,
                     failures, cleanup>>
    BY <1>26 DEF ClusterGone
  <2>2. (Things /\ Machines /\ Steps /\ Counters)'
    BY <1>0, <2>1 DEF Things, Machines, Steps, Counters
  <2>3. Words'
    BY <1>0, <2>1 DEF Words
  <2>4. (Built /\ Unfinished /\ OnItsWay /\ Undone /\ RollbackLeavesGateway)'
    BY <2>1 DEF Built, Unfinished, Undone, RollbackLeavesGateway
  <2>5. (Returned /\ Remaining /\ DeletedIsGone)'
    BY <2>1 DEF Returned, Remaining, DeletedIsGone, Live
  <2>. QED BY <2>2, <2>3, <2>4, <2>5 DEF RdsTypes
<1>27. CASE UNCHANGED vars
  BY <1>27
     DEF vars, Live, RdsTypes, Things, Machines, Steps, Words, Counters, Built, Unfinished,
         Undone, RollbackLeavesGateway, Returned, Remaining, DeletedIsGone
<1>. QED BY <1>1, <1>2, <1>3, <1>4, <1>5, <1>6, <1>7, <1>8, <1>9, <1>10, <1>11, <1>12, <1>13,
   <1>14, <1>15, <1>16, <1>17, <1>18, <1>19, <1>20, <1>21, <1>22, <1>23, <1>24, <1>25, <1>26, <1>27
   DEF Next, create_rds_db, delete_rds_cluster

(* The inductive invariant of Rds. *)
THEOREM RdsInvariant == Spec => []RdsInv
<1>. QED BY InitRds, NextRds, PTL DEF Spec

(* The variables of class RDS keep their types, and failures are counted   *)
(* up to the bound.                                                        *)
THEOREM RdsTypeCorrect == Spec => []TypeOK
<1>1. RdsInv => TypeOK
  BY TypeParts DEF RdsInv
<1>. QED BY <1>1, RdsInvariant, PTL

(* create_rds_db returns 0 only with the whole network and the cluster in  *)
(* place, although it ignores the results of create_subnet and the exit    *)
(* code of create-db-cluster: create_subnet_group, which needs both        *)
(* subnets, is what notices a subnet that is missing.                      *)
THEOREM SuccessMeansComplete == Spec => []CreatedIsComplete
<1>1. RdsInv => CreatedIsComplete
  BY DEF RdsInv, Returned, CreatedIsComplete
<1>. QED BY <1>1, RdsInvariant, PTL

(* When create_rds_db fails and every command that takes things down gets  *)
(* through, only a gateway that was never attached can be left behind: the *)
(* subnets, which it takes down before the group, and the VPC are gone.    *)
THEOREM FailureLeavesAtMostGateway == Spec => []RollbackLeavesGateway
<1>1. RdsInv => RollbackLeavesGateway
  BY DEF RdsInv
<1>. QED BY <1>1, RdsInvariant, PTL

(* A delete_rds_cluster whose commands all get through leaves neither a    *)
(* resource nor an instance, however many instances of the cluster were    *)
(* never created, and whenever the others go away.                         *)
THEOREM DeletionLeavesNothing == Spec => []DeletedIsGone
<1>1. RdsInv => DeletedIsGone
  BY DEF RdsInv
<1>. QED BY <1>1, RdsInvariant, PTL
=============================================================================
