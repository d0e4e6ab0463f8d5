----------------------------- MODULE SyncSlaves -----------------------------
(***************************************************************************)
(* Mariadb_nodes::sync_slaves and wait_until_pos: the test thread reads    *)
(* the position of the master's binary log and polls each slave in turn    *)
(* until the slave seems to have got there.  Meanwhile the master may log  *)
(* more and begin a new log file, each slave's IO thread fetches and its   *)
(* SQL thread applies, and slaves may stop or go away.                     *)
(*                                                                         *)
(* A place in the log is a file number and a position in that file.        *)
(***************************************************************************)
EXTENDS Integers

CONSTANTS
    NodeCount,  \* N, the number of nodes; node 0 is the master
    MaxFile,    \* bound: log files the master writes
    MaxPos,     \* bound: events in one log file
    Failures    \* what may happen: a slave stops or dies, the master gives no status

ASSUME SyncAssumption ==
    /\ NodeCount \in Nat \ {0}
    /\ MaxFile \in Nat \ {0} /\ MaxPos \in Nat
    /\ Failures \subseteq {"stop", "die", "no_status"}

Slaves == 1..(NodeCount - 1)
Files  == 1..MaxFile

VARIABLES
    mfile,              \* the file the master writes
    end,                \* how far each file of the master has been written
    io_file, io_pos,    \* how far each IO thread has fetched
    sql_file, sql_pos,  \* how far each SQL thread has applied
    running,            \* slaves whose threads run
    alive,              \* slaves that answer queries

    pc,                 \* "status", "wait" or "done"
    filenum, pos,       \* what SHOW MASTER STATUS returned, 0 before that
    cur,                \* the slave wait_until_pos looks at

    synced,             \* history: slaves that were found to have got there
    crossed             \* history: those whose SQL thread was in an older file then

master   == <<mfile, end>>
slaves   == <<io_file, io_pos, sql_file, sql_pos>>
sync     == <<pc, filenum, pos, cur>>
syncVars == <<master, slaves, running, alive, sync, synced, crossed>>

SyncTypeOK ==
    /\ mfile \in Files
    /\ end \in [Files -> Nat]
    /\ io_file \in [Slaves -> Files] /\ io_pos \in [Slaves -> Nat]
    /\ sql_file \in [Slaves -> Files] /\ sql_pos \in [Slaves -> Nat]
    /\ running \subseteq Slaves /\ alive \subseteq Slaves
    /\ pc \in {"status", "wait", "done"}
    /\ filenum \in Nat /\ pos \in Nat
    /\ cur \in 1..NodeCount
    /\ synced \subseteq Slaves /\ crossed \subseteq synced

SyncInit ==
    /\ mfile = 1
    /\ end = [f \in Files |-> 0]
    /\ io_file = [s \in Slaves |-> 1] /\ io_pos = [s \in Slaves |-> 0]
    /\ sql_file = [s \in Slaves |-> 1] /\ sql_pos = [s \in Slaves |-> 0]
    /\ running = Slaves /\ alive = Slaves
    /\ pc = "status" /\ filenum = 0 /\ pos = 0 /\ cur = 1
    /\ synced = {} /\ crossed = {}

-----------------------------------------------------------------------------
(* The master and the threads of the slaves. *)

MasterWrites ==
    /\ end[mfile] < MaxPos
    /\ end' = [end EXCEPT ![mfile] = @ + 1]
    /\ UNCHANGED <<mfile, slaves, running, alive, sync, synced, crossed>>

(* A restart, FLUSH LOGS or a full file. *)
MasterRotates ==
    /\ mfile < MaxFile
    /\ mfile' = mfile + 1
    /\ UNCHANGED <<end, slaves, running, alive, sync, synced, crossed>>

IoThread(s) ==
    /\ s \in running \cap alive
    /\ \/ /\ io_pos[s] < end[io_file[s]]
          /\ io_pos' = [io_pos EXCEPT ![s] = @ + 1]
          /\ UNCHANGED io_file
       \/ /\ io_pos[s] = end[io_file[s]] /\ io_file[s] < mfile
          /\ io_file' = [io_file EXCEPT ![s] = @ + 1]
          /\ io_pos' = [io_pos EXCEPT ![s] = 0]
    /\ UNCHANGED <<master, sql_file, sql_pos, running, alive, sync, synced, crossed>>

SqlThread(s) ==
    /\ s \in running \cap alive
    /\ \/ /\ \/ sql_file[s] < io_file[s] /\ sql_pos[s] < end[sql_file[s]]
             \/ sql_file[s] = io_file[s] /\ sql_pos[s] < io_pos[s]
          /\ sql_pos' = [sql_pos EXCEPT ![s] = @ + 1]
          /\ UNCHANGED sql_file
       \/ /\ sql_file[s] < io_file[s] /\ sql_pos[s] = end[sql_file[s]]
          /\ sql_file' = [sql_file EXCEPT ![s] = @ + 1]
          /\ sql_pos' = [sql_pos EXCEPT ![s] = 0]
    /\ UNCHANGED <<master, io_file, io_pos, running, alive, sync, synced, crossed>>

SlaveStops(s) ==
    /\ "stop" \in Failures /\ s \in running
    /\ running' = running \ {s}
    /\ UNCHANGED <<master, slaves, alive, sync, synced, crossed>>

SlaveDies(s) ==
    /\ "die" \in Failures /\ s \in alive
    /\ alive' = alive \ {s}
    /\ UNCHANGED <<master, slaves, running, sync, synced, crossed>>

-----------------------------------------------------------------------------
(* sync_slaves *)

show_master_status ==
    /\ pc = "status"
    /\ filenum' = mfile /\ pos' = end[mfile]
    /\ pc' = "wait" /\ cur' = 1
    /\ UNCHANGED <<master, slaves, running, alive, synced, crossed>>

(* The query fails or gives no row: nobody is waited for. *)
NoMasterStatus ==
    /\ pc = "status" /\ "no_status" \in Failures
    /\ pc' = "done"
    /\ UNCHANGED <<master, slaves, running, alive, filenum, pos, cur, synced, crossed>>

(* Master_Log_File, column 5, is where the IO thread is; Exec_Master_Log_Pos, *)
(* column 21, belongs to the file where the SQL thread is.                    *)
slave_filenum(s) == io_file[s]
slave_pos(s) == sql_pos[s]

(* Defective: the position is not compared, or has to be passed. *)
GotThereByFile(s) == slave_filenum(s) >= filenum
GotThereStrictly(s) == slave_filenum(s) >= filenum /\ slave_pos(s) > pos

GotThere(s) == slave_filenum(s) >= filenum /\ slave_pos(s) >= pos

(* One turn of the loop of wait_until_pos that ends it. *)
wait_until_pos ==
    /\ pc = "wait" /\ cur \in Slaves
    /\ cur \in alive => GotThere(cur)
    /\ cur' = cur + 1
    /\ IF cur \in alive
          THEN /\ synced' = synced \cup {cur}
               /\ crossed' = IF sql_file[cur] < filenum THEN crossed \cup {cur} ELSE crossed
          ELSE UNCHANGED <<synced, crossed>>
    /\ UNCHANGED <<master, slaves, running, alive, pc, filenum, pos>>

(* Defective: the loop over the nodes ends one node early. *)
ReturnOneLess ==
    /\ pc = "wait" /\ cur + 1 \notin Slaves
    /\ pc' = "done"
    /\ UNCHANGED <<master, slaves, running, alive, filenum, pos, cur, synced, crossed>>

Return ==
    /\ pc = "wait" /\ cur \notin Slaves
    /\ pc' = "done"
    /\ UNCHANGED <<master, slaves, running, alive, filenum, pos, cur, synced, crossed>>

sync_slaves == show_master_status \/ NoMasterStatus \/ wait_until_pos \/ Return

Replicates == \E s \in Slaves : IoThread(s) \/ SqlThread(s)

SyncNext ==
    \/ MasterWrites \/ MasterRotates
    \/ Replicates
    \/ \E s \in Slaves : SlaveStops(s) \/ SlaveDies(s)
    \/ sync_slaves

SyncSpec == SyncInit /\ [][SyncNext]_syncVars

(* The test polls without a pause and the threads of a slave do their work *)
(* as long as they run; nobody has to write to the master or to rotate.    *)
SyncFairSpec ==
    /\ SyncSpec
    /\ WF_syncVars(sync_slaves)
    /\ \A s \in 1..(NodeCount - 1) : WF_syncVars(IoThread(s)) /\ WF_syncVars(SqlThread(s))

-----------------------------------------------------------------------------
(* Slave s has applied everything up to the place that the master was at.  *)
CaughtUp(s) ==
    \/ sql_file[s] > filenum
    \/ sql_file[s] = filenum /\ sql_pos[s] >= pos

(* A slave is let through although it lags only when its SQL thread was    *)
(* still in an older log file than the one the master was in               *)
(* (wait_until_pos compares the position of one file with that of another).*)
SyncedInSameFile ==
    \A s \in synced \ crossed : CaughtUp(s)

(* Without a change of the log file sync_slaves returns in two ways: every *)
(* slave that answers has caught up, or the master did not tell its place, *)
(* and then no slave has been waited for (mariadb_nodes.cpp:1310), which   *)
(* the caller does not learn.                                              *)
SyncedWithoutRotation ==
    pc = "done" /\ mfile = 1 =>
        \/ filenum = mfile /\ \A s \in alive : CaughtUp(s)
        \/ "no_status" \in Failures /\ filenum = 0 /\ synced = {}

(* If the master stays in its log file and no slave stops, sync_slaves     *)
(* returns, also when slaves die while they are waited for.                *)
SyncReturns == [](mfile = 1 /\ running = Slaves) => <>(pc = "done")
=============================================================================
