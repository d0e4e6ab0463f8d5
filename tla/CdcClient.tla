------------------------------ MODULE CdcClient ------------------------------
(***************************************************************************)
(* The test cdc_client: cdc_com reads rows from the avro listener of       *)
(* MaxScale and tells query_thread, through the unprotected variable       *)
(* insert_val, which row to insert next.  The two threads are meant to run *)
(* in lock step, one insert for every read.                                *)
(*                                                                         *)
(* A message of the listener (an answer, the schema, a row) can arrive in  *)
(* two pieces, a read takes everything that has arrived, an insert can     *)
(* fail and the connection can break: cdc_com notices none of it, it only  *)
(* counts its reads.                                                       *)
(***************************************************************************)
EXTENDS Integers, Sequences

CONSTANTS
    StartVal,          \* the first value inserted (10)
    max_inserted_val,  \* reading ends when this value is reached (25 or 100)
    MaxSplits          \* bound: how many messages arrive in two pieces

ASSUME CdcAssumption ==
    /\ StartVal \in Nat \ {0}
    /\ max_inserted_val \in Nat /\ max_inserted_val > StartVal
    /\ MaxSplits \in Nat

VARIABLES
    pc,            \* where cdc_com is
    ignore_first,  \* reads to ignore before inserting starts
    inserted_val,  \* the value the next read should bring
    insert_val,    \* shared: the value to insert, or 0
    str,           \* the value query_thread has put in its statement, or 0
    exit_flag,     \* shared: query_thread has to end
    thread,        \* where query_thread is
    inbox,         \* the pieces that have arrived at the socket
    binlog,        \* inserted rows that the listener has not sent yet
    table,         \* all values inserted, in order
    splits,        \* messages that arrived in two pieces so far
    broken,        \* the connection to the listener is gone
    disturbed,     \* history: a read was not one message, or an insert failed
    wrong,         \* history: "wrong values in JSON" was printed
    result         \* what cdc_com has returned, or the timeout

reader == <<pc, ignore_first, inserted_val, wrong, result>>
network == <<inbox, binlog, splits, broken>>
vars == <<reader, insert_val, str, exit_flag, thread, network, table, disturbed>>

(* A row is the value inserted; the other messages are below all rows.  A   *)
(* piece tells its message, and whether it is all of it.                    *)
Ok       == -1
Schema   == -2
FirstRow == -3
Rows     == StartVal..max_inserted_val
Messages == {Ok, Schema, FirstRow} \cup Rows

Init ==
    /\ pc = "connect"
    /\ ignore_first = 2
    /\ inserted_val = 0 /\ insert_val = 0 /\ str = 0
    /\ exit_flag = FALSE
    /\ thread = "poll"
    /\ inbox = <<>> /\ binlog = <<>> /\ table = <<>>
    /\ splits = 0
    /\ broken = FALSE /\ disturbed = FALSE /\ wrong = FALSE
    /\ result = "none"

-----------------------------------------------------------------------------
(* The listener (external): the next message arrives, whole or in two.     *)
Whole(m)  == <<[of |-> m, all |-> TRUE]>>
Halves(m) == <<[of |-> m, all |-> FALSE], [of |-> m, all |-> FALSE]>>

Arrive ==
    /\ ~broken /\ binlog # <<>>
    /\ binlog' = Tail(binlog)
    /\ \/ inbox' = inbox \o Whole(Head(binlog)) /\ UNCHANGED splits
       \/ /\ splits < MaxSplits
          /\ splits' = splits + 1
          /\ inbox' = inbox \o Halves(Head(binlog))
    /\ UNCHANGED <<reader, insert_val, str, exit_flag, thread, table, broken, disturbed>>

Breaks ==
    /\ ~broken /\ pc # "ended"
    /\ broken' = TRUE
    /\ UNCHANGED <<reader, insert_val, str, exit_flag, thread, inbox, binlog, splits, table, disturbed>>

(* A read takes a part of what has arrived (the later pieces come when the  *)
(* call has returned), or nothing at the end of a broken connection.        *)
Takes(n) ==
    /\ n \in 0..Len(inbox)
    /\ n = 0 => broken /\ inbox = <<>>
    /\ inbox' = SubSeq(inbox, n + 1, Len(inbox))
    /\ disturbed' = (disturbed \/ n # 1 \/ ~inbox[1].all)

-----------------------------------------------------------------------------
(* cdc_com: connected, the authentication is sent. *)
connect ==
    /\ pc = "connect"
    /\ pc' = "auth"
    /\ binlog' = Append(binlog, Ok)
    /\ UNCHANGED <<ignore_first, inserted_val, insert_val, str, exit_flag, thread, inbox, splits,
                   broken, table, disturbed, wrong, result>>

(* The two answers are received and not looked at. *)
recv_auth ==
    /\ pc = "auth" /\ \E n \in 0..Len(inbox) : Takes(n)
    /\ pc' = "registered"
    /\ binlog' = Append(binlog, Ok)
    /\ UNCHANGED <<ignore_first, inserted_val, insert_val, str, exit_flag, thread, splits, broken,
                   table, wrong, result>>

(* Then the data are requested: the schema and the row that is there. *)
recv_reg ==
    /\ pc = "registered" /\ \E n \in 0..Len(inbox) : Takes(n)
    /\ pc' = "wait"
    /\ binlog' = binlog \o <<Schema, FirstRow>>
    /\ UNCHANGED <<ignore_first, inserted_val, insert_val, str, exit_flag, thread, splits, broken,
                   table, wrong, result>>

(* No address, no connection or a message that cannot be sent: cdc_com      *)
(* returns false.                                                           *)
cdc_com_fails ==
    /\ pc = "connect" \/ (broken /\ pc \in {"auth", "registered"})
    /\ pc' = "join" /\ result' = "failed"
    /\ exit_flag' = TRUE
    /\ UNCHANGED <<ignore_first, inserted_val, insert_val, str, thread, network, table, disturbed,
                   wrong>>

(* What the comparison sees.  A part of a row, several rows at once and an  *)
(* empty read do not parse: x1 and fl then hold whatever the stack held.    *)
RightRow(n) == n = 1 /\ inbox[1] = [of |-> inserted_val, all |-> TRUE]
Unparsed(n) == n # 1 \/ ~inbox[1].all \/ inbox[1].of \in {Ok, Schema}
get_x_fl_from_json(n) == IF Unparsed(n) THEN BOOLEAN ELSE {RightRow(n)}

(* Defective: the first insert is never asked for. *)
SkipsOnly ==
    /\ ignore_first > 0
    /\ ignore_first' = ignore_first - 1
    /\ inserted_val' = IF ignore_first = 1 THEN StartVal ELSE inserted_val
    /\ UNCHANGED <<insert_val, wrong>>

Skips ==
    /\ ignore_first > 0
    /\ ignore_first' = ignore_first - 1
    /\ inserted_val' = IF ignore_first = 1 THEN StartVal ELSE inserted_val
    /\ insert_val' = IF ignore_first = 1 THEN StartVal ELSE insert_val
    /\ UNCHANGED wrong

Compares(n) ==
    /\ ignore_first = 0
    /\ \E right \in get_x_fl_from_json(n) : wrong' = (wrong \/ ~right)
    /\ inserted_val' = inserted_val + 1
    /\ insert_val' = inserted_val + 1
    /\ UNCHANGED ignore_first

(* One round of the loop: epoll_wait, read_sc, and the check. *)
read_sc ==
    /\ pc = "wait" /\ inserted_val < max_inserted_val
    /\ \E n \in 0..Len(inbox) : Takes(n) /\ (Skips \/ Compares(n))
    /\ UNCHANGED <<pc, str, exit_flag, thread, binlog, splits, broken, table, result>>

(* epoll_ctl, before the first round, or epoll_wait in a later one fails. *)
epoll_fails ==
    /\ pc = "wait" /\ inserted_val < max_inserted_val
    /\ pc' = "join" /\ result' = "failed"
    /\ exit_flag' = TRUE
    /\ UNCHANGED <<ignore_first, inserted_val, insert_val, str, thread, network, table, disturbed,
                   wrong>>


(* The loop ends and cdc_com returns true; main sets the exit flag. *)
cdc_com_returns ==
    /\ pc = "wait" /\ inserted_val >= max_inserted_val
    /\ pc' = "join" /\ result' = "passed"
    /\ exit_flag' = TRUE
    /\ UNCHANGED <<ignore_first, inserted_val, insert_val, str, thread, network, table, disturbed,
                   wrong>>

pthread_join ==
    /\ pc = "join" /\ thread = "ended"
    /\ pc' = "ended"
    /\ UNCHANGED <<ignore_first, inserted_val, insert_val, str, exit_flag, thread, network, table,
                   disturbed, wrong, result>>

(* The timeout thread ends the test in a round in which nothing can come    *)
(* any more: nothing is on its way and nobody will insert.                  *)
Silence ==
    /\ ~broken /\ inbox = <<>> /\ binlog = <<>>
    /\ insert_val = 0 /\ thread = "poll"

timeout ==
    /\ pc = "wait" /\ inserted_val < max_inserted_val
    /\ Silence
    /\ pc' = "ended" /\ result' = "timed_out"
    /\ thread' = "ended"
    /\ UNCHANGED <<ignore_first, inserted_val, insert_val, str, exit_flag, network, table, disturbed,
                   wrong>>

-----------------------------------------------------------------------------
(* query_thread: insert_val is put into the statement, set to 0, and the    *)
(* statement executed, in three steps.  The statement reads insert_val      *)
(* twice; a row with two different values can come only from a cdc_com      *)
(* that has run ahead, and is a row by its first column.                    *)
sprintf ==
    /\ thread = "poll" /\ ~exit_flag /\ insert_val # 0
    /\ str' = insert_val
    /\ thread' = "formatted"
    /\ UNCHANGED <<reader, insert_val, exit_flag, network, table, disturbed>>

(* Defective: insert_val is not reset. *)
clear_insert_val_Forgotten ==
    /\ thread = "formatted"
    /\ thread' = "cleared"
    /\ UNCHANGED <<reader, insert_val, str, exit_flag, network, table, disturbed>>

clear_insert_val ==
    /\ thread = "formatted"
    /\ insert_val' = 0
    /\ thread' = "cleared"
    /\ UNCHANGED <<reader, str, exit_flag, network, table, disturbed>>

(* The row goes to the table and from there to the listener; nobody looks   *)
(* whether the statement has failed.                                        *)
execute_query ==
    /\ thread = "cleared"
    /\ \/ /\ table' = Append(table, str)
          /\ binlog' = Append(binlog, str)
          /\ UNCHANGED disturbed
       \/ /\ disturbed' = TRUE
          /\ UNCHANGED <<table, binlog>>
    /\ thread' = "poll"
    /\ UNCHANGED <<reader, insert_val, str, exit_flag, inbox, splits, broken>>

query_thread_ends ==
    /\ thread = "poll" /\ exit_flag
    /\ thread' = "ended"
    /\ UNCHANGED <<reader, insert_val, str, exit_flag, network, table, disturbed>>

query_thread == sprintf \/ clear_insert_val \/ execute_query \/ query_thread_ends

cdc_com ==
    \/ connect \/ recv_auth \/ recv_reg \/ cdc_com_fails
    \/ read_sc \/ epoll_fails \/ cdc_com_returns \/ pthread_join

Terminated == pc = "ended" /\ UNCHANGED vars

Next == cdc_com \/ query_thread \/ Arrive \/ Breaks \/ timeout \/ Terminated

Spec == Init /\ [][Next]_vars

(* Both threads run, the listener sends what it has, and the timeout thread *)
(* wakes up every second.  A connection need not break.                     *)
FairSpec ==
    /\ Spec
    /\ WF_vars(cdc_com) /\ WF_vars(query_thread)
    /\ WF_vars(Arrive) /\ WF_vars(timeout)

-----------------------------------------------------------------------------
(* However the pieces arrive, the connection breaks and the two threads    *)
(* interleave on insert_val (cdc_client.cpp:248), no value is inserted     *)
(* twice, and values are inserted in increasing order: cdc_com may run     *)
(* ahead and lose values, it never repeats one.                            *)
InsertedOnce == \A i \in 2..Len(table) : table[i - 1] < table[i]

(* As long as every read has brought exactly one message and no insert has *)
(* failed, the threads are in lock step: no value has been skipped, the    *)
(* value that cdc_com waits for is the one inserted last or about to be    *)
(* inserted, no comparison has failed and the test does not time out       *)
(* (cdc_client.cpp:137).                                                   *)
IdleThread == insert_val = 0 /\ thread \in {"poll", "ended"}

LockStep ==
    ~disturbed =>
        /\ ~wrong /\ result # "timed_out"
        /\ table = [i \in 1..Len(table) |-> StartVal + i - 1]
        /\ inserted_val # 0 =>
              inserted_val = StartVal + Len(table) - (IF IdleThread THEN 1 ELSE 0)

=============================================================================
