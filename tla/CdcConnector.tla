---------------------------- MODULE CdcConnector ----------------------------
(***************************************************************************)
(* The CDC connector (class CDC::Connection) and the test cdc_datatypes,   *)
(* which uses one connection for every column type: it authenticates,      *)
(* registers, requests the rows of the type's table, and compares each row *)
(* with the value it has inserted.                                         *)
(*                                                                         *)
(* An answer is read with one read and compared as if it were complete; a  *)
(* row is read byte by byte up to its end of line, and only -1 is an error.*)
(* The listener may refuse, stay silent, or close or reset the connection. *)
(***************************************************************************)
EXTENDS Integers, Sequences

CONSTANTS
    Types,     \* number of column types
    Values,    \* number of values inserted for each
    MaxFaults  \* bound: things that go wrong on the connections

ASSUME CdcConnectorAssumption ==
    /\ Types \in Nat \ {0} /\ Values \in Nat \ {0}
    /\ MaxFaults \in Nat

VARIABLES
    at,       \* where run_test and the connector are
    i, j,     \* the type and the value
    stream,   \* what the listener has sent and nobody has read
    end,      \* behind that: more to come, end of file, or an error
    trust,    \* what the listener has accepted: 0, authentication, registration
    timer,    \* set_timeout was called later than stop_timeout
    rval,     \* what run_test will return
    missed,   \* history: the values whose row could not be read
    matched,  \* history: the values that were found equal to their row
    short,    \* history: an answer was read before all of it had arrived
    faults    \* things that have gone wrong so far

server == <<stream, end, trust>>
script == <<i, j, rval, missed, matched>>
connector == <<at, timer, script, server, short, faults>>

(* A line of the listener.  "O" and "K" are the parts of an answer, "part" *)
(* is a row without its end.                                               *)
Line(kind) == [kind |-> kind, n |-> 0]
Row(n)     == [kind |-> "row", n |-> n]

ConnectorInit ==
    /\ at = "next" /\ i = 1 /\ j = 1
    /\ stream = <<>> /\ end = "up" /\ trust = 0
    /\ timer = FALSE
    /\ rval = TRUE /\ missed = {} /\ matched = {}
    /\ short = FALSE /\ faults = 0

-----------------------------------------------------------------------------
Fault(bad) == (bad => faults < MaxFaults) /\ faults' = IF bad THEN faults + 1 ELSE faults

(* Defective: no timeout for a type. *)
createConnection_NoTimeout ==
    /\ at = "next" /\ i <= Types
    /\ UNCHANGED timer
    /\ \/ at' = "auth" /\ Fault(FALSE)
       \/ at' = "failed" /\ Fault(TRUE)
    /\ UNCHANGED <<script, server, short>>

(* A new type: set_timeout, and the connection of the socket. *)
createConnection ==
    /\ at = "next" /\ i <= Types
    /\ timer' = TRUE
    /\ \/ at' = "auth" /\ Fault(FALSE)
       \/ at' = "failed" /\ Fault(TRUE)
    /\ UNCHANGED <<script, server, short>>

(* The listener (external) accepts, refuses and closes, or says nothing. *)
Accepts(good, level) ==
    /\ end = "up" /\ trust = level - 1
    /\ stream' = stream \o good
    /\ trust' = level /\ Fault(FALSE)
    /\ UNCHANGED end

Refuses ==
    /\ end = "up"
    /\ stream' = Append(stream, Line("ERR"))
    /\ end' = "eof" /\ Fault(TRUE)
    /\ UNCHANGED trust

Unheard == Fault(end = "up") /\ UNCHANGED server

(* A message is written.  A closed connection takes it or gives an error. *)
Write(from, to, good, level) ==
    /\ at = from
    /\ \/ at' = to /\ (Accepts(good, level) \/ Refuses \/ Unheard)
       \/ end # "up" /\ at' = "failed" /\ Fault(FALSE) /\ UNCHANGED server
    /\ UNCHANGED <<timer, script, short>>

SendAuth         == Write("auth", "auth_answer", <<Line("OK")>>, 1)
SendRegistration == Write("register", "reg_answer", <<Line("OK")>>, 2)
SendRequest      == Write("request", "schema", <<Line("schema")>> \o [n \in 1..Values |-> Row(n)], 3)

(* The answer is taken as OK when the buffer starts with "OK\n".  What was  *)
(* not read of it is whatever the buffer held.                              *)
Answers ==
    LET h == Head(stream)
    IN  {[ok |-> h.kind = "OK", left |-> Tail(stream), short |-> FALSE]}
        \cup IF h.kind = "OK"
             THEN [ok : BOOLEAN, left : {<<Line("K")>> \o Tail(stream)}, short : {TRUE}]
             ELSE {}

ReadAnswer(from, to) ==
    /\ at = from
    /\ \/ /\ stream # <<>>
          /\ \E a \in Answers :
                /\ at' = (IF a.ok THEN to ELSE "failed")
                /\ stream' = a.left
                /\ short' = (short \/ a.short)
                /\ Fault(a.short)
          /\ UNCHANGED end
       \/ /\ stream = <<>> /\ end = "eof"
          /\ at' \in {to, "failed"}
          /\ UNCHANGED <<stream, end, short, faults>>
       \/ /\ stream = <<>> /\ end = "reset"
          /\ at' = "failed" /\ end' = "eof"
          /\ UNCHANGED <<stream, short, faults>>
    /\ UNCHANGED <<timer, script, trust>>

doAuth         == SendAuth \/ ReadAnswer("auth_answer", "register")
doRegistration == SendRegistration \/ ReadAnswer("reg_answer", "request")

-----------------------------------------------------------------------------
(* The beginning of a row without its end; no line to read. *)
Cut    == IF stream = <<>> THEN FALSE ELSE Head(stream).kind = "part"
NoLine == stream = <<>> \/ Cut

(* Defective: the end of the stream is an error of the read. *)
readRow_EofIsError(dest) ==
    \/ /\ ~NoLine
       /\ dest = Head(stream)
       /\ stream' = Tail(stream) /\ UNCHANGED end
    \/ /\ NoLine
       /\ end \in {"eof", "reset"}
       /\ dest = Line("error")
       /\ stream' = <<>> /\ end' = "eof"

(* One row: the next line; or, at the end of the stream, the last byte read *)
(* again and again, an empty row when that was an end of line; or an error. *)
readRow(dest) ==
    \/ /\ ~NoLine
       /\ dest = Head(stream)
       /\ stream' = Tail(stream) /\ UNCHANGED end
    \/ /\ stream = <<>> /\ end = "eof"
       /\ dest \in {Line("empty"), Line("forever")}
       /\ UNCHANGED <<stream, end>>
    \/ /\ Cut /\ end = "eof"
       /\ dest = Line("forever")
       /\ stream' = <<>> /\ UNCHANGED end
    \/ /\ NoLine
       /\ end = "reset"
       /\ dest = Line("error")
       /\ stream' = <<>> /\ end' = "eof"

Lines == {Line(k) : k \in {"K", "ERR", "schema", "empty", "forever", "error"}}
         \cup {Row(n) : n \in 1..Values}

(* Defective: the first line is taken for the first row. *)
ReadSchema_Not ==
    /\ at = "schema"
    /\ at' = "row"
    /\ UNCHANGED <<timer, script, server, short, faults>>

ReadSchema ==
    /\ at = "schema"
    /\ \E dest \in Lines :
          /\ readRow(dest)
          /\ at' = CASE dest.kind = "error"   -> "failed"
                     [] dest.kind = "forever" -> "spin"
                     [] OTHER                 -> "row"
    /\ UNCHANGED <<timer, script, trust, short, faults>>

requestData == SendRequest \/ ReadSchema

NextValue ==
    \/ j < Values /\ j' = j + 1 /\ at' = "row"
    \/ j = Values /\ j' = j /\ at' = "close"

(* A row that cannot be read is printed and does not count; an empty one,  *)
(* or anything but the row of the value, is a mismatch.                    *)
CompareRow ==
    /\ at = "row"
    /\ \E dest \in Lines :
          /\ readRow(dest)
          /\ \/ /\ dest.kind = "forever"
                /\ at' = "spin" /\ UNCHANGED script
             \/ /\ dest.kind = "error"
                /\ missed' = missed \cup {<<i, j>>}
                /\ NextValue /\ UNCHANGED <<i, rval, matched>>
             \/ /\ dest = Row(j)
                /\ matched' = matched \cup {<<i, j>>}
                /\ NextValue /\ UNCHANGED <<i, rval, missed>>
             \/ /\ dest \notin {Line("forever"), Line("error"), Row(j)}
                /\ rval' = FALSE
                /\ NextValue /\ UNCHANGED <<i, matched, missed>>
    /\ UNCHANGED <<timer, trust, short, faults>>

RequestFailed ==
    /\ at = "failed"
    /\ at' = "close"
    /\ rval' = FALSE
    /\ UNCHANGED <<timer, i, j, missed, matched, server, short, faults>>

(* stop_timeout, and the destructor: CLOSE is sent and the socket closed.  *)
closeConnection ==
    /\ at = "close"
    /\ at' = IF i < Types THEN "next" ELSE "done"
    /\ i' = IF i < Types THEN i + 1 ELSE i
    /\ j' = 1
    /\ timer' = FALSE
    /\ stream' = <<>> /\ end' = "up" /\ trust' = 0
    /\ UNCHANGED <<rval, missed, matched, short, faults>>

run_test ==
    \/ createConnection \/ doAuth \/ doRegistration \/ requestData
    \/ CompareRow \/ RequestFailed \/ closeConnection

-----------------------------------------------------------------------------
(* The connection breaks: the lines from some place on are lost, the first *)
(* of them perhaps after its beginning has arrived.                        *)
ConnectionBreaks ==
    /\ at \notin {"next", "failed", "close", "spin", "done", "timed_out"} /\ end = "up"
    /\ end' \in {"eof", "reset"}
    /\ \E k \in 0..Len(stream) :
          \/ stream' = SubSeq(stream, 1, k)
          \/ /\ k < Len(stream) /\ stream[k + 1].kind = "row"
             /\ stream' = Append(SubSeq(stream, 1, k), Line("part"))
    /\ Fault(TRUE)
    /\ UNCHANGED <<at, timer, script, trust, short>>

Waits ==
    \/ at = "spin"
    \/ at \in {"auth_answer", "reg_answer", "schema", "row"} /\ stream = <<>> /\ end = "up"

timeout_thread ==
    /\ timer /\ Waits
    /\ at' = "timed_out"
    /\ UNCHANGED <<timer, script, server, short, faults>>

TestEnded == at \in {"done", "timed_out"} /\ UNCHANGED connector

ConnectorNext == run_test \/ ConnectionBreaks \/ timeout_thread \/ TestEnded

(* The test runs on and the timeout thread wakes up every second. *)
ConnectorSpec ==
    /\ ConnectorInit /\ [][ConnectorNext]_connector
    /\ WF_connector(run_test) /\ WF_connector(timeout_thread)

-----------------------------------------------------------------------------
(* Unless an answer was read before all of it had arrived                  *)
(* (cdc_connector.cpp:235), the connector stays in step with the listener: *)
(* the next line for a value is the row of that value, or the beginning of *)
(* it, whatever has gone wrong on this and the earlier connections.        *)
InStep ==
    at = "row" /\ ~short /\ trust = 3 /\ stream # <<>> => Head(stream) \in {Row(j), Line("part")}

(* A test that passes has found every value equal to its row, although the *)
(* end of the stream is not an error of readRow (cdc_connector.cpp:189)    *)
(* and a row that cannot be read does not fail run_test                    *)
(* (cdc_datatypes.cpp:187): after a failed read the stream is at its end   *)
(* and gives no row that matches, so only the last value of a type can go  *)
(* unnoticed.                                                              *)
PassedIsCompared ==
    at = "done" /\ rval =>
        \A t \in 1..Types, v \in 1..Values :
            <<t, v>> \in matched \/ (v = Values /\ <<t, v>> \in missed)

(* The test ends, also when readRow spins on the end of the stream or the  *)
(* listener stays silent: every type has its timeout.                      *)
TestEnds == <>(at \in {"done", "timed_out"})
=============================================================================
