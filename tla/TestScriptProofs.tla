-------------------------- MODULE TestScriptProofs --------------------------
(* Proofs about TestScript, for any scripts that the analysis finds sound. *)
EXTENDS ScriptAnalysis, TLAPS

(* What is left to the destructor when main returns: nothing that the next *)
(* test does not repair, no thread, no failure that only main knows of.    *)
AtEnd ==
    exit = "returned" =>
        /\ marks \subseteq Repaired \cup Leaves[test]
        /\ result = "0" => refused \subseteq Leaves[test] \cup Unchecked[test]
        /\ test \notin Abandoning => \A t \in started \ {Main} : Finished(t)
        /\ test \notin Forgetful => (result = "0" => local = "0")

(* A failure that was seen is in a result, and nothing else is. *)
Accounted == detected = (local # "0" \/ result # "0")

(* A thread that is stuck is so in a statement of its script. *)
StuckInCall == \A t \in stuck : ~Finished(t)

IInv == TypeOK /\ NoMisuse /\ FactsHold /\ StuckInCall /\ AtEnd /\ Accounted

(* What a statement s of thread t does, as far as the facts can tell. *)
ConnEffect(s) ==
    \A h \in Handles :
        conn'[h] = IF h = s.on /\ s.op = "open" THEN "open"
                   ELSE IF h = s.on /\ Nulls(s) THEN "null"
                   ELSE IF h = s.on /\ Frees(s) THEN "freed" ELSE conn[h]

FlagEffect(s) ==
    \A u \in Threads : flag'[u] => \/ s.op = "set_flag" /\ u = s.n
                                   \/ flag[u] /\ ~(s.op = "clear_flag" /\ u = s.n)

MarkEffect(t, s) ==
    /\ \A m \in marks' : \/ s.op = "change" /\ m = s.on
                         \/ m \in marks /\ ~(s.op = "undo" /\ m = s.on)
    /\ \A m \in refused' : \/ m \in refused
                           \/ s.op = "undo" /\ m = s.on /\ m \notin Repaired /\ ret[t] # "0"

AnswerEffect(t, s) ==
    /\ \A u \in Threads \ {t} : ret'[u] = ret[u]
    /\ s.op \notin Answering => ret'[t] = ret[t]

ResultEffect(t, s) ==
    /\ local = "0" /\ s.op # "note" => local' = "0"
    /\ result # "0" => result' # "0"
    /\ s.op = "add_local" => (result' = "0" => local' = "0")
    /\ s.op = "add" => (result' = "0" => ret[t] = "0")

TimerEffect(s) ==
    /\ s.op = "set_timeout" => timer'
    /\ timer /\ s.op # "stop_timeout" => timer'

ThreadEffect(t, s) ==
    /\ started' = IF s.op = "start" THEN started \cup {s.n} ELSE started
    /\ s.op = "join" => Finished(s.n)
    /\ pc'[t] \in Successors(s, pc[t], Len(Script(t)))
    /\ Falls(s, pc[t], pc'[t]) => ret[t] # "0"
    /\ \A u \in Threads \ {t} :
          pc'[u] = IF s.op = "start" /\ u = s.n /\ ~(u \in started /\ ~Finished(u)) THEN 1 ELSE pc[u]

Effect(t, s) ==
    /\ test' = test
    /\ ConnEffect(s) /\ FlagEffect(s) /\ MarkEffect(t, s)
    /\ AnswerEffect(t, s) /\ ResultEffect(t, s) /\ TimerEffect(s) /\ ThreadEffect(t, s)

-----------------------------------------------------------------------------
LEMMA SeqElement ==
    ASSUME NEW S, NEW q \in Seq(S), NEW i \in 1..Len(q)
    PROVE  q[i] \in S
  OBVIOUS

(* The statement a thread is at is one of its script. *)
LEMMA CurrentFacts ==
    ASSUME TypeOK, NEW t \in Threads, NEW s \in Current(t)
    PROVE  /\ exit = "running" /\ t \in started /\ t \notin stuck /\ ~Finished(t)
           /\ Script(t) \in Seq([op : STRING, on : STRING, n : Nat])
           /\ Len(Script(t)) \in Nat
           /\ pc[t] \in Nat \ {0} /\ pc[t] <= Len(Script(t))
           /\ pc[t] \in DOMAIN Script(t) /\ s = Script(t)[pc[t]]
           /\ s \in [op : STRING, on : STRING, n : Nat]
<1>1. exit = "running" /\ t \in started /\ t \notin stuck /\ ~Finished(t) /\ s = Script(t)[pc[t]]
  BY DEF Current
<1>2. Script(t) \in Seq([op : STRING, on : STRING, n : Nat])
  BY ScriptAssumption DEF TypeOK, Script
<1>3. pc[t] \in Nat \ {0}
  BY DEF TypeOK
<1>4. Len(Script(t)) \in Nat /\ DOMAIN Script(t) = 1..Len(Script(t))
  BY <1>2
<1>5. pc[t] <= Len(Script(t))
  BY <1>1, <1>3, <1>4 DEF Finished
<1>6. s \in [op : STRING, on : STRING, n : Nat]
  <2>1. pc[t] \in 1..Len(Script(t))
    BY <1>3, <1>4, <1>5
  <2> QED
    BY <1>1, <1>2, <2>1, SeqElement, Zenon
<1> QED
  BY <1>1, <1>2, <1>3, <1>4, <1>5, <1>6

(* The statement is well formed. *)
LEMMA CurrentShape ==
    ASSUME TypeOK, NEW t \in Threads, NEW s \in Current(t)
    PROVE  \/ s.op \in Connecting /\ s.on \in Handles
           \/ s.op \in Changing /\ s.on \in Marks
           \/ s.op \in Threading /\ s.n \in Threads \ {Main}
           \/ s.op \in Forward /\ s.n \in 0..(Len(Script(t)) - pc[t])
           \/ s.op = "back" /\ s.n \in 1..(pc[t] - 1)
           \/ s.op \in Plain
<1>1. pc[t] \in DOMAIN Script(t) /\ s = Script(t)[pc[t]]
  BY CurrentFacts
<1>2. WellFormed(Script(t))
  BY ScriptAssumption DEF TypeOK, Script
<1> QED
  BY <1>1, <1>2 DEF WellFormed

-----------------------------------------------------------------------------
(* Types. *)

LEMMA InitTypes == Init => TypeOK
<1> SUFFICES ASSUME Init PROVE TypeOK
  OBVIOUS
<1>1. test \in Tests /\ pc \in [Threads -> Nat \ {0}] BY DEF Init
<1>2. ret \in [Threads -> Number] BY DEF Init, Number
<1>3. flag \in [Threads -> BOOLEAN] BY DEF Init
<1>4. started \subseteq Threads /\ stuck \subseteq started BY DEF Init, Threads, Main
<1>5. conn \in [Handles -> {"wild", "null", "open", "freed"}] BY DEF Init
<1>6. misused \subseteq Handles /\ marks \subseteq Marks /\ refused \subseteq Marks BY DEF Init
<1>7. timer \in BOOLEAN /\ local \in Number /\ result \in Number /\ detected \in BOOLEAN
  BY DEF Init, Number
<1>8. exit \in {"running", "returned", "exited", "timed_out"} BY DEF Init
<1> QED BY <1>1, <1>2, <1>3, <1>4, <1>5, <1>6, <1>7, <1>8 DEF TypeOK

LEMMA JumpPlace ==
    ASSUME TypeOK, NEW t \in Threads, NEW s \in Current(t), NEW n \in Target(t, s)
    PROVE  n \in Nat \ {0} /\ n \in Successors(s, pc[t], Len(Script(t)))
<1>a. pc[t] \in Nat \ {0} /\ Len(Script(t)) \in Nat /\ pc[t] <= Len(Script(t)) /\ s.n \in Nat
  BY CurrentFacts
<1>b. /\ s.op \in Forward => s.n \in 0..(Len(Script(t)) - pc[t])
      /\ s.op = "back" => s.n \in 1..(pc[t] - 1)
  BY CurrentShape DEF Connecting, Changing, Threading, Forward, Plain, Remote
<1> USE <1>a, <1>b DEF Forward
<1>1. CASE s.op = "maybe"   BY <1>1 DEF Target, Successors
<1>2. CASE s.op = "on_fail" BY <1>2 DEF Target, Successors
<1>3. CASE s.op = "skip"    BY <1>3 DEF Target, Successors
<1>4. CASE s.op = "while"   BY <1>4 DEF Target, Successors
<1>5. CASE s.op = "back"    BY <1>5 DEF Target, Successors
<1>6. CASE s.op = "return"  BY <1>6 DEF Target, Successors
<1> QED
  BY <1>1, <1>2, <1>3, <1>4, <1>5, <1>6 DEF Target

(* A sum is a number, and no failure in it is lost. *)
LEMMA SumIsNumber ==
    ASSUME NEW a \in Number, NEW b \in Number, NEW c \in Plus(a, b)
    PROVE  c \in Number /\ (c = "0" <=> a = "0" /\ b = "0")
  BY DEF Number, Failure, Plus

LEMMA StatementTypes ==
    ASSUME TypeOK, NEW t \in Threads, NEW s \in Current(t), Statement(t, s)
    PROVE  TypeOK'
<1>a. t \in started /\ pc[t] \in Nat \ {0}
  BY CurrentFacts
<1>b. /\ s.op \in Connecting => s.on \in Handles
      /\ s.op \in Changing => s.on \in Marks
      /\ s.op \in Threading => s.n \in Threads
  BY CurrentShape DEF Connecting, Changing, Threading, Forward, Plain, Remote
<1>c. Advance(t) => pc' \in [Threads -> Nat \ {0}]
  BY <1>a DEF Advance, Goto, TypeOK
<1>d. ASSUME NEW number \in Number, Answer(t, number)
      PROVE  ret' \in [Threads -> Number]
  BY <1>d DEF Answer, TypeOK
<1>e. {"0", "1"} \subseteq Number
  BY DEF Number, Failure
<1> USE <1>a DEF TypeOK, memory, servers, verdict, Advance, Goto, Ends
<1>1. CASE set_timeout(t, s)    BY <1>1 DEF set_timeout
<1>2. CASE stop_timeout(t, s)
  <2>1. pc' \in [Threads -> Nat \ {0}]
    BY <1>2, <1>c DEF stop_timeout
  <2> QED
    BY <1>2, <2>1 DEF stop_timeout
<1>3. CASE open_conn(t, s)
  <2>1. conn' \in [Handles -> {"wild", "null", "open", "freed"}]
    BY <1>3 DEF open_conn
  <2>2. pc' \in [Threads -> Nat \ {0}] /\ ret' \in [Threads -> Number]
    BY <1>3, <1>d, <1>e DEF open_conn
  <2> QED
    BY <1>3, <2>1, <2>2 DEF open_conn
<1>4. CASE mysql_close(t, s)
  <2>1. s.on \in Handles
    BY <1>4, <1>b DEF mysql_close, Connecting, Changing, Threading
  <2> QED
    BY <1>4, <2>1 DEF mysql_close, Dangling
<1>5. CASE execute_query(t, s)
  <2>1. s.on \in Handles
    BY <1>5, <1>b DEF execute_query, Connecting, Changing, Threading
  <2> QED
    BY <1>5, <1>d, <1>e, <2>1 DEF execute_query, Dangling
<1>6. CASE ssh(t, s)
  <2>1. Status(s.op) \subseteq Number
    BY <1>e DEF Status
  <2> QED
    BY <1>6, <1>d, <2>1 DEF ssh
<1>7. CASE add_result(t, s)
  <2>1. result' \in Number
    BY <1>7, SumIsNumber DEF add_result
  <2> QED
    BY <1>7, <2>1 DEF add_result
<1>8. CASE note_result(t, s)
  <2>1. local' \in Number
    BY <1>8, SumIsNumber DEF note_result
  <2> QED
    BY <1>8, <2>1 DEF note_result
<1>9. CASE add_local(t, s)
  <2>1. result' \in Number
    BY <1>9, SumIsNumber DEF add_local
  <2> QED
    BY <1>9, <2>1 DEF add_local
<1>10. CASE expect(t, s)
  <2>1. pc' \in [Threads -> Nat \ {0}]
    BY <1>10, <1>c DEF expect
  <2>2. (IF ret[t] = "0" THEN "1" ELSE "0") \in Number
    BY <1>e
  <2>3. ret' \in [Threads -> Number]
    BY <1>10, <1>d, <1>e, <2>2 DEF expect
  <2> QED
    BY <1>10, <2>1, <2>3 DEF expect
<1>11. CASE change(t, s)
  <2>1. s.on \in Marks
    BY <1>11, <1>b DEF change, Connecting, Changing, Threading
  <2> QED
    BY <1>11, <2>1 DEF change
<1>12. CASE undo(t, s)
  <2>1. pc' \in [Threads -> Nat \ {0}]
    BY <1>12, <1>c DEF undo
  <2>2. marks' \subseteq Marks /\ refused' \subseteq Marks
    BY <1>12, <1>b DEF undo, Changing, Connecting, Threading
  <2> QED
    BY <1>12, <2>1, <2>2 DEF undo
<1>13. CASE pthread_create(t, s)
  <2>1. s.n \in Threads
    BY <1>13, <1>b DEF pthread_create, Connecting, Changing, Threading
  <2> QED
    BY <1>13, <2>1 DEF pthread_create
<1>14. CASE set_flag(t, s)
  <2>1. pc' \in [Threads -> Nat \ {0}]
    BY <1>14, <1>c DEF set_flag
  <2>2. flag' \in [Threads -> BOOLEAN]
    BY <1>14 DEF set_flag
  <2> QED
    BY <1>14, <2>1, <2>2 DEF set_flag
<1>15. CASE pthread_join(t, s)  BY <1>15 DEF pthread_join
<1>16. CASE Jump(t, s)
  <2>1. PICK n \in Target(t, s) : pc' = [pc EXCEPT ![t] = n]
    BY <1>16 DEF Jump
  <2>2. n \in Nat \ {0}
    BY JumpPlace
  <2> QED
    BY <1>16, <2>1, <2>2 DEF Jump
<1>17. CASE delete_test(s)      BY <1>17 DEF delete_test
<1>18. CASE exit_process(s)     BY <1>18 DEF exit_process
<1>19. CASE wait_until_pos(t, s) BY <1>19 DEF wait_until_pos
<1> QED
  BY <1>1, <1>2, <1>3, <1>4, <1>5, <1>6, <1>7, <1>8, <1>9, <1>10, <1>11, <1>12, <1>13, <1>14,
     <1>15, <1>16, <1>17, <1>18, <1>19 DEF Statement

LEMMA NextTypes == TypeOK /\ [Next]_vars => TypeOK'
<1> SUFFICES ASSUME TypeOK, [Next]_vars PROVE TypeOK'
  OBVIOUS
<1>1. ASSUME NEW t \in Threads, NEW s \in Current(t), Statement(t, s)
      PROVE  TypeOK'
  BY <1>1, StatementTypes
<1>2. ASSUME NEW t \in Threads, NEW s \in Current(t), Hang(t, s)
      PROVE  TypeOK'
  BY <1>2, CurrentFacts DEF Hang, TypeOK, memory, servers, verdict
<1>3. CASE timeout_thread
  BY <1>3 DEF timeout_thread, Ends, TypeOK, memory, servers, verdict
<1>4. CASE UNCHANGED vars
  BY <1>4 DEF TypeOK, vars, memory, servers, verdict
<1> QED
  BY <1>1, <1>2, <1>3, <1>4 DEF Next

-----------------------------------------------------------------------------
(* What statements do: most of them change one thing. *)

LEMMA SameConn ==
    ASSUME TypeOK, NEW s, s.op \notin {"open", "close", "close_null"}, conn' = conn
    PROVE  ConnEffect(s)
  BY DEF ConnEffect, Nulls, Frees

LEMMA SameFlag ==
    ASSUME NEW s, s.op # "clear_flag", flag' = flag
    PROVE  FlagEffect(s)
  BY DEF FlagEffect

LEMMA SameMarks ==
    ASSUME NEW t, NEW s, s.op # "undo", marks' = marks, refused' = refused
    PROVE  MarkEffect(t, s)
  BY DEF MarkEffect

LEMMA SameAnswer ==
    ASSUME NEW t, NEW s, ret' = ret
    PROVE  AnswerEffect(t, s)
  BY DEF AnswerEffect

LEMMA SameResult ==
    ASSUME NEW t, NEW s, s.op \notin {"add", "add_local"}, local' = local, result' = result
    PROVE  ResultEffect(t, s)
  BY DEF ResultEffect

LEMMA SameTimer ==
    ASSUME NEW s, s.op # "set_timeout", timer' = timer
    PROVE  TimerEffect(s)
  BY DEF TimerEffect

LEMMA Advanced ==
    ASSUME TypeOK, NEW t \in Threads, NEW s \in Current(t), Advance(t), started' = started,
           s.op \notin {"start", "join", "back", "return", "delete", "exit"} \cup Forward
    PROVE  ThreadEffect(t, s)
<1>1. pc' = [pc EXCEPT ![t] = pc[t] + 1] /\ pc \in [Threads -> Nat \ {0}]
  BY DEF Advance, Goto, TypeOK
<1>2. pc'[t] \in Successors(s, pc[t], Len(Script(t)))
  BY <1>1 DEF Successors, Forward
<1>3. ~Falls(s, pc[t], pc'[t])
  BY DEF Falls, Forward
<1> QED
  BY <1>1, <1>2, <1>3 DEF ThreadEffect

LEMMA StatementEffect ==
    ASSUME TypeOK, NEW t \in Threads, NEW s \in Current(t), Statement(t, s), exit' = "running"
    PROVE  Effect(t, s)
<1> USE DEF memory, servers, verdict, Forward, Remote
<1>1. CASE set_timeout(t, s)
  <2>1. ConnEffect(s)
    BY <1>1, SameConn DEF set_timeout
  <2>2. FlagEffect(s)
    BY <1>1, SameFlag DEF set_timeout
  <2>3. MarkEffect(t, s)
    BY <1>1, SameMarks DEF set_timeout
  <2>4. AnswerEffect(t, s)
    BY <1>1, SameAnswer DEF set_timeout
  <2>5. ResultEffect(t, s)
    BY <1>1, SameResult DEF set_timeout
  <2>6. ThreadEffect(t, s)
    BY <1>1, Advanced DEF set_timeout
  <2>7. TimerEffect(s)
    BY <1>1 DEF set_timeout, TimerEffect
  <2> QED
    BY <1>1, <2>1, <2>2, <2>3, <2>4, <2>5, <2>6, <2>7 DEF Effect, set_timeout
<1>2. CASE stop_timeout(t, s)
  <2>1. ConnEffect(s)
    BY <1>2, SameConn DEF stop_timeout
  <2>2. FlagEffect(s)
    BY <1>2, SameFlag DEF stop_timeout
  <2>3. MarkEffect(t, s)
    BY <1>2, SameMarks DEF stop_timeout
  <2>4. AnswerEffect(t, s)
    BY <1>2, SameAnswer DEF stop_timeout
  <2>5. ResultEffect(t, s)
    BY <1>2, SameResult DEF stop_timeout
  <2>6. ThreadEffect(t, s)
    BY <1>2, Advanced DEF stop_timeout
  <2>7. TimerEffect(s)
    BY <1>2 DEF stop_timeout, TimerEffect
  <2> QED
    BY <1>2, <2>1, <2>2, <2>3, <2>4, <2>5, <2>6, <2>7 DEF Effect, stop_timeout
<1>3. CASE open_conn(t, s)
  <2>1. ConnEffect(s)
    BY <1>3 DEF open_conn, ConnEffect, Nulls, Frees, TypeOK
  <2>2. FlagEffect(s)
    BY <1>3, SameFlag DEF open_conn
  <2>3. MarkEffect(t, s)
    BY <1>3, SameMarks DEF open_conn
  <2>4. AnswerEffect(t, s)
    BY <1>3 DEF open_conn, Answer, AnswerEffect, Answering, TypeOK
  <2>5. ResultEffect(t, s)
    BY <1>3, SameResult DEF open_conn
  <2>6. ThreadEffect(t, s)
    BY <1>3, Advanced DEF open_conn
  <2>7. TimerEffect(s)
    BY <1>3, SameTimer DEF open_conn
  <2> QED
    BY <1>3, <2>1, <2>2, <2>3, <2>4, <2>5, <2>6, <2>7 DEF Effect, open_conn
<1>4. CASE mysql_close(t, s)
  <2>1. ConnEffect(s)
    BY <1>4 DEF mysql_close, ConnEffect, Nulls, Frees, TypeOK
  <2>2. FlagEffect(s)
    BY <1>4, SameFlag DEF mysql_close
  <2>3. MarkEffect(t, s)
    BY <1>4, SameMarks DEF mysql_close
  <2>4. AnswerEffect(t, s)
    BY <1>4, SameAnswer DEF mysql_close
  <2>5. ResultEffect(t, s)
    BY <1>4, SameResult DEF mysql_close
  <2>6. ThreadEffect(t, s)
    BY <1>4, Advanced DEF mysql_close
  <2>7. TimerEffect(s)
    BY <1>4, SameTimer DEF mysql_close
  <2> QED
    BY <1>4, <2>1, <2>2, <2>3, <2>4, <2>5, <2>6, <2>7 DEF Effect, mysql_close
<1>5. CASE execute_query(t, s)
  <2>1. ConnEffect(s)
    BY <1>5, SameConn DEF execute_query
  <2>2. FlagEffect(s)
    BY <1>5, SameFlag DEF execute_query
  <2>3. MarkEffect(t, s)
    BY <1>5, SameMarks DEF execute_query
  <2>4. AnswerEffect(t, s)
    BY <1>5 DEF execute_query, Answer, AnswerEffect, Answering, TypeOK
  <2>5. ResultEffect(t, s)
    BY <1>5, SameResult DEF execute_query
  <2>6. ThreadEffect(t, s)
    BY <1>5, Advanced DEF execute_query
  <2>7. TimerEffect(s)
    BY <1>5, SameTimer DEF execute_query
  <2> QED
    BY <1>5, <2>1, <2>2, <2>3, <2>4, <2>5, <2>6, <2>7 DEF Effect, execute_query
<1>6. CASE ssh(t, s)
  <2>1. ConnEffect(s)
    BY <1>6, SameConn DEF ssh
  <2>2. FlagEffect(s)
    BY <1>6, SameFlag DEF ssh
  <2>3. MarkEffect(t, s)
    BY <1>6, SameMarks DEF ssh
  <2>4. AnswerEffect(t, s)
    BY <1>6 DEF ssh, Answer, AnswerEffect, Answering, TypeOK
  <2>5. ResultEffect(t, s)
    BY <1>6, SameResult DEF ssh
  <2>6. ThreadEffect(t, s)
    BY <1>6, Advanced DEF ssh
  <2>7. TimerEffect(s)
    BY <1>6, SameTimer DEF ssh
  <2> QED
    BY <1>6, <2>1, <2>2, <2>3, <2>4, <2>5, <2>6, <2>7 DEF Effect, ssh
<1>7. CASE add_result(t, s)
  <2>1. ConnEffect(s)
    BY <1>7, SameConn DEF add_result
  <2>2. FlagEffect(s)
    BY <1>7, SameFlag DEF add_result
  <2>3. MarkEffect(t, s)
    BY <1>7, SameMarks DEF add_result
  <2>4. AnswerEffect(t, s)
    BY <1>7, SameAnswer DEF add_result
  <2>5. ResultEffect(t, s)
    BY <1>7, SumIsNumber DEF add_result, ResultEffect, TypeOK
  <2>6. ThreadEffect(t, s)
    BY <1>7, Advanced DEF add_result
  <2>7. TimerEffect(s)
    BY <1>7, SameTimer DEF add_result
  <2> QED
    BY <1>7, <2>1, <2>2, <2>3, <2>4, <2>5, <2>6, <2>7 DEF Effect, add_result
<1>8. CASE note_result(t, s)
  <2>1. ConnEffect(s)
    BY <1>8, SameConn DEF note_result
  <2>2. FlagEffect(s)
    BY <1>8, SameFlag DEF note_result
  <2>3. MarkEffect(t, s)
    BY <1>8, SameMarks DEF note_result
  <2>4. AnswerEffect(t, s)
    BY <1>8, SameAnswer DEF note_result
  <2>5. ResultEffect(t, s)
    BY <1>8, SumIsNumber DEF note_result, ResultEffect, TypeOK
  <2>6. ThreadEffect(t, s)
    BY <1>8, Advanced DEF note_result
  <2>7. TimerEffect(s)
    BY <1>8, SameTimer DEF note_result
  <2> QED
    BY <1>8, <2>1, <2>2, <2>3, <2>4, <2>5, <2>6, <2>7 DEF Effect, note_result
<1>9. CASE add_local(t, s)
  <2>1. ConnEffect(s)
    BY <1>9, SameConn DEF add_local
  <2>2. FlagEffect(s)
    BY <1>9, SameFlag DEF add_local
  <2>3. MarkEffect(t, s)
    BY <1>9, SameMarks DEF add_local
  <2>4. AnswerEffect(t, s)
    BY <1>9, SameAnswer DEF add_local
  <2>5. ResultEffect(t, s)
    BY <1>9, SumIsNumber DEF add_local, ResultEffect, TypeOK
  <2>6. ThreadEffect(t, s)
    BY <1>9, Advanced DEF add_local
  <2>7. TimerEffect(s)
    BY <1>9, SameTimer DEF add_local
  <2> QED
    BY <1>9, <2>1, <2>2, <2>3, <2>4, <2>5, <2>6, <2>7 DEF Effect, add_local
<1>10. CASE expect(t, s)
  <2>1. ConnEffect(s)
    BY <1>10, SameConn DEF expect
  <2>2. FlagEffect(s)
    BY <1>10, SameFlag DEF expect
  <2>3. MarkEffect(t, s)
    BY <1>10, SameMarks DEF expect
  <2>4. AnswerEffect(t, s)
    BY <1>10 DEF expect, Answer, AnswerEffect, Answering, TypeOK
  <2>5. ResultEffect(t, s)
    BY <1>10, SameResult DEF expect
  <2>6. ThreadEffect(t, s)
    BY <1>10, Advanced DEF expect
  <2>7. TimerEffect(s)
    BY <1>10, SameTimer DEF expect
  <2> QED
    BY <1>10, <2>1, <2>2, <2>3, <2>4, <2>5, <2>6, <2>7 DEF Effect, expect
<1>11. CASE change(t, s)
  <2>1. ConnEffect(s)
    BY <1>11, SameConn DEF change
  <2>2. FlagEffect(s)
    BY <1>11, SameFlag DEF change
  <2>3. MarkEffect(t, s)
    BY <1>11 DEF change, MarkEffect
  <2>4. AnswerEffect(t, s)
    BY <1>11, SameAnswer DEF change
  <2>5. ResultEffect(t, s)
    BY <1>11, SameResult DEF change
  <2>6. ThreadEffect(t, s)
    BY <1>11, Advanced DEF change
  <2>7. TimerEffect(s)
    BY <1>11, SameTimer DEF change
  <2> QED
    BY <1>11, <2>1, <2>2, <2>3, <2>4, <2>5, <2>6, <2>7 DEF Effect, change
<1>12. CASE undo(t, s)
  <2>1. ConnEffect(s)
    BY <1>12, SameConn DEF undo
  <2>2. FlagEffect(s)
    BY <1>12, SameFlag DEF undo
  <2>3. MarkEffect(t, s)
    BY <1>12 DEF undo, MarkEffect
  <2>4. AnswerEffect(t, s)
    BY <1>12, SameAnswer DEF undo
  <2>5. ResultEffect(t, s)
    BY <1>12, SameResult DEF undo
  <2>6. ThreadEffect(t, s)
    BY <1>12, Advanced DEF undo
  <2>7. TimerEffect(s)
    BY <1>12, SameTimer DEF undo
  <2> QED
    BY <1>12, <2>1, <2>2, <2>3, <2>4, <2>5, <2>6, <2>7 DEF Effect, undo
<1>13. CASE pthread_create(t, s)
  <2>1. ConnEffect(s)
    BY <1>13, SameConn DEF pthread_create
  <2>2. FlagEffect(s)
    BY <1>13, SameFlag DEF pthread_create
  <2>3. MarkEffect(t, s)
    BY <1>13, SameMarks DEF pthread_create
  <2>4. AnswerEffect(t, s)
    BY <1>13, SameAnswer DEF pthread_create
  <2>5. ResultEffect(t, s)
    BY <1>13, SameResult DEF pthread_create
  <2>6. ThreadEffect(t, s)
    <3>1. t \in started /\ ~Finished(t) /\ pc[t] \in Nat \ {0} /\ pc \in [Threads -> Nat \ {0}]
      BY CurrentFacts DEF TypeOK
    <3>2. s.op = "start" /\ s.n \in Threads
      BY <1>13, CurrentShape DEF pthread_create, Connecting, Changing, Threading, Plain, Remote
    <3>3. pc' = [pc EXCEPT ![t] = @ + 1,
                          ![s.n] = IF s.n \in started /\ ~Finished(s.n) THEN @ ELSE 1]
      BY <1>13 DEF pthread_create
    <3>4. pc'[t] = pc[t] + 1
      BY <3>1, <3>2, <3>3
    <3>5. pc'[t] \in Successors(s, pc[t], Len(Script(t))) /\ ~Falls(s, pc[t], pc'[t])
      BY <3>2, <3>4 DEF Successors, Falls
    <3>6. ASSUME NEW u \in Threads \ {t}
          PROVE  pc'[u] = IF u = s.n /\ ~(u \in started /\ ~Finished(u)) THEN 1 ELSE pc[u]
      BY <3>1, <3>2, <3>3
    <3> QED
      BY <1>13, <3>2, <3>5, <3>6 DEF pthread_create, ThreadEffect
  <2>7. TimerEffect(s)
    BY <1>13, SameTimer DEF pthread_create
  <2> QED
    BY <1>13, <2>1, <2>2, <2>3, <2>4, <2>5, <2>6, <2>7 DEF Effect, pthread_create
<1>14. CASE set_flag(t, s)
  <2>1. ConnEffect(s)
    BY <1>14, SameConn DEF set_flag
  <2>2. FlagEffect(s)
    BY <1>14 DEF set_flag, FlagEffect, TypeOK
  <2>3. MarkEffect(t, s)
    BY <1>14, SameMarks DEF set_flag
  <2>4. AnswerEffect(t, s)
    BY <1>14, SameAnswer DEF set_flag
  <2>5. ResultEffect(t, s)
    BY <1>14, SameResult DEF set_flag
  <2>6. ThreadEffect(t, s)
    BY <1>14, Advanced DEF set_flag
  <2>7. TimerEffect(s)
    BY <1>14, SameTimer DEF set_flag
  <2> QED
    BY <1>14, <2>1, <2>2, <2>3, <2>4, <2>5, <2>6, <2>7 DEF Effect, set_flag
<1>15. CASE pthread_join(t, s)
  <2>1. ConnEffect(s)
    BY <1>15, SameConn DEF pthread_join
  <2>2. FlagEffect(s)
    BY <1>15, SameFlag DEF pthread_join
  <2>3. MarkEffect(t, s)
    BY <1>15, SameMarks DEF pthread_join
  <2>4. AnswerEffect(t, s)
    BY <1>15, SameAnswer DEF pthread_join
  <2>5. ResultEffect(t, s)
    BY <1>15, SameResult DEF pthread_join
  <2>6. ThreadEffect(t, s)
    BY <1>15 DEF pthread_join, Advance, Goto, ThreadEffect, Successors, Falls, TypeOK
  <2>7. TimerEffect(s)
    BY <1>15, SameTimer DEF pthread_join
  <2> QED
    BY <1>15, <2>1, <2>2, <2>3, <2>4, <2>5, <2>6, <2>7 DEF Effect, pthread_join
<1>16. CASE Jump(t, s)
  <2>a. PICK n \in Target(t, s) : pc' = [pc EXCEPT ![t] = n]
    BY <1>16 DEF Jump, Goto
  <2>b. s.op \in {"maybe", "on_fail", "skip", "while", "back", "return"}
    BY <2>a DEF Target
  <2>1. ConnEffect(s)
    BY <1>16, <2>b, SameConn DEF Jump
  <2>2. FlagEffect(s)
    BY <1>16, <2>b, SameFlag DEF Jump
  <2>3. MarkEffect(t, s)
    BY <1>16, <2>b, SameMarks DEF Jump
  <2>4. AnswerEffect(t, s)
    BY <1>16, SameAnswer DEF Jump
  <2>5. ResultEffect(t, s)
    BY <1>16, <2>b, SameResult DEF Jump
  <2>6. ThreadEffect(t, s)
    <3>1. pc'[t] = n /\ pc[t] \in Nat
      BY <2>a DEF TypeOK
    <3>2. pc'[t] \in Successors(s, pc[t], Len(Script(t)))
      BY <3>1, JumpPlace
    <3>3. ASSUME Falls(s, pc[t], n)
          PROVE  ret[t] # "0"
      <4>1. s.n \in Nat
        BY CurrentFacts
      <4>2. n = pc[t] + 1 + (IF ret[t] = "0" THEN s.n ELSE 0)
        BY <3>3 DEF Falls, Target
      <4> QED
        BY <3>1, <3>3, <4>1, <4>2 DEF Falls
    <3> QED
      BY <1>16, <2>a, <2>b, <3>1, <3>2, <3>3 DEF Jump, ThreadEffect, TypeOK
  <2>7. TimerEffect(s)
    BY <1>16, <2>b, SameTimer DEF Jump
  <2> QED
    BY <1>16, <2>1, <2>2, <2>3, <2>4, <2>5, <2>6, <2>7 DEF Effect, Jump
<1>18. CASE wait_until_pos(t, s)
  <2>1. ConnEffect(s)
    BY <1>18, SameConn DEF wait_until_pos
  <2>2. FlagEffect(s)
    BY <1>18, SameFlag DEF wait_until_pos
  <2>3. MarkEffect(t, s)
    BY <1>18, SameMarks DEF wait_until_pos
  <2>4. AnswerEffect(t, s)
    BY <1>18, SameAnswer DEF wait_until_pos
  <2>5. ResultEffect(t, s)
    BY <1>18, SameResult DEF wait_until_pos
  <2>6. ThreadEffect(t, s)
    BY <1>18, Advanced DEF wait_until_pos
  <2>7. TimerEffect(s)
    BY <1>18, SameTimer DEF wait_until_pos
  <2> QED
    BY <1>18, <2>1, <2>2, <2>3, <2>4, <2>5, <2>6, <2>7 DEF Effect, wait_until_pos
<1>17. ~delete_test(s) /\ ~exit_process(s)
  BY DEF delete_test, exit_process, Ends
<1> QED
  BY <1>1, <1>2, <1>3, <1>4, <1>5, <1>6, <1>7, <1>8, <1>9, <1>10, <1>11, <1>12, <1>13, <1>14,
     <1>15, <1>16, <1>17, <1>18 DEF Statement

-----------------------------------------------------------------------------
(* The facts. *)

LEMMA Weaker ==
    ASSUME NEW t, NEW k, NEW l, Holds(t, k), Implies(k, l)
    PROVE  Holds(t, l)
  BY DEF Holds, Implies

LEMMA WeakerNext ==
    ASSUME NEW t, NEW k, NEW l, Holds(t, k)', Implies(k, l)
    PROVE  Holds(t, l)'
  BY DEF Holds, Implies

(* A thread that is not at work stays so if nobody starts it. *)
LEMMA StaysIdle ==
    ASSUME TypeOK, NEW t \in Threads, NEW s \in Current(t), Effect(t, s),
           NEW v \in Threads, v \in started => Finished(v), ~(s.op = "start" /\ s.n = v)
    PROVE  v \in started' => Finished(v)'
<1>1. t \in started /\ ~Finished(t)
  BY CurrentFacts
<1>2. v \in started' => v \in started
  BY DEF Effect, ThreadEffect
<1>3. v \in started => v # t
  BY <1>1
<1>4. v # t => pc'[v] = pc[v] /\ test' = test
  BY DEF Effect, ThreadEffect
<1> QED
  BY <1>2, <1>3, <1>4 DEF Finished, Script

(* What a thread knows after its statement is true. *)
LEMMA OwnFacts ==
    ASSUME TypeOK, NEW t \in Threads, NEW s \in Current(t), Effect(t, s),
           NEW k \in Fact, Holds(t, k), NEW fell \in BOOLEAN, fell => ret'[t] # "0"
    PROVE  Holds(t, After(k, s, fell))'
<1> DEFINE a == After(k, s, fell)
<1>a. /\ s.op \in Connecting => s.on \in Handles
      /\ s.op \in Threading => s.n \in Threads
  BY CurrentShape DEF Connecting, Changing, Threading, Forward, Plain, Remote
<1>b. /\ k.usable \subseteq Handles
      /\ k.idle \subseteq Threads /\ k.clear \subseteq Threads
  BY DEF Fact
<1>1. \A h \in a.usable : conn'[h] \in {"null", "open"}
  BY <1>a, <1>b DEF Effect, ConnEffect, After, Holds, Nulls, Frees, Connecting
<1>2. result' = "0" => refused' \subseteq a.kept
  BY DEF Effect, MarkEffect, ResultEffect, After, Holds, Fact
<1>3. ASSUME NEW v \in a.idle
      PROVE  v \in started' => Finished(v)'
  <2>1. v \in Threads
    BY <1>a, <1>b DEF After, Threading
  <2>2. v \in started => Finished(v)
    BY DEF After, Holds, Effect, ThreadEffect
  <2>3. ~(s.op = "start" /\ s.n = v)
    BY DEF After
  <2> QED
    BY <2>1, <2>2, <2>3, StaysIdle
<1>4. \A u \in a.clear : ~flag'[u]
  BY <1>a, <1>b DEF Effect, FlagEffect, After, Holds, Threading
<1>5. marks' \subseteq a.dirty
  BY DEF Effect, MarkEffect, After, Holds, Fact
<1>6. a.failed => ret'[t] # "0"
  BY DEF Effect, AnswerEffect, After, Holds
<1>7. a.reported => (result' = "0" => local' = "0")
  BY DEF Effect, ResultEffect, After, Holds
<1>8. a.watched => timer'
  BY DEF Effect, TimerEffect, After, Holds
<1>9. a.judged => (result' = "0" => ret'[t] = "0")
  BY DEF Effect, AnswerEffect, ResultEffect, After, Holds, Answering, Remote
<1> QED
  BY <1>1, <1>2, <1>3, <1>4, <1>5, <1>6, <1>7, <1>8, <1>9 DEF Holds

(* What another thread knows remains true if it is not disturbed. *)
LEMMA OthersFacts ==
    ASSUME TypeOK, NEW t \in Threads, NEW s \in Current(t), Effect(t, s),
           NEW u \in Threads \ {t}, NEW k \in Fact, Holds(u, k), Undisturbed(k, s)
    PROVE  Holds(u, k)'
<1>1. \A h \in k.usable : conn'[h] \in {"null", "open"}
  BY DEF Effect, ConnEffect, Undisturbed, Holds, Fact
<1>2. result' = "0" => refused' \subseteq k.kept
  BY DEF Effect, MarkEffect, ResultEffect, Undisturbed, Holds
<1>3. ASSUME NEW v \in k.idle
      PROVE  v \in started' => Finished(v)'
  BY StaysIdle DEF Holds, Undisturbed, Fact
<1>4. \A v \in k.clear : ~flag'[v]
  BY DEF Effect, FlagEffect, Undisturbed, Holds, Fact
<1>5. marks' \subseteq k.dirty
  BY DEF Effect, MarkEffect, Undisturbed, Holds
<1>6. k.failed => ret'[u] # "0"
  BY DEF Effect, AnswerEffect, Holds
<1>7. k.reported => (result' = "0" => local' = "0")
  BY DEF Effect, ResultEffect, Undisturbed, Holds
<1>8. k.watched => timer'
  BY DEF Effect, TimerEffect, Undisturbed, Holds
<1>9. k.judged => (result' = "0" => ret'[u] = "0")
  BY DEF Effect, AnswerEffect, ResultEffect, Holds
<1> QED
  BY <1>1, <1>2, <1>3, <1>4, <1>5, <1>6, <1>7, <1>8, <1>9 DEF Holds

(* What is known at a place is a fact, and enough for the statement there. *)
LEMMA KnownFact ==
    ASSUME NEW name \in Tests, NEW t \in Threads, NEW p \in DOMAIN Code[name][t]
    PROVE  Known[name][t][p] \in Fact
<1>1. Known[name][t] \in Seq(Fact) /\ DOMAIN Known[name][t] = DOMAIN Code[name][t]
  BY AnalysisAssumption
<1>2. DOMAIN Known[name][t] = 1..Len(Known[name][t])
  BY <1>1
<1> QED
  BY <1>1, <1>2, SeqElement

LEMMA CurrentKnown ==
    ASSUME TypeOK, FactsHold, NEW t \in Threads, NEW s \in Current(t),
           NEW k, k = Known[test][t][pc[t]]
    PROVE  k \in Fact /\ Holds(t, k) /\ Enough(test, t, k, s)
<1>1. pc[t] \in DOMAIN Code[test][t] /\ s = Code[test][t][pc[t]] /\ t \in started /\ ~Finished(t)
      /\ exit = "running"
  BY CurrentFacts DEF Script
<1>2. test \in Tests
  BY DEF TypeOK
<1>3. FlowSound(test, Code[test], Known[test])
  BY <1>2, AnalysisAssumption DEF Sound
<1>4. Enough(test, t, k, s)
  BY <1>1, <1>3 DEF FlowSound
<1> QED
  BY <1>1, <1>2, <1>4, KnownFact DEF FactsHold

LEMMA StatementFacts ==
    ASSUME TypeOK, TypeOK', FactsHold, NEW t \in Threads, NEW s \in Current(t), Statement(t, s),
           exit' = "running"
    PROVE  FactsHold'
<1>1. Effect(t, s)
  BY StatementEffect
<1>2. PICK name, p, k : name = test /\ p = pc[t] /\ k = Known[test][t][pc[t]]
  OBVIOUS
<1>3. k \in Fact /\ Holds(t, k)
  BY <1>2, CurrentKnown
<1>4. name \in Tests /\ test' = name
  BY <1>1, <1>2 DEF Effect, TypeOK
<1>5. /\ p \in DOMAIN Code[name][t] /\ s = Code[name][t][p] /\ k = Known[name][t][p]
      /\ t \in started /\ ~Finished(t) /\ exit = "running"
  BY <1>2, CurrentFacts DEF Script
<1>6. FlowSound(name, Code[name], Known[name]) /\ NoInterference(name, Code[name], Known[name])
  BY <1>4, AnalysisAssumption DEF Sound
<1>7. ASSUME NEW u \in started', ~Finished(u)'
      PROVE  Holds(u, Known[test][u][pc[u]])'
  <2>1. PICK q, l : q = pc'[u] /\ l = Known[name][u][pc'[u]]
    OBVIOUS
  <2>2. u \in Threads
    BY DEF TypeOK
  <2>3. q \in DOMAIN Code[name][u] /\ Code[name][u] # <<>>
    <3>1. Code[name][u] \in Seq([op : STRING, on : STRING, n : Nat])
      BY <1>4, <2>2, ScriptAssumption
    <3>2. q \in Nat \ {0}
      BY <2>1, <2>2 DEF TypeOK
    <3>3. q <= Len(Code[name][u])
      BY <1>4, <1>7, <2>1, <3>1, <3>2 DEF Finished, Script
    <3> QED
      BY <3>1, <3>2, <3>3
  <2>4. CASE u = t
    <3>1. q \in Successors(s, p, Len(Code[name][t]))
      BY <1>1, <1>2, <2>1, <2>4 DEF Effect, ThreadEffect, Script
    <3>2. Implies(After(k, s, Falls(s, p, q)), l)
      BY <1>5, <1>6, <2>1, <2>3, <2>4, <3>1 DEF FlowSound
    <3>3. Falls(s, p, q) => ret'[t] # "0"
      BY <1>1, <1>2, <2>1, <2>4 DEF Effect, ThreadEffect, AnswerEffect, Answering, Remote, Falls
    <3>4. Falls(s, p, q) \in BOOLEAN
      BY DEF Falls
    <3>5. Holds(t, After(k, s, Falls(s, p, q)))'
      BY <1>1, <1>3, <3>3, <3>4, OwnFacts
    <3>6. Holds(u, l)'
      BY <2>4, <3>2, <3>5, WeakerNext
    <3> QED
      BY <1>4, <2>1, <3>6 DEF Holds
  <2>5. CASE u # t /\ u \in started /\ ~Finished(u)
    <3>1. q = pc[u]
      BY <1>1, <2>1, <2>2, <2>5 DEF Effect, ThreadEffect
    <3>2. l \in Fact /\ Holds(u, l)
      BY <1>2, <1>4, <1>5, <2>1, <2>2, <2>3, <2>5, <3>1, KnownFact DEF FactsHold
    <3>3. t \notin l.idle /\ u \notin k.idle
      BY <1>3, <1>5, <2>5, <3>2 DEF Holds
    <3>4. s \in Rivals(Code[name], Known[name], u, t)
      BY <1>5, <3>3 DEF Rivals
    <3>5. Undisturbed(l, s)
      BY <1>6, <2>1, <2>2, <2>3, <2>5, <3>3, <3>4 DEF NoInterference
    <3>6. Holds(u, l)'
      BY <1>1, <2>2, <2>5, <3>2, <3>5, OthersFacts
    <3> QED
      BY <1>4, <2>1, <3>6 DEF Holds
  <2>6. CASE u # t /\ ~(u \in started /\ ~Finished(u))
    <3>1. s.op = "start" /\ u = s.n
      <4>1. SUFFICES ASSUME ~(s.op = "start" /\ s.n = u) PROVE FALSE
        OBVIOUS
      <4>2. u \in started => Finished(u)
        BY <2>6
      <4> QED
        BY <1>1, <1>7, <2>2, <4>1, <4>2, StaysIdle
    <3>2. q = 1
      BY <1>1, <2>1, <2>2, <2>6, <3>1 DEF Effect, ThreadEffect
    <3>3. Implies(Begun(After(k, s, FALSE)), l)
      BY <1>5, <1>6, <2>1, <2>3, <3>1, <3>2 DEF FlowSound
    <3>4. Holds(t, After(k, s, FALSE))'
      BY <1>1, <1>3, OwnFacts
    <3>5. Holds(u, Begun(After(k, s, FALSE)))'
      BY <3>4 DEF Holds, After, Begun
    <3>6. Holds(u, l)'
      BY <3>3, <3>5, WeakerNext
    <3> QED
      BY <1>4, <2>1, <3>6 DEF Holds
  <2> QED
    BY <2>4, <2>5, <2>6
<1> QED
  BY <1>7 DEF FactsHold

-----------------------------------------------------------------------------
(* The inductive invariant. *)

LEMMA InitInv == Init => IInv
<1> SUFFICES ASSUME Init PROVE IInv
  OBVIOUS
<1>1. TypeOK
  BY InitTypes
<1>2. ASSUME NEW t \in started, ~Finished(t)
      PROVE  Holds(t, Known[test][t][pc[t]])
  <2>1. t = Main /\ pc[t] = 1 /\ test \in Tests /\ t \in Threads
    BY DEF Init, Main, Threads
  <2>2. Code[test][Main] \in Seq([op : STRING, on : STRING, n : Nat])
    BY <2>1, ScriptAssumption
  <2>3. Code[test][Main] # <<>>
    BY <1>2, <2>1, <2>2 DEF Finished, Script
  <2>4. Implies(AtStart, Known[test][Main][1])
    BY <2>1, <2>3, AnalysisAssumption DEF Sound, EntrySound
  <2>5. Holds(Main, AtStart)
    BY ScriptAssumption DEF Init, Holds, AtStart, Main, Threads
  <2> QED
    BY <2>1, <2>4, <2>5, Weaker
<1> QED
  BY <1>1, <1>2 DEF IInv, NoMisuse, FactsHold, StuckInCall, AtEnd, Accounted, Init

(* A connection that another thread may be using is not closed. *)
LEMMA NotInUse ==
    ASSUME IInv, NEW t \in Threads, NEW s \in Current(t), s.op \in {"close", "close_null"},
           s.on \in InUse(t)
    PROVE  s.on \in Misuses[test]
<1>1. PICK u \in started \ {t} : ~Finished(u) /\ s.on \in Uses(Script(u)[pc[u]])
  BY DEF InUse
<1>2. PICK p, q, k, l : /\ p = pc[t] /\ k = Known[test][t][p]
                        /\ q = pc[u] /\ l = Known[test][u][q]
  OBVIOUS
<1>3. /\ p \in DOMAIN Code[test][t] /\ s = Code[test][t][p]
      /\ t \in started /\ ~Finished(t) /\ exit = "running"
  BY <1>2, CurrentFacts DEF IInv, Script
<1>4. TypeOK /\ FactsHold /\ test \in Tests /\ u \in Threads
  BY <1>1 DEF IInv, TypeOK
<1>5. q \in DOMAIN Code[test][u]
  <2>1. Code[test][u] \in Seq([op : STRING, on : STRING, n : Nat]) /\ q \in Nat \ {0}
    BY <1>2, <1>4, ScriptAssumption DEF TypeOK
  <2> QED
    BY <1>1, <1>2, <2>1 DEF Finished, Script
<1>6. Holds(t, k) /\ Holds(u, l)
  BY <1>1, <1>2, <1>3, <1>4 DEF FactsHold
<1>7. t \notin l.idle /\ u \notin k.idle
  BY <1>1, <1>3, <1>6 DEF Holds
<1>8. s \in Rivals(Code[test], Known[test], u, t)
  BY <1>2, <1>3, <1>7 DEF Rivals
<1>9. NoInterference(test, Code[test], Known[test])
  BY <1>4, AnalysisAssumption DEF Sound
<1>10. Collides(Code[test][u][q], s)
  BY <1>1, <1>2 DEF Uses, Collides, Script
<1> QED
  BY <1>1, <1>2, <1>4, <1>5, <1>7, <1>8, <1>9, <1>10 DEF NoInterference

(* A statement only uses connections that are known to be usable, and      *)
(* closes none that is in use, but for the misuses known.                  *)
LEMMA StatementMisuse ==
    ASSUME IInv, NEW t \in Threads, NEW s \in Current(t), Statement(t, s)
    PROVE  NoMisuse'
<1>1. misused \subseteq Misuses[test] /\ test' = test
  BY DEF IInv, NoMisuse, Statement, Ends, set_timeout, stop_timeout, open_conn, mysql_close, execute_query,
     ssh, wait_until_pos, add_result, note_result, add_local, expect, change, undo, pthread_create,
     set_flag, pthread_join, Jump, delete_test, exit_process
<1>2. CASE mysql_close(t, s) \/ execute_query(t, s)
  <2>1. PICK k : k = Known[test][t][pc[t]]
    OBVIOUS
  <2>2. Holds(t, k) /\ Enough(test, t, k, s)
    BY <2>1, CurrentKnown DEF IInv
  <2>3. s.on \in k.usable \cup Misuses[test]
    BY <1>2, <2>2 DEF Enough, mysql_close, execute_query
  <2>4. Dangling(s.on) \subseteq Misuses[test]
    BY <2>2, <2>3 DEF Holds, Dangling
  <2>5. CASE mysql_close(t, s)
    BY <1>1, <2>4, <2>5, NotInUse DEF mysql_close, NoMisuse
  <2>6. CASE execute_query(t, s)
    BY <1>1, <2>4, <2>6 DEF execute_query, NoMisuse
  <2> QED
    BY <1>2, <2>5, <2>6
<1>3. CASE ~mysql_close(t, s) /\ ~execute_query(t, s)
  <2>1. misused' = misused
    BY <1>3 DEF Statement, memory, Ends, set_timeout, stop_timeout, open_conn, ssh, wait_until_pos,
       add_result, note_result, add_local, expect, change, undo, pthread_create, set_flag,
       pthread_join, Jump, delete_test, exit_process
  <2> QED
    BY <1>1, <2>1 DEF NoMisuse
<1> QED
  BY <1>2, <1>3

(* A failure goes into a result when it is seen. *)
LEMMA StatementAccounted ==
    ASSUME IInv, NEW t \in Threads, NEW s \in Current(t), Statement(t, s)
    PROVE  Accounted'
<1> USE DEF Accounted
<1>1. /\ Accounted /\ local \in Number /\ result \in Number /\ detected \in BOOLEAN
      /\ ret[t] \in Number
  BY DEF IInv, TypeOK
<1>2. CASE add_result(t, s)
  BY <1>1, <1>2, SumIsNumber DEF add_result
<1>3. CASE note_result(t, s)
  BY <1>1, <1>3, SumIsNumber DEF note_result
<1>4. CASE add_local(t, s)
  BY <1>1, <1>4, SumIsNumber DEF add_local
<1>5. CASE ~add_result(t, s) /\ ~note_result(t, s) /\ ~add_local(t, s)
  <2>1. UNCHANGED verdict
    BY <1>5 DEF Statement, Ends, set_timeout, stop_timeout, open_conn, mysql_close, execute_query, ssh, wait_until_pos, expect,
       change, undo, pthread_create, set_flag, pthread_join, Jump, delete_test, exit_process
  <2> QED
    BY <1>1, <2>1 DEF verdict
<1> QED
  BY <1>2, <1>3, <1>4, <1>5

(* When main returns, what it knows is what it must. *)
LEMMA StatementAtEnd ==
    ASSUME IInv, NEW t \in Threads, NEW s \in Current(t), Statement(t, s)
    PROVE  AtEnd'
<1>1. exit = "running"
  BY CurrentFacts DEF IInv
<1>2. CASE delete_test(s)
  <2>1. PICK k : k = Known[test][t][pc[t]]
    OBVIOUS
  <2>2. Holds(t, k) /\ Enough(test, t, k, s) /\ s.op = "delete"
    BY <1>2, <2>1, CurrentKnown DEF IInv, delete_test
  <2>3. UNCHANGED <<test, pc, started, local, result, refused>> /\ marks' = marks \ Unblocked
    BY <1>2 DEF delete_test, Ends, verdict
  <2>4. started \subseteq Threads
    BY DEF IInv, TypeOK
  <2>5. marks' \subseteq Repaired \cup Leaves[test]
    BY <2>2, <2>3 DEF Holds, Enough
  <2>6. ASSUME test \notin Abandoning, NEW u \in started \ {Main}
        PROVE  Finished(u)
    BY <2>2, <2>4, <2>6 DEF Holds, Enough
  <2>7. test \notin Forgetful => (result = "0" => local = "0")
    BY <2>2 DEF Holds, Enough
  <2>8. result = "0" => refused \subseteq Leaves[test] \cup Unchecked[test]
    BY <2>2 DEF Holds, Enough
  <2> QED
    BY <2>3, <2>5, <2>6, <2>7, <2>8 DEF AtEnd, Finished, Script
<1>3. CASE ~delete_test(s)
  <2>1. exit' # "returned"
    BY <1>1, <1>3 DEF Statement, Ends, set_timeout, stop_timeout, open_conn, mysql_close, execute_query, ssh,
       wait_until_pos, add_result, note_result, add_local, expect, change, undo, pthread_create, set_flag,
       pthread_join, Jump, exit_process
  <2> QED
    BY <2>1 DEF AtEnd
<1> QED
  BY <1>2, <1>3

(* Nobody moves a thread that is stuck. *)
LEMMA StatementStuck ==
    ASSUME IInv, NEW t \in Threads, NEW s \in Current(t), Statement(t, s)
    PROVE  StuckInCall'
<1>1. t \notin stuck /\ exit = "running" /\ TypeOK /\ stuck \subseteq started /\ started \subseteq Threads
  BY CurrentFacts DEF IInv, TypeOK
<1>2. stuck' = stuck /\ test' = test
  BY DEF Statement, Ends, set_timeout, stop_timeout, open_conn, mysql_close, execute_query, ssh,
       wait_until_pos, add_result, note_result, add_local, expect, change, undo, pthread_create, set_flag, pthread_join,
     Jump, delete_test, exit_process
<1>3. ASSUME NEW u \in stuck
      PROVE  pc'[u] = pc[u]
  <2>1. u \in Threads \ {t} /\ u \in started /\ ~Finished(u)
    BY <1>1 DEF IInv, StuckInCall
  <2>2. CASE exit' = "running"
    <3>1. ThreadEffect(t, s)
      BY <1>1, <2>2, StatementEffect DEF Effect
    <3> QED
      BY <2>1, <3>1 DEF ThreadEffect
  <2>3. CASE exit' # "running"
    <3>1. delete_test(s) \/ exit_process(s)
      BY <1>1, <2>3 DEF Statement, Ends, set_timeout, stop_timeout, open_conn, mysql_close,
         execute_query, ssh, wait_until_pos, add_result, note_result, add_local, expect, change, undo,
         pthread_create, set_flag, pthread_join, Jump
    <3> QED
      BY <3>1 DEF delete_test, exit_process, Ends
  <2> QED
    BY <2>2, <2>3
<1> QED
  BY <1>2, <1>3 DEF IInv, StuckInCall, Finished, Script

LEMMA NextInv == IInv /\ [Next]_vars => IInv'
<1> SUFFICES ASSUME IInv, [Next]_vars PROVE IInv'
  OBVIOUS
<1>1. TypeOK'
  BY NextTypes DEF IInv
<1>2. ASSUME NEW t \in Threads, NEW s \in Current(t), Statement(t, s)
      PROVE  IInv'
  <2>1. FactsHold'
    <3>1. CASE exit' = "running"
      BY <1>1, <1>2, <3>1, StatementFacts DEF IInv
    <3>2. CASE exit' # "running"
      BY <3>2 DEF FactsHold
    <3> QED
      BY <3>1, <3>2
  <2>2. NoMisuse'
    BY <1>2, StatementMisuse
  <2> QED
    BY <1>1, <1>2, <2>1, <2>2, StatementStuck, StatementAccounted, StatementAtEnd DEF IInv
<1>3. ASSUME NEW t \in Threads, NEW s \in Current(t), Hang(t, s)
      PROVE  IInv'
  <2>1. NoMisuse' /\ FactsHold' /\ AtEnd' /\ Accounted'
    BY <1>3 DEF IInv, Hang, NoMisuse, FactsHold, AtEnd, Accounted, Holds, Finished, Script,
       memory, servers, verdict
  <2>2. ~Finished(t)
    BY <1>3, CurrentFacts DEF IInv
  <2>3. StuckInCall'
    BY <1>3, <2>2 DEF IInv, Hang, StuckInCall, Finished, Script
  <2> QED
    BY <1>1, <2>1, <2>3 DEF IInv
<1>4. CASE timeout_thread
  BY <1>1, <1>4 DEF IInv, timeout_thread, Ends, NoMisuse, FactsHold, StuckInCall, AtEnd, Accounted,
     Finished, Script, memory, servers, verdict
<1>5. CASE UNCHANGED vars
  BY <1>1, <1>5 DEF IInv, vars, NoMisuse, FactsHold, StuckInCall, AtEnd, Accounted, Holds, Finished,
     Script, memory, servers, verdict
<1> QED
  BY <1>2, <1>3, <1>4, <1>5 DEF Next

-----------------------------------------------------------------------------
(* The theorems. *)

(* The variables of a run have their types, for any scripts. *)
THEOREM ScriptTypes == Spec => []TypeOK
<1>1. Init => TypeOK
  BY InitTypes
<1>2. TypeOK /\ [Next]_vars => TypeOK'
  BY NextTypes
<1> QED
  BY <1>1, <1>2, PTL DEF Spec

LEMMA Invariance == Spec => []IInv
<1>1. Init => IInv
  BY InitInv
<1>2. IInv /\ [Next]_vars => IInv'
  BY NextInv
<1> QED
  BY <1>1, <1>2, PTL DEF Spec

(* The analysis is sound: what it finds for a place of a script is true    *)
(* whenever a thread is there, in every interleaving of main, its threads  *)
(* and the timeout thread.                                                 *)
THEOREM AnalysisIsSound == Spec => []FactsHold
<1>1. IInv => FactsHold
  BY DEF IInv
<1> QED
  BY <1>1, Invariance, PTL

(* No connection variable is queried or closed that is not set or is freed, *)
(* and none is closed that another thread may be using, in any interleaving, *)
(* but for the misuses a test is known for.                                 *)
THEOREM ConnectionsUsedRight == Spec => []NoMisuse
<1>1. IInv => NoMisuse
  BY DEF IInv
<1> QED
  BY <1>1, Invariance, PTL

(* A test that returns has asked back all that the next one does not       *)
(* repair, and what the servers have refused to take back is in its result. *)
THEOREM ServersLeftRight == Spec => []NoResidue
<1>1. IInv => NoResidue
  BY DEF IInv, AtEnd, NoResidue
<1> QED
  BY <1>1, Invariance, PTL

(* When the TestConnections object is destroyed no thread uses it. *)
THEOREM ThreadsJoined == Spec => []NoOrphans
<1>1. IInv => NoOrphans
  BY DEF IInv, AtEnd, NoOrphans
<1> QED
  BY <1>1, Invariance, PTL

(* Whenever main is in a call that does not return, or joins a thread that  *)
(* is in one, a timeout is set or the wait is one of those known.           *)
THEOREM HangsAreWatched == Spec => []WaitsAreWatched
<1>1. IInv => WaitsAreWatched
  <2> SUFFICES ASSUME IInv, exit = "running", NEW u \in Blocking, ~timer
               PROVE  Awaited(u) \subseteq Unguarded[test]
    BY DEF WaitsAreWatched
  <2>1. TypeOK /\ FactsHold /\ test \in Tests /\ Main \in Threads
    BY DEF IInv, TypeOK, Main, Threads
  <2>2. /\ u \in Threads /\ u \in started /\ ~Finished(u) /\ pc[u] \in DOMAIN Code[test][u]
        /\ Awaited(u) = WaitsFor(Code[test][u][pc[u]])
    <3>1. u \in Threads /\ u \in started /\ pc[u] \in Nat \ {0} /\ ~Finished(u)
      BY DEF IInv, TypeOK, StuckInCall, Blocking
    <3>2. Code[test][u] \in Seq([op : STRING, on : STRING, n : Nat])
      BY <2>1, <3>1, ScriptAssumption
    <3> QED
      BY <3>1, <3>2 DEF Finished, Script, Awaited
  <2>3. CASE u = Main
    <3>1. PICK p, k, s : p = pc[Main] /\ k = Known[test][Main][p] /\ s = Code[test][Main][p]
      OBVIOUS
    <3>2. Holds(Main, k)
      BY <2>1, <2>2, <2>3, <3>1 DEF FactsHold
    <3>3. FlowSound(test, Code[test], Known[test])
      BY <2>1, AnalysisAssumption DEF Sound
    <3>4. Enough(test, Main, k, s)
      BY <2>1, <2>2, <2>3, <3>1, <3>3 DEF FlowSound
    <3>5. MayAwait(Code[test], s) \subseteq Unguarded[test]
      BY <3>2, <3>4 DEF Enough, Holds
    <3>6. WaitsFor(s) \subseteq MayAwait(Code[test], s)
      BY DEF WaitsFor, MayAwait
    <3> QED
      BY <2>2, <2>3, <3>1, <3>5, <3>6
  <2>4. CASE u # Main
    <3>1. PICK s \in Current(Main) : s.op = "join" /\ s.n = u
      BY <2>4 DEF Blocking
    <3>2. PICK k : k = Known[test][Main][pc[Main]]
      OBVIOUS
    <3>3. Holds(Main, k) /\ Enough(test, Main, k, s)
      BY <2>1, <3>2, CurrentKnown
    <3>4. MayAwait(Code[test], s) \subseteq Unguarded[test]
      BY <3>3 DEF Enough, Holds
    <3>5. Awaited(u) \subseteq MayAwait(Code[test], s)
      BY <2>2, <3>1 DEF MayAwait
    <3> QED
      BY <3>4, <3>5
  <2> QED
    BY <2>3, <2>4
<1> QED
  BY <1>1, Invariance, PTL

(* A thread finds its exit flag not set when it is started. *)
THEOREM ThreadsStartedToWork == Spec => StartedToWork
<1> DEFINE Working == \A t \in Threads : \A s \in Current(t) :
                          pthread_create(t, s) /\ test \notin Idle => ~flag[s.n]
<1>1. IInv => Working
  <2> SUFFICES ASSUME IInv, NEW t \in Threads, NEW s \in Current(t),
                      pthread_create(t, s), test \notin Idle
               PROVE  ~flag[s.n]
    OBVIOUS
  <2>1. PICK k : k = Known[test][t][pc[t]]
    OBVIOUS
  <2>2. Holds(t, k) /\ Enough(test, t, k, s)
    BY <2>1, CurrentKnown DEF IInv
  <2>3. s.n \in k.clear
    BY <2>2 DEF Enough, pthread_create
  <2> QED
    BY <2>2, <2>3 DEF Holds
<1> QED
  BY <1>1, Invariance, PTL DEF StartedToWork

-----------------------------------------------------------------------------
(* The contract. *)

(* A statement before the end sees a failure, sets or stops the timeout, or *)
(* does nothing that the contract knows of.                                 *)
LEMMA StatementKeeps ==
    ASSUME IInv, IInv', NEW t \in Threads, NEW s \in Current(t), Statement(t, s)
    PROVE  [Contract!Next]_(Contract!vars)
<1> DEFINE seen == IF test \in Forgetful THEN result # "0" ELSE detected
<1>1. exit = "running" /\ Phase = "running"
  BY CurrentFacts DEF IInv, Phase
<1>2. /\ timer \in BOOLEAN /\ local \in Number /\ result \in Number /\ detected \in BOOLEAN
      /\ ret[t] \in Number
      /\ detected = (local # "0" \/ result # "0")
  BY DEF IInv, TypeOK, Accounted
<1>3. CASE set_timeout(t, s)
  <2>1. Phase' = "running" /\ seen' = seen /\ result' = result /\ timer' = TRUE
    BY <1>1, <1>3 DEF set_timeout, Phase, verdict
  <2> QED
    BY <1>1, <2>1 DEF Contract!Next, Contract!Watch
<1>4. CASE stop_timeout(t, s)
  <2>1. Phase' = "running" /\ seen' = seen /\ result' = result /\ timer' = FALSE
    BY <1>1, <1>4 DEF stop_timeout, Phase, verdict
  <2> QED
    BY <1>1, <2>1 DEF Contract!Next, Contract!Unwatch
<1>5. CASE add_result(t, s) \/ note_result(t, s) \/ add_local(t, s)
  <2>1. Phase' = "running" /\ timer' = timer /\ test' = test
    BY <1>1, <1>5 DEF add_result, note_result, add_local, Phase
  <2>2. /\ result' \in Number /\ (result # "0" => result' # "0")
        /\ detected' = (local' # "0" \/ result' # "0")
        /\ detected => detected'
    BY <1>2, <1>5, SumIsNumber DEF add_result, note_result, add_local, IInv, TypeOK, Accounted
  <2>3. CASE result' = result
    <3>1. seen' = seen \/ seen' = TRUE
      BY <1>2, <2>1, <2>2, <2>3
    <3> QED
      BY <1>1, <2>1, <2>3, <3>1 DEF Contract!Next, Contract!SeeFailure, Contract!vars
  <2>4. CASE result' # result
    <3>1. result' # "0"
      BY <2>2, <2>4
    <3>2. result' \in {"256", "1"}
      BY <2>2, <3>1 DEF Number, Failure
    <3>3. detected' = TRUE /\ (result' # "0") = TRUE
      BY <2>2, <3>1
    <3>4. seen' = TRUE
      BY <2>1, <3>3
    <3> QED
      BY <1>1, <2>1, <3>2, <3>4 DEF Contract!Next, Contract!Report
  <2> QED
    BY <2>3, <2>4
<1>6. CASE delete_test(s)
  <2>1. /\ Phase' = (IF result = "1" THEN "failed" ELSE "passed")
        /\ seen' = seen /\ result' = result /\ timer' = timer
    BY <1>6 DEF delete_test, Ends, Phase, verdict
  <2>2. test \notin Forgetful => (result = "0" => local = "0")
    BY <1>6 DEF IInv, AtEnd, delete_test, Ends, verdict
  <2>3. /\ seen <=> result # "0"
        /\ result # "1" => result \in {"0", "256"}
    BY <1>2, <2>2 DEF Number, Failure
  <2> QED
    BY <1>1, <2>1, <2>3 DEF Contract!Next, Contract!Pass, Contract!Fail, Contract!End
<1>7. CASE exit_process(s)
  <2>1. Phase' = "aborted" /\ seen' = seen /\ result' = result /\ timer' = timer
    BY <1>7 DEF exit_process, Ends, Phase, verdict
  <2> QED
    BY <1>1, <2>1 DEF Contract!Next, Contract!Abort, Contract!End
<1>8. CASE ~(\/ set_timeout(t, s) \/ stop_timeout(t, s) \/ add_result(t, s) \/ note_result(t, s)
             \/ add_local(t, s) \/ delete_test(s) \/ exit_process(s))
  <2>1. UNCHANGED <<test, timer, verdict, exit>>
    BY <1>8 DEF Statement, open_conn, mysql_close, execute_query, ssh, wait_until_pos, expect, change,
       undo, pthread_create, set_flag, pthread_join, Jump
  <2> QED
    BY <2>1 DEF Contract!vars, Phase, verdict
<1> QED
  BY <1>3, <1>4, <1>5, <1>6, <1>7, <1>8

(* A test program implements the contract: it fails only with a failure    *)
(* seen by main or a thread, passes only without one or when all that was   *)
(* reported adds up to a multiple of 256, and is only ended by the timeout  *)
(* thread while a timeout is set.                                           *)
THEOREM ScriptsKeepContract == Spec => KeepsContract
<1>1. Init => Contract!Init
  BY DEF Init, Contract!Init, Phase
<1>2. IInv /\ IInv' /\ [Next]_vars => [Contract!Next]_(Contract!vars)
  <2> SUFFICES ASSUME IInv, IInv', [Next]_vars PROVE [Contract!Next]_(Contract!vars)
    OBVIOUS
  <2>1. ASSUME NEW t \in Threads, NEW s \in Current(t), Statement(t, s)
        PROVE  [Contract!Next]_(Contract!vars)
    BY <2>1, StatementKeeps
  <2>2. ASSUME NEW t \in Threads, NEW s \in Current(t), Hang(t, s)
        PROVE  [Contract!Next]_(Contract!vars)
    BY <2>2 DEF Hang, Contract!vars, Phase, verdict
  <2>3. CASE timeout_thread
    BY <2>3 DEF timeout_thread, Ends, Contract!Next, Contract!TimeOut, Contract!End, Phase, verdict
  <2>4. CASE UNCHANGED vars
    BY <2>4 DEF vars, Contract!vars, Phase, verdict
  <2> QED
    BY <2>1, <2>2, <2>3, <2>4 DEF Next
<1> QED
  BY <1>1, <1>2, Invariance, PTL DEF Spec, KeepsContract, Contract!Spec
=============================================================================
