---------------------------- MODULE ScriptAnalysis ----------------------------
(***************************************************************************)
(* Why the scripts of the suite are right, place by place.  Known gives,   *)
(* for every statement of every thread of a test, what is certain whenever *)
(* that thread is about to execute it, whatever the other threads are at:  *)
(* which connection variables may be used, which threads do not run, which *)
(* exit flags are not set, what can at most be changed on the servers.     *)
(*                                                                         *)
(* Sound is the condition, on the text of a test alone, under which these  *)
(* facts hold in every run of it and are enough for the test to use its    *)
(* connections, threads, marks and results correctly.  It is checked for   *)
(* the scripts of the suite; that it is enough is proved for any scripts.  *)
(***************************************************************************)
EXTENDS TestScript

CONSTANT Known   \* Known[test][thread][place]: what is certain there

Fact == [usable   : SUBSET Handles,   \* connections that are open or NULL
         idle     : SUBSET Threads,   \* threads not started, or finished
         clear    : SUBSET Threads,   \* threads whose exit flag is not set
         dirty    : SUBSET Marks,     \* all that may be changed on the servers
         kept     : SUBSET Marks,     \* all that may stay, unreported
         watched  : BOOLEAN,          \* a timeout is set
         failed   : BOOLEAN,          \* the last call of the thread has failed
         judged   : BOOLEAN,          \* it has not, or a failure is reported
         reported : BOOLEAN]          \* what is in local is also in result

(* Whoever knows k knows l. *)
Implies(k, l) ==
    /\ l.usable \subseteq k.usable
    /\ l.idle \subseteq k.idle /\ l.clear \subseteq k.clear
    /\ k.dirty \subseteq l.dirty /\ k.kept \subseteq l.kept
    /\ l.watched => k.watched
    /\ l.failed => k.failed
    /\ l.judged => k.judged
    /\ l.reported => k.reported

AtStart ==
    [usable |-> NodeArrays, idle |-> Threads \ {Main}, clear |-> Threads, dirty |-> {},
     kept |-> {}, watched |-> FALSE, failed |-> FALSE, judged |-> TRUE, reported |-> TRUE]

Nulls(s) == s.op = "close_null" \/ (s.op = "close" /\ s.on \in NodeArrays)
Frees(s) == s.op = "close" /\ s.on \notin NodeArrays

Answering == Remote \cup {"open", "query", "expect", "refuse"}

(* What a thread knows after statement s if it knew k before; in fell, it is *)
(* at the statements that follow a failed check.                             *)
After(k, s, fell) ==
    [usable   |-> IF s.op = "open" \/ Nulls(s) THEN k.usable \cup {s.on}
                  ELSE IF Frees(s) THEN k.usable \ {s.on} ELSE k.usable,
     idle     |-> IF s.op = "start" THEN k.idle \ {s.n}
                  ELSE IF s.op = "join" THEN k.idle \cup {s.n} ELSE k.idle,
     clear    |-> IF s.op = "set_flag" THEN k.clear \ {s.n}
                  ELSE IF s.op = "clear_flag" THEN k.clear \cup {s.n} ELSE k.clear,
     dirty    |-> IF s.op = "change" THEN k.dirty \cup {s.on}
                  ELSE IF s.op = "undo" THEN k.dirty \ {s.on} ELSE k.dirty,
     kept     |-> IF s.op = "undo" /\ ~k.judged THEN k.kept \cup ({s.on} \ Repaired)
                  ELSE k.kept,
     watched  |-> s.op = "set_timeout" \/ (k.watched /\ s.op # "stop_timeout"),
     failed   |-> fell \/ (k.failed /\ s.op \notin Answering),
     judged   |-> s.op = "add" \/ (k.judged /\ s.op \notin Answering),
     reported |-> s.op = "add_local" \/ (s.op = "add" /\ k.failed)
                  \/ (k.reported /\ s.op # "note")]

(* What a thread knows that is started by one who knows k. *)
Begun(k) == [k EXCEPT !.failed = FALSE, !.judged = FALSE]

(* The places that may follow place p, with statement s, in a script. *)
Successors(s, p, len) ==
    CASE s.op \in {"maybe", "on_fail", "while"} -> {p + 1, p + 1 + s.n}
      [] s.op = "skip"                          -> {p + 1 + s.n}
      [] s.op = "back"                          -> {p - s.n}
      [] s.op = "return"                        -> {len + 1}
      [] s.op \in {"delete", "exit"}            -> {}
      [] OTHER                                  -> {p + 1}

Falls(s, p, q) == s.op = "on_fail" /\ s.n # 0 /\ q = p + 1

(* What main may wait for without end at statement s: the statement itself, *)
(* or one of the thread that it joins.                                      *)
MayAwait(code, s) ==
    IF s.op = "join" THEN UNION {WaitsFor(code[s.n][q]) : q \in DOMAIN code[s.n]}
    ELSE WaitsFor(s)

(* What a thread at statement s may be in the middle of when another closes *)
(* a connection with statement r.                                           *)
Collides(s, r) == s.op \in {"query", "close", "close_null"} /\ r.op \in {"close", "close_null"}
                  /\ r.on = s.on

(* What must be known for thread t of test name to execute s. *)
Enough(name, t, k, s) ==
    /\ s.op \in {"close", "close_null", "query"} => s.on \in k.usable \cup Misuses[name]
    /\ s.op = "start" /\ name \notin Idle => s.n \in k.clear
    /\ t = Main => k.watched \/ MayAwait(Code[name], s) \subseteq Unguarded[name]
    /\ s.op = "delete" =>
          /\ k.dirty \ Unblocked \subseteq Repaired \cup Leaves[name]
          /\ k.kept \subseteq Leaves[name] \cup Unchecked[name]
          /\ name \notin Abandoning => Threads \ {Main} \subseteq k.idle
          /\ name \notin Forgetful => k.reported

(* Another thread may execute s and k remains true. *)
Undisturbed(k, s) ==
    /\ Frees(s) => s.on \notin k.usable
    /\ s.op = "start" => s.n \notin k.idle
    /\ s.op = "set_flag" => s.n \notin k.clear
    /\ s.op = "change" => s.on \in k.dirty
    /\ s.op = "undo" => s.on \in Repaired \cup k.kept
    /\ s.op = "stop_timeout" => ~k.watched
    /\ s.op = "note" => ~k.reported

-----------------------------------------------------------------------------
(* The first statement of main, and each way from one statement to another. *)
EntrySound(code, known) == code[Main] # <<>> => Implies(AtStart, known[Main][1])

FlowSound(name, code, known) ==
    \A t \in Threads : \A p \in DOMAIN code[t] :
        LET k == known[t][p]
            s == code[t][p]
        IN /\ Enough(name, t, k, s)
           /\ \A q \in Successors(s, p, Len(code[t])) \cap DOMAIN code[t] :
                  Implies(After(k, s, Falls(s, p, q)), known[t][q])
           /\ s.op = "start" /\ code[s.n] # <<>> =>
                  Implies(Begun(After(k, s, FALSE)), known[s.n][1])

(* The statements of u at which t may be running. *)
Rivals(code, known, t, u) ==
    {code[u][q] : q \in {q \in DOMAIN code[u] : t \notin known[u][q].idle}}

(* What t knows at a place where u may be running survives what u may be at, *)
(* and no connection that t uses there is closed by u.                       *)
NoInterference(name, code, known) ==
    \A t \in Threads : \A u \in Threads \ {t} :
        LET rivals == Rivals(code, known, t, u) IN
        \A p \in DOMAIN code[t] : u \notin known[t][p].idle =>
            \A s \in rivals :
                /\ Undisturbed(known[t][p], s)
                /\ Collides(code[t][p], s) => s.on \in Misuses[name]

Sound(name) ==
    /\ EntrySound(Code[name], Known[name])
    /\ FlowSound(name, Code[name], Known[name])
    /\ NoInterference(name, Code[name], Known[name])

ASSUME AnalysisAssumption ==
    /\ Known \in [Tests -> [Threads -> Seq(Fact)]]
    /\ \A name \in Tests :
          /\ \A t \in Threads : DOMAIN Known[name][t] = DOMAIN Code[name][t]
          /\ Sound(name)

-----------------------------------------------------------------------------
Holds(t, k) ==
    /\ \A h \in k.usable : conn[h] \in {"null", "open"}
    /\ \A u \in k.idle : u \in started => Finished(u)
    /\ \A u \in k.clear : ~flag[u]
    /\ marks \subseteq k.dirty
    /\ result = "0" => refused \subseteq k.kept
    /\ k.watched => timer
    /\ k.failed => ret[t] # "0"
    /\ k.judged => (result = "0" => ret[t] = "0")
    /\ k.reported => (result = "0" => local = "0")

(* What the analysis of a script says of a place is true whenever a thread *)
(* is there, also of connections, flags and servers that other threads     *)
(* change meanwhile.                                                       *)
FactsHold ==
    exit = "running" =>
        \A t \in started : ~Finished(t) => Holds(t, Known[test][t][pc[t]])
=============================================================================
