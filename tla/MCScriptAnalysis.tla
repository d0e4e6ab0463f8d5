--------------------------- MODULE MCScriptAnalysis ---------------------------
(* The facts about the scripts of the suite, as the greatest solution of the *)
(* conditions of ScriptAnalysis: from "everything is certain", each sweep    *)
(* over the places takes away what the statements before, or the other       *)
(* threads, do not warrant.                                                  *)
EXTENDS ScriptAnalysis, MCTestScript

Everything ==
    [usable |-> Handles, idle |-> Threads, clear |-> Threads, dirty |-> {}, kept |-> {},
     watched |-> TRUE, failed |-> TRUE, judged |-> TRUE, reported |-> TRUE]

Meet(k, l) ==
    [usable |-> k.usable \cap l.usable, idle |-> k.idle \cap l.idle, clear |-> k.clear \cap l.clear,
     dirty |-> k.dirty \cup l.dirty, kept |-> k.kept \cup l.kept, watched |-> k.watched /\ l.watched,
     failed |-> k.failed /\ l.failed, judged |-> k.judged /\ l.judged,
     reported |-> k.reported /\ l.reported]

(* What remains of k when other threads may execute the statements S. *)
Weaken(k, S) ==
    LET on(P(_)) == {s.on : s \in {s \in S : P(s)}}
        of(op)   == {s.n : s \in {s \in S : s.op = op}}
    IN [k EXCEPT !.usable   = @ \ on(Frees),
                 !.idle     = @ \ of("start"),
                 !.clear    = @ \ of("set_flag"),
                 !.dirty    = @ \cup on(LAMBDA s : s.op = "change"),
                 !.kept     = @ \cup (on(LAMBDA s : s.op = "undo") \ Repaired),
                 !.watched  = @ /\ \A s \in S : s.op # "stop_timeout",
                 !.reported = @ /\ \A s \in S : s.op # "note"]

RECURSIVE Push(_, _, _), Sweep(_, _, _, _, _, _), Sweeps(_, _, _, _), Settle(_, _)

(* An arrival is a place of thread t and what is known on getting there. *)
Push(known, t, arrivals) ==
    IF arrivals = {} THEN known
    ELSE LET a == CHOOSE a \in arrivals : TRUE
         IN Push([known EXCEPT ![t][a[1]] = Meet(@, a[2])], t, arrivals \ {a})

Visit(code, rivals, known, t, p) ==
    LET s      == code[t][p]
        others == Threads \ (known[t][p].idle \cup {t})
        k      == Weaken(known[t][p], UNION {rivals[t][u] : u \in others})
        places == Successors(s, p, Len(code[t])) \cap DOMAIN code[t]
        next   == Push([known EXCEPT ![t][p] = k], t,
                       {<<q, After(k, s, Falls(s, p, q))>> : q \in places})
    IN IF s.op = "start" /\ code[s.n] # <<>>
       THEN Push(next, s.n, {<<1, Begun(After(k, s, FALSE))>>})
       ELSE next

(* The places from lo to hi of thread t, in order.  The comparison with the *)
(* empty sequence has TLC compute the left half before the right one.       *)
Sweep(code, rivals, known, t, lo, hi) ==
    IF lo > hi THEN known
    ELSE IF lo = hi THEN Visit(code, rivals, known, t, lo)
    ELSE LET mid  == (lo + hi) \div 2
             left == Sweep(code, rivals, known, t, lo, mid)
         IN IF left = <<>> THEN left ELSE Sweep(code, rivals, left, t, mid + 1, hi)

Sweeps(code, rivals, known, t) ==
    IF t = 0 THEN known
    ELSE LET first == Sweeps(code, rivals, known, t - 1)
         IN IF first = <<>> THEN first ELSE Sweep(code, rivals, first, t, 1, Len(code[t]))

Settle(code, known) ==
    LET row(t) == <<Rivals(code, known, t, 1), Rivals(code, known, t, 2),
                    Rivals(code, known, t, 3), Rivals(code, known, t, 4)>>
        next == Sweeps(code, <<row(1), row(2), row(3), row(4)>>, known, 4)
    IN IF next = known THEN known ELSE Settle(code, next)

Analyse(code) ==
    LET row(t) == SubSeq([p \in 1..Len(code[t]) |-> Everything], 1, Len(code[t]))
        all    == <<row(1), row(2), row(3), row(4)>>
    IN Settle(code, IF code[Main] = <<>> THEN all ELSE [all EXCEPT ![Main][1] = AtStart])

(* TLC computes a definition without parameters once. *)
SuiteFacts == [name \in MCTests |-> Analyse(MCCode[name])]
MCKnown    == SuiteFacts
=============================================================================
