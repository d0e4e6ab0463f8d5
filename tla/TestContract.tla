---------------------------- MODULE TestContract ----------------------------
(***************************************************************************)
(* What whoever starts a test program (ctest, a build job) is promised:    *)
(* the program fails only if it has seen a failure; it passes only if it   *)
(* has seen none, or if all that it has seen was reported and the numbers  *)
(* reported add up to a multiple of 256, of which the caller sees 0.  It   *)
(* is ended from outside only while it is watched, that is between         *)
(* set_timeout and stop_timeout.  Module TestScript implements it.         *)
(***************************************************************************)
VARIABLES
    phase,    \* running, or how the program has ended
    seen,     \* a failure has been seen
    status,   \* what was reported: nothing ("0"), a multiple of 256, or other
    watched   \* a timeout is set

vars == <<phase, seen, status, watched>>

TypeOK ==
    /\ phase \in {"running", "passed", "failed", "aborted", "timed_out"}
    /\ seen \in BOOLEAN
    /\ status \in {"0", "256", "1"}
    /\ watched \in BOOLEAN

Init == phase = "running" /\ ~seen /\ status = "0" /\ ~watched

SeeFailure == phase = "running" /\ seen' = TRUE /\ UNCHANGED <<phase, status, watched>>
Report     == phase = "running" /\ seen' = TRUE /\ status' \in {"256", "1"}
              /\ UNCHANGED <<phase, watched>>
Watch      == phase = "running" /\ watched' = TRUE /\ UNCHANGED <<phase, seen, status>>
Unwatch    == phase = "running" /\ watched' = FALSE /\ UNCHANGED <<phase, seen, status>>

End(how) == phase = "running" /\ phase' = how /\ UNCHANGED <<seen, status, watched>>

Pass    == (seen => status = "256") /\ End("passed")
Fail    == seen /\ status = "1" /\ End("failed")
Abort   == End("aborted")
TimeOut == watched /\ End("timed_out")

Next == SeeFailure \/ Report \/ Watch \/ Unwatch \/ Pass \/ Fail \/ Abort \/ TimeOut

Spec == Init /\ [][Next]_vars
=============================================================================
