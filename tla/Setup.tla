-------------------------------- MODULE Setup --------------------------------
(***************************************************************************)
(* The setup of a test (the constructor of TestConnections) in a suite of  *)
(* tests that run one after the other on the same machines: options, the   *)
(* check of the server versions, snapshots, the repair of both backend     *)
(* setups, the configuration and the start of MaxScale, SSL; then the body *)
(* of the test, and what the destructor does to the machines.              *)
(*                                                                         *)
(* How fix_replication repairs a setup is module Replication; here it is   *)
(* one step that succeeds or does not.  The constructor looks at the       *)
(* result of none of its other commands.                                   *)
(***************************************************************************)
EXTENDS Integers

CONSTANTS
    Options,    \* the options and environments of the tests
    MaxTests,   \* how many tests the suite runs
    MaxFaults,  \* bound: commands that fail and setups that break
    MaxWaits    \* how often MaxScale is asked whether it is there (15)

Setups == {"repl", "galera"}

ASSUME SetupAssumption ==
    /\ Options \subseteq [check_nodes : BOOLEAN, maxscale_init : BOOLEAN, start : BOOLEAN,
                          galera : BOOLEAN, restart_galera : BOOLEAN, use_snapshots : BOOLEAN,
                          backend_ssl : BOOLEAN, required : SUBSET Setups]
    /\ MaxTests \in Nat \ {0} /\ MaxFaults \in Nat /\ MaxWaits \in Nat \ {0}

VARIABLES
    pc,        \* where the constructor is
    test, opt, \* the number of the test and its options
    low,       \* the setups whose servers are older than what a test can require
    stop_set,  \* the environment defines stop_db_command
    broken,    \* the setups that do not work
    ssl_user,  \* the database user of the Master/Slave setup has to use SSL
    local,     \* the test whose maxscale.cnf is in the working directory,
    home,      \*   in the home directory on the MaxScale machine,
    cnf,       \*   in /etc there,
    running,   \*   and loaded by the running MaxScale; 0 is none
    waits,     \* how often MaxScale was asked
    reverted,  \* snapshot_reverted
    checked,   \* history: fix_replication has returned true for all setups
    failed,    \* history: a command of this setup has failed
    ssl_past,  \* history: some earlier test has used SSL
    faults

machines == <<broken, ssl_user>>
files    == <<local, home, cnf>>
fixed    == <<low, stop_set>>
vars == <<pc, test, opt, fixed, machines, files, running, waits, reverted, checked, failed, ssl_past,
          faults>>

Init ==
    /\ pc = "versions" /\ test = 1 /\ opt \in Options
    /\ low \in SUBSET Setups /\ stop_set \in BOOLEAN
    /\ broken = {} /\ ssl_user = FALSE
    /\ local = 0 /\ home = 0 /\ cnf = 0 /\ running = 0
    /\ waits = 0 /\ reverted = FALSE /\ checked = FALSE /\ failed = FALSE /\ ssl_past = FALSE
    /\ faults = 0

-----------------------------------------------------------------------------
Used     == IF opt.galera THEN Setups ELSE {"repl"}
Fails(b) == (b => faults < MaxFaults) /\ faults' = (IF b THEN faults + 1 ELSE faults)
            /\ failed' = (failed \/ b)

(* read_env: without stop_db_command the default meant for it overwrites    *)
(* start_db_command, so that start_node stops the server.                   *)
CanStart == stop_set

(* Without Galera the pointer "galera" is the pointer "repl". *)
Asked(s) == IF opt.galera THEN s ELSE "repl"

(* What get_lowest_version can read: nothing from a server it cannot reach. *)
VersionKnown(s) == s \notin broken /\ (s = "repl" => ~ssl_user)

TooOld(s) == s \in low \/ ~VersionKnown(s)

(* Defective: the version is compared the other way round. *)
check_versions_Inverted ==
    /\ pc = "versions"
    /\ pc' = IF \E s \in opt.required : ~TooOld(Asked(s)) THEN "skipped" ELSE "restart_galera"
    /\ UNCHANGED <<test, opt, fixed, machines, files, running, waits, reverted, checked, failed,
                   ssl_past, faults>>

(* exit(0) when the servers of a setup for which the test requires a version *)
(* are too old, or seem to be.                                               *)
check_versions ==
    /\ pc = "versions"
    /\ pc' = IF \E s \in opt.required : TooOld(Asked(s)) THEN "skipped" ELSE "restart_galera"
    /\ UNCHANGED <<test, opt, fixed, machines, files, running, waits, reverted, checked, failed,
                   ssl_past, faults>>

(* stop_nodes and start_replication of the Galera setup. *)
restart_galera ==
    /\ pc = "restart_galera"
    /\ pc' = "snapshot"
    /\ IF opt.restart_galera /\ opt.galera
       THEN \E bad \in BOOLEAN :
               /\ Fails(bad)
               /\ broken' = IF bad \/ ~CanStart THEN broken \cup {"galera"} ELSE broken \ {"galera"}
       ELSE UNCHANGED <<broken, failed, faults>>
    /\ UNCHANGED <<test, opt, fixed, ssl_user, files, running, waits, reverted, checked, ssl_past>>

(* revert_snapshot gives the status of the command, 0 when it has worked:   *)
(* snapshot_reverted is then false and the setups are checked all the same, *)
(* and a failed revert goes without the check.                              *)
revert_snapshot ==
    /\ pc = "snapshot"
    /\ pc' = "fix"
    /\ IF opt.use_snapshots
       THEN \E bad \in BOOLEAN :
               /\ Fails(bad)
               /\ reverted' = bad
               /\ broken' = IF bad THEN broken ELSE {}
               /\ ssl_user' = IF bad THEN ssl_user ELSE FALSE
       ELSE UNCHANGED <<reverted, broken, ssl_user, failed, faults>>
    /\ UNCHANGED <<test, opt, fixed, files, running, waits, checked, ssl_past>>

(* Defective: only the Master/Slave setup is checked. *)
fix_replication_ReplOnly ==
    /\ pc = "fix"
    /\ IF reverted \/ ~opt.check_nodes
       THEN pc' = "template" /\ UNCHANGED <<machines, checked, failed, faults>>
       ELSE /\ broken' = broken \ {"repl"} /\ ssl_user' = FALSE
            /\ checked' = TRUE
            /\ pc' = "template"
            /\ Fails(FALSE)
    /\ UNCHANGED <<test, opt, fixed, files, running, waits, reverted, ssl_past>>

(* A setup that works is left alone; otherwise start_replication brings it  *)
(* back, with a new user, or the test exits with 200, perhaps with the first *)
(* setup repaired.                                                          *)
fix_replication ==
    /\ pc = "fix"
    /\ IF reverted \/ ~opt.check_nodes
       THEN pc' = "template" /\ UNCHANGED <<machines, checked, failed, faults>>
       ELSE LET sick == (broken \cup (IF ssl_user THEN {"repl"} ELSE {})) \cap Used
            IN  \/ /\ sick = {} \/ CanStart
                   /\ broken' = broken \ sick
                   /\ ssl_user' = FALSE /\ checked' = TRUE
                   /\ pc' = "template"
                   /\ Fails(FALSE)
                \/ /\ sick # {}
                   /\ pc' = "no_backend"
                   /\ Fails(CanStart)
                   /\ \/ UNCHANGED machines
                      \/ /\ CanStart /\ "galera" \in sick
                         /\ broken' = broken \ {"repl"} /\ ssl_user' = FALSE
                   /\ UNCHANGED checked
    /\ UNCHANGED <<test, opt, fixed, files, running, waits, reverted, ssl_past>>

-----------------------------------------------------------------------------
(* init_maxscale.  Without a template process_template returns early; its   *)
(* copy to the MaxScale machine may fail as well.                           *)
process_template ==
    /\ pc = "template"
    /\ IF opt.maxscale_init
       THEN /\ pc' = "copy"
            /\ \/ Fails(TRUE) /\ UNCHANGED <<local, home>>
               \/ Fails(TRUE) /\ local' = test /\ UNCHANGED home
               \/ Fails(FALSE) /\ local' = test /\ home' = test
       ELSE pc' = "ssl" /\ UNCHANGED <<local, home, failed, faults>>
    /\ UNCHANGED <<test, opt, fixed, machines, cnf, running, waits, reverted, checked, ssl_past>>

CopyToEtc ==
    /\ pc = "copy"
    /\ pc' = "restart"
    /\ \/ Fails(TRUE) /\ UNCHANGED cnf
       \/ Fails(FALSE) /\ cnf' = home
    /\ UNCHANGED <<test, opt, fixed, machines, local, home, running, waits, reverted, checked,
                   ssl_past>>

(* Defective: a MaxScale that runs is not restarted. *)
RestartMaxScale_IfDown ==
    /\ pc = "restart"
    /\ pc' = IF opt.start THEN "wait" ELSE "ssl"
    /\ running' = IF opt.start /\ running = 0 THEN cnf ELSE running
    /\ waits' = 0 /\ Fails(FALSE)
    /\ UNCHANGED <<test, opt, fixed, machines, files, reverted, checked, ssl_past>>

(* One command: the logs and the data directory are removed and, if it is   *)
(* to be started, MaxScale is killed and restarted.  Without a start the    *)
(* MaxScale of an earlier test goes on.                                     *)
RestartMaxScale ==
    /\ pc = "restart"
    /\ pc' = IF opt.start THEN "wait" ELSE "ssl"
    /\ \/ Fails(FALSE) /\ running' = IF opt.start THEN cnf ELSE running
       \/ Fails(TRUE) /\ running' \in (IF opt.start THEN {running, 0} ELSE {running})
    /\ waits' = 0
    /\ UNCHANGED <<test, opt, fixed, machines, files, reverted, checked, ssl_past>>

(* The answer may come late; after MaxWaits the test starts regardless. *)
WaitForMaxScale ==
    /\ pc = "wait"
    /\ \/ running # 0 /\ pc' = "ssl" /\ UNCHANGED waits
       \/ waits < MaxWaits /\ waits' = waits + 1 /\ UNCHANGED pc
       \/ waits = MaxWaits /\ pc' = "ssl" /\ UNCHANGED waits
    /\ UNCHANGED <<test, opt, fixed, machines, files, running, reverted, checked, failed, ssl_past,
                   faults>>

(* configure_ssl stops and starts every node, and replaces the user by one  *)
(* that has to use SSL; the Galera setup is started anew and keeps its user. *)
configure_ssl ==
    /\ pc = "ssl"
    /\ pc' = "running"
    /\ IF opt.backend_ssl
       THEN \E bad \in SUBSET Used :
               /\ Fails(bad # {})
               /\ broken' = IF CanStart THEN (broken \ (Used \ {"repl"})) \cup bad ELSE broken \cup Used
               /\ ssl_user' \in IF ~CanStart THEN {ssl_user}
                                ELSE IF "repl" \in bad THEN {ssl_user, TRUE} ELSE {TRUE}
       ELSE UNCHANGED <<machines, failed, faults>>
    /\ UNCHANGED <<test, opt, fixed, files, running, waits, reverted, checked, ssl_past>>

init_maxscale == process_template \/ CopyToEtc \/ RestartMaxScale \/ WaitForMaxScale

-----------------------------------------------------------------------------
(* The body of a test may break a setup and stop MaxScale; then disable_ssl *)
(* executes an empty statement instead of the one that gives the user back  *)
(* its access without SSL, and restarts the nodes.  After a test that has   *)
(* failed the snapshot is reverted, where there is one.                     *)
Body ==
    /\ pc = "running"
    /\ pc' = "ended"
    /\ \E bad \in SUBSET Used :
          /\ Fails(bad # {})
          /\ \/ /\ broken' = broken \cup bad
                               \cup (IF opt.backend_ssl /\ ~CanStart THEN {"repl"} ELSE {})
                /\ UNCHANGED ssl_user
             \/ broken' = {} /\ ssl_user' = FALSE
    /\ running' \in {running, 0}
    /\ ssl_past' = (ssl_past \/ opt.backend_ssl)
    /\ UNCHANGED <<test, opt, fixed, files, waits, reverted, checked>>

Over == pc \in {"ended", "skipped", "no_backend"}

NextTest ==
    /\ Over /\ test < MaxTests
    /\ pc' = "versions" /\ test' = test + 1 /\ opt' \in Options
    /\ waits' = 0 /\ reverted' = FALSE /\ checked' = FALSE /\ failed' = FALSE
    /\ UNCHANGED <<fixed, machines, files, running, ssl_past, faults>>

SuiteEnds == Over /\ test = MaxTests /\ UNCHANGED vars

Next ==
    \/ check_versions \/ restart_galera \/ revert_snapshot \/ fix_replication
    \/ init_maxscale \/ configure_ssl \/ Body \/ NextTest \/ SuiteEnds

Spec == Init /\ [][Next]_vars

-----------------------------------------------------------------------------
(* A test that starts after a check of its setups finds them in working    *)
(* order, whatever the tests before it have left, and with a user that     *)
(* needs SSL only if the test itself uses SSL: the empty statement of      *)
(* disable_ssl (mariadb_nodes.cpp:1205) is made good by the next repair.   *)
StartsClean ==
    pc = "running" /\ checked /\ ~failed /\ (opt.backend_ssl => CanStart) =>
        broken \cap Used = {} /\ ssl_user = opt.backend_ssl

(* MaxScale runs the configuration of the test that starts: with the one   *)
(* of an earlier test it goes on only when a command of this setup has     *)
(* failed unnoticed, or the test starts no MaxScale or uploads nothing     *)
(* (testconnections.cpp:654).                                              *)
RunsOwnConfig ==
    pc = "running" /\ opt.maxscale_init /\ opt.start /\ ~failed => running = test

(* A test is skipped, with exit status 0, when the servers it requires a   *)
(* version of are too old; or else because the versions are asked for      *)
(* before the repair (testconnections.cpp:179, 194): then something has    *)
(* broken a setup, a restart has stopped the servers for want of           *)
(* stop_db_command, or the user that an earlier test made for SSL is still *)
(* there.                                                                  *)
SkippedForCause ==
    pc = "skipped" =>
        \E s \in opt.required :
            \/ Asked(s) \in low
            \/ faults > 0 \/ ~CanStart
            \/ Asked(s) = "repl" /\ ssl_past
=============================================================================
