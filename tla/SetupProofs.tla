---------------------------- MODULE SetupProofs ----------------------------
(* Proofs about Setup, for every set of options, every number of tests in  *)
(* the suite and every number of faults.                                   *)
EXTENDS Setup, TLAPS

(* The constructor before and after fix_replication. *)
Early == {"versions", "restart_galera", "snapshot", "fix"}
Late  == {"template", "copy", "restart", "wait", "ssl"}

Places ==
    /\ pc \in Early \cup Late \cup {"running", "ended", "skipped", "no_backend"}
    /\ opt \in Options
    /\ broken \subseteq Setups /\ low \subseteq Setups

Numbers ==
    /\ test \in 1..MaxTests /\ waits \in 0..MaxWaits /\ faults \in 0..MaxFaults
    /\ local \in 0..test /\ home \in 0..test /\ cnf \in 0..test /\ running \in 0..test

Flags ==
    /\ stop_set \in BOOLEAN /\ ssl_user \in BOOLEAN
    /\ reverted \in BOOLEAN /\ checked \in BOOLEAN /\ failed \in BOOLEAN /\ ssl_past \in BOOLEAN

SetupTypes == Places /\ Numbers /\ Flags

(* What the check has established holds until configure_ssl. *)
CleanSinceCheck ==
    /\ pc \in Early => ~checked
    /\ (pc \in Late /\ checked /\ ~failed) => (broken \cap Used = {} /\ ~ssl_user)

(* How far the configuration of this test has come. *)
ConfigOnItsWay ==
    ~failed =>
        /\ pc = "copy" => home = test
        /\ pc = "restart" => cnf = test
        /\ (pc = "wait" /\ opt.start) => running = test
        /\ (pc = "ssl" /\ opt.maxscale_init /\ opt.start) => running = test

(* Why the version of the servers cannot be read. *)
BrokenForCause ==
    /\ broken # {} => faults > 0 \/ ~CanStart
    /\ ssl_user => ssl_past \/ (pc = "running" /\ opt.backend_ssl)

SetupInv ==
    /\ SetupTypes
    /\ CleanSinceCheck /\ StartsClean
    /\ ConfigOnItsWay /\ RunsOwnConfig
    /\ BrokenForCause /\ SkippedForCause

(* What is known of the options of a test. *)
LEMMA OptionTypes ==
    ASSUME NEW o \in Options
    PROVE  /\ o.check_nodes \in BOOLEAN /\ o.maxscale_init \in BOOLEAN /\ o.start \in BOOLEAN
           /\ o.galera \in BOOLEAN /\ o.restart_galera \in BOOLEAN
           /\ o.use_snapshots \in BOOLEAN /\ o.backend_ssl \in BOOLEAN
           /\ o.required \subseteq Setups
BY SetupAssumption

LEMMA InitSetup == Init => SetupInv
<1>. SUFFICES ASSUME Init PROVE SetupInv
  OBVIOUS
<1>1. SetupTypes
  <2>1. Places
    BY DEF Init, Places, Early, Setups
  <2>2. Numbers
    BY SetupAssumption DEF Init, Numbers
  <2>3. Flags
    BY Zenon DEF Init, Flags
  <2>. QED BY <2>1, <2>2, <2>3 DEF SetupTypes
<1>2. CleanSinceCheck /\ StartsClean /\ ConfigOnItsWay /\ RunsOwnConfig
      /\ BrokenForCause /\ SkippedForCause
  BY DEF Init, CleanSinceCheck, StartsClean, ConfigOnItsWay, RunsOwnConfig, BrokenForCause,
         SkippedForCause, CanStart, Early, Late
<1>. QED BY <1>1, <1>2 DEF SetupInv

(* Faults are only ever added, up to the bound. *)
LEMMA FaultsGrow ==
    ASSUME NEW b \in BOOLEAN, Numbers, Fails(b)
    PROVE  /\ faults' \in 0..MaxFaults /\ faults' >= faults
           /\ b => faults' > 0
BY SetupAssumption DEF Numbers, Fails

(* No step of the suite breaks the invariant. *)
LEMMA NextSetup == SetupInv /\ [Next]_vars => SetupInv'
<1>. SUFFICES ASSUME SetupInv, [Next]_vars PROVE SetupInv'
  OBVIOUS
<1>. USE SetupAssumption DEF SetupInv, SetupTypes
<1>0. opt \in Options
  BY DEF Places
<1>1. CASE check_versions
  <2>1. Places'
    BY <1>0, <1>1, OptionTypes
       DEF check_versions, Places, Early, Late, Setups, machines, fixed, Used, CanStart
  <2>2. Numbers'
    BY <1>1 DEF check_versions, Numbers, files, fixed, Fails
  <2>3. Flags'
    BY <1>0, <1>1, OptionTypes, Zenon DEF check_versions, Flags, machines, fixed, Fails
  <2>4. (CleanSinceCheck /\ StartsClean)'
    BY <1>0, <1>1, OptionTypes
       DEF check_versions, Places, Flags, CleanSinceCheck, StartsClean, Early, Late, Setups,
           machines, files, fixed, Fails, Used, CanStart, Over
  <2>5. (ConfigOnItsWay /\ RunsOwnConfig)'
    BY <1>0, <1>1, OptionTypes
       DEF check_versions, Places, Flags, ConfigOnItsWay, RunsOwnConfig, Early, Late, machines,
           files, fixed, Fails, CanStart, Over
  <2>6. (BrokenForCause /\ SkippedForCause)'
    BY <1>0, <1>1, OptionTypes
       DEF check_versions, Places, Flags, Numbers, BrokenForCause, SkippedForCause, Early, Late,
           Setups, machines, files, fixed, Fails, Used, CanStart, VersionKnown,
           Asked, TooOld, Over
  <2>. QED BY <2>1, <2>2, <2>3, <2>4, <2>5, <2>6
<1>2. CASE restart_galera
  <2>1. Places'
    BY <1>0, <1>2, OptionTypes
       DEF restart_galera, Places, Early, Late, Setups, machines, fixed, Used, CanStart
  <2>2. Numbers'
    BY <1>2 DEF restart_galera, Numbers, files, fixed, Fails
  <2>3. Flags'
    BY <1>0, <1>2, OptionTypes, Zenon DEF restart_galera, Flags, machines, fixed, Fails
  <2>4. (CleanSinceCheck /\ StartsClean)'
    BY <1>0, <1>2, OptionTypes
       DEF restart_galera, Places, Flags, CleanSinceCheck, StartsClean, Early, Late, Setups,
           machines, files, fixed, Fails, Used, CanStart, Over
  <2>5. (ConfigOnItsWay /\ RunsOwnConfig)'
    BY <1>0, <1>2, OptionTypes
       DEF restart_galera, Places, Flags, ConfigOnItsWay, RunsOwnConfig, Early, Late, machines,
           files, fixed, Fails, CanStart, Over
  <2>6. (BrokenForCause /\ SkippedForCause)'
    BY <1>0, <1>2, OptionTypes
       DEF restart_galera, Places, Flags, Numbers, BrokenForCause, SkippedForCause, Early, Late,
           Setups, machines, files, fixed, Fails, Used, CanStart, Asked, Over
  <2>. QED BY <2>1, <2>2, <2>3, <2>4, <2>5, <2>6
<1>3. CASE revert_snapshot
  <2>0. /\ faults' \in 0..MaxFaults /\ faults' >= faults
        /\ \/ UNCHANGED <<broken, ssl_user>>
           \/ broken' = {} /\ ssl_user' = FALSE
    <3>1. CASE opt.use_snapshots
      <4>1. PICK bad \in BOOLEAN :
                /\ Fails(bad) /\ broken' = (IF bad THEN broken ELSE {})
                /\ ssl_user' = (IF bad THEN ssl_user ELSE FALSE)
        BY <1>3, <3>1, Zenon DEF revert_snapshot
      <4>. QED BY <4>1, FaultsGrow
    <3>2. CASE ~opt.use_snapshots
      BY <1>3, <3>2 DEF revert_snapshot, Numbers
    <3>. QED BY <3>1, <3>2
  <2>1. Places'
    BY <1>0, <1>3, OptionTypes
       DEF revert_snapshot, Places, Early, Late, Setups, machines, fixed, Used, CanStart
  <2>2. Numbers'
    BY <1>3, <2>0 DEF revert_snapshot, Numbers, files, fixed
  <2>3. Flags'
    BY <1>0, <1>3, OptionTypes, Zenon DEF revert_snapshot, Flags, machines, fixed, Fails
  <2>4. (CleanSinceCheck /\ StartsClean)'
    BY <1>0, <1>3, OptionTypes
       DEF revert_snapshot, Places, Flags, CleanSinceCheck, StartsClean, Early, Late, Setups,
           machines, files, fixed, Fails, Used, CanStart, Over
  <2>5. (ConfigOnItsWay /\ RunsOwnConfig)'
    BY <1>0, <1>3, OptionTypes
       DEF revert_snapshot, Places, Flags, ConfigOnItsWay, RunsOwnConfig, Early, Late, machines,
           files, fixed, Fails, CanStart, Over
  <2>6. (BrokenForCause /\ SkippedForCause)'
    <3>1. pc = "snapshot" /\ pc' = "fix" /\ UNCHANGED <<low, stop_set, opt, ssl_past>>
      BY <1>3 DEF revert_snapshot, fixed
    <3>. QED BY <2>0, <3>1 DEF Numbers, BrokenForCause, SkippedForCause, CanStart
  <2>. QED BY <2>1, <2>2, <2>3, <2>4, <2>5, <2>6
<1>4. CASE fix_replication
  <2>1. Places'
    BY <1>0, <1>4, OptionTypes
       DEF fix_replication, Places, Early, Late, Setups, machines, fixed, Used, CanStart
  <2>2. Numbers'
    BY <1>4 DEF fix_replication, Numbers, files, fixed, Fails
  <2>3. Flags'
    BY <1>0, <1>4, OptionTypes, Zenon DEF fix_replication, Flags, machines, fixed, Fails
  <2>4. (CleanSinceCheck /\ StartsClean)'
    BY <1>0, <1>4, OptionTypes
       DEF fix_replication, Places, Flags, CleanSinceCheck, StartsClean, Early, Late, Setups,
           machines, files, fixed, Fails, Used, CanStart, Over
  <2>5. (ConfigOnItsWay /\ RunsOwnConfig)'
    BY <1>0, <1>4, OptionTypes
       DEF fix_replication, Places, Flags, ConfigOnItsWay, RunsOwnConfig, Early, Late, machines,
           files, fixed, Fails, CanStart, Over
  <2>6. (BrokenForCause /\ SkippedForCause)'
    BY <1>0, <1>4, OptionTypes
       DEF fix_replication, Places, Flags, Numbers, BrokenForCause, SkippedForCause, Early,
           Late, Setups, machines, files, fixed, Fails, Used, CanStart, Asked, Over
  <2>. QED BY <2>1, <2>2, <2>3, <2>4, <2>5, <2>6
<1>5. CASE process_template
  <2>1. Places'
    BY <1>0, <1>5, OptionTypes
       DEF process_template, Places, Early, Late, Setups, machines, fixed, Used, CanStart
  <2>2. Numbers'
    BY <1>5 DEF process_template, Numbers, files, fixed, Fails
  <2>3. Flags'
    BY <1>0, <1>5, OptionTypes, Zenon DEF process_template, Flags, machines, fixed, Fails
  <2>4. (CleanSinceCheck /\ StartsClean)'
    BY <1>0, <1>5, OptionTypes
       DEF process_template, Places, Flags, CleanSinceCheck, StartsClean, Early, Late, Setups,
           machines, files, fixed, Fails, Used, CanStart, Over
  <2>5. (ConfigOnItsWay /\ RunsOwnConfig)'
    BY <1>0, <1>5, OptionTypes
       DEF process_template, Places, Flags, ConfigOnItsWay, RunsOwnConfig, Early, Late,
           machines, files, fixed, Fails, CanStart, Over
  <2>6. (BrokenForCause /\ SkippedForCause)'
    BY <1>0, <1>5, OptionTypes
       DEF process_template, Places, Flags, Numbers, BrokenForCause, SkippedForCause, Early,
           Late, Setups, machines, files, fixed, Fails, Used, CanStart, Asked, Over
  <2>. QED BY <2>1, <2>2, <2>3, <2>4, <2>5, <2>6
<1>6. CASE CopyToEtc
  <2>1. Places'
    BY <1>0, <1>6, OptionTypes
       DEF CopyToEtc, Places, Early, Late, Setups, machines, fixed, Used, CanStart
  <2>2. Numbers'
    BY <1>6 DEF CopyToEtc, Numbers, files, fixed, Fails
  <2>3. Flags'
    BY <1>0, <1>6, OptionTypes, Zenon DEF CopyToEtc, Flags, machines, fixed, Fails
  <2>4. (CleanSinceCheck /\ StartsClean)'
    BY <1>0, <1>6, OptionTypes
       DEF CopyToEtc, Places, Flags, CleanSinceCheck, StartsClean, Early, Late, Setups,
           machines, files, fixed, Fails, Used, CanStart, Over
  <2>5. (ConfigOnItsWay /\ RunsOwnConfig)'
    BY <1>0, <1>6, OptionTypes
       DEF CopyToEtc, Places, Flags, ConfigOnItsWay, RunsOwnConfig, Early, Late, machines,
           files, fixed, Fails, CanStart, Over
  <2>6. (BrokenForCause /\ SkippedForCause)'
    BY <1>0, <1>6, OptionTypes
       DEF CopyToEtc, Places, Flags, Numbers, BrokenForCause, SkippedForCause, Early, Late,
           Setups, machines, files, fixed, Fails, Used, CanStart, Asked, Over
  <2>. QED BY <2>1, <2>2, <2>3, <2>4, <2>5, <2>6
<1>7. CASE RestartMaxScale
  <2>1. Places'
    BY <1>0, <1>7, OptionTypes
       DEF RestartMaxScale, Places, Early, Late, Setups, machines, fixed, Used, CanStart
  <2>2. Numbers'
    BY <1>7 DEF RestartMaxScale, Numbers, files, fixed, Fails
  <2>3. Flags'
    BY <1>0, <1>7, OptionTypes, Zenon DEF RestartMaxScale, Flags, machines, fixed, Fails
  <2>4. (CleanSinceCheck /\ StartsClean)'
    BY <1>0, <1>7, OptionTypes
       DEF RestartMaxScale, Places, Flags, CleanSinceCheck, StartsClean, Early, Late, Setups,
           machines, files, fixed, Fails, Used, CanStart, Over
  <2>5. (ConfigOnItsWay /\ RunsOwnConfig)'
    BY <1>0, <1>7, OptionTypes
       DEF RestartMaxScale, Places, Flags, ConfigOnItsWay, RunsOwnConfig, Early, Late, machines,
           files, fixed, Fails, CanStart, Over
  <2>6. (BrokenForCause /\ SkippedForCause)'
    BY <1>0, <1>7, OptionTypes
       DEF RestartMaxScale, Places, Flags, Numbers, BrokenForCause, SkippedForCause, Early,
           Late, Setups, machines, files, fixed, Fails, Used, CanStart, Asked, Over
  <2>. QED BY <2>1, <2>2, <2>3, <2>4, <2>5, <2>6
<1>8. CASE WaitForMaxScale
  <2>1. Places'
    BY <1>0, <1>8, OptionTypes
       DEF WaitForMaxScale, Places, Early, Late, Setups, machines, fixed, Used, CanStart
  <2>2. Numbers'
    BY <1>8 DEF WaitForMaxScale, Numbers, files, fixed, Fails
  <2>3. Flags'
    BY <1>0, <1>8, OptionTypes, Zenon DEF WaitForMaxScale, Flags, machines, fixed, Fails
  <2>4. (CleanSinceCheck /\ StartsClean)'
    BY <1>0, <1>8, OptionTypes
       DEF WaitForMaxScale, Places, Flags, CleanSinceCheck, StartsClean, Early, Late, Setups,
           machines, files, fixed, Fails, Used, CanStart, Over
  <2>5. (ConfigOnItsWay /\ RunsOwnConfig)'
    BY <1>0, <1>8, OptionTypes
       DEF WaitForMaxScale, Places, Flags, ConfigOnItsWay, RunsOwnConfig, Early, Late, machines,
           files, fixed, Fails, CanStart, Over
  <2>6. (BrokenForCause /\ SkippedForCause)'
    BY <1>0, <1>8, OptionTypes
       DEF WaitForMaxScale, Places, Flags, Numbers, BrokenForCause, SkippedForCause, Early,
           Late, Setups, machines, files, fixed, Fails, Used, CanStart, Asked, Over
  <2>. QED BY <2>1, <2>2, <2>3, <2>4, <2>5, <2>6
<1>9. CASE configure_ssl
  <2>1. Places'
    BY <1>0, <1>9, OptionTypes
       DEF configure_ssl, Places, Early, Late, Setups, machines, fixed, Used, CanStart
  <2>2. Numbers'
    <3>1. faults' \in 0..MaxFaults
      BY <1>9, FaultsGrow DEF configure_ssl, Numbers
    <3>. QED BY <1>9, <3>1 DEF configure_ssl, Numbers, files, fixed
  <2>3. Flags'
    BY <1>0, <1>9, OptionTypes, Zenon DEF configure_ssl, Flags, machines, fixed, Fails
  <2>4. (CleanSinceCheck /\ StartsClean)'
    BY <1>0, <1>9, OptionTypes
       DEF configure_ssl, Places, Flags, CleanSinceCheck, StartsClean, Early, Late, Setups,
           machines, files, fixed, Fails, Used, CanStart, Over
  <2>5. (ConfigOnItsWay /\ RunsOwnConfig)'
    BY <1>0, <1>9, OptionTypes
       DEF configure_ssl, Places, Flags, ConfigOnItsWay, RunsOwnConfig, Early, Late, machines,
           files, fixed, Fails, CanStart, Over
  <2>6. (BrokenForCause /\ SkippedForCause)'
    <3>1. pc = "ssl" /\ pc' = "running" /\ UNCHANGED <<opt, stop_set, ssl_past>>
      BY <1>9 DEF configure_ssl, fixed
    <3>2. CASE opt.backend_ssl
      <4>1. PICK bad \in SUBSET Used :
                /\ Fails(bad # {})
                /\ CanStart => broken' \subseteq broken \cup bad
        BY <1>9, <3>2 DEF configure_ssl
      <4>2. faults' \in 0..MaxFaults /\ faults' >= faults /\ (bad # {} => faults' > 0)
        BY <4>1, FaultsGrow
      <4>3. CanStart' = CanStart /\ pc' # "skipped"
        BY <3>1 DEF CanStart
      <4>4. (broken' # {} => faults' > 0 \/ ~CanStart')
        BY <4>1, <4>2, <4>3 DEF Numbers, BrokenForCause
      <4>. QED BY <3>1, <3>2, <4>3, <4>4 DEF BrokenForCause, SkippedForCause
    <3>3. CASE ~opt.backend_ssl
      BY <1>9, <3>1, <3>3 DEF configure_ssl, machines, BrokenForCause, SkippedForCause, CanStart
    <3>. QED BY <3>2, <3>3
  <2>. QED BY <2>1, <2>2, <2>3, <2>4, <2>5, <2>6
<1>10. CASE Body
  <2>1. Places'
    BY <1>0, <1>10, OptionTypes
       DEF Body, Places, Early, Late, Setups, machines, fixed, Used, CanStart
  <2>2. Numbers'
    BY <1>10 DEF Body, Numbers, files, fixed, Fails
  <2>3. Flags'
    BY <1>0, <1>10, OptionTypes, Zenon DEF Body, Flags, machines, fixed, Fails
  <2>4. (CleanSinceCheck /\ StartsClean)'
    BY <1>0, <1>10, OptionTypes
       DEF Body, Places, Flags, CleanSinceCheck, StartsClean, Early, Late, Setups, machines,
           files, fixed, Fails, Used, CanStart, Over
  <2>5. (ConfigOnItsWay /\ RunsOwnConfig)'
    BY <1>0, <1>10, OptionTypes
       DEF Body, Places, Flags, ConfigOnItsWay, RunsOwnConfig, Early, Late, machines, files,
           fixed, Fails, CanStart, Over
  <2>6. (BrokenForCause /\ SkippedForCause)'
    BY <1>0, <1>10, OptionTypes
       DEF Body, Places, Flags, Numbers, BrokenForCause, SkippedForCause, Early, Late, Setups,
           machines, files, fixed, Fails, Used, CanStart, Asked, Over
  <2>. QED BY <2>1, <2>2, <2>3, <2>4, <2>5, <2>6
<1>11. CASE NextTest
  <2>1. Places'
    BY <1>0, <1>11, OptionTypes
       DEF NextTest, Places, Early, Late, Setups, machines, fixed, Used, CanStart
  <2>2. Numbers'
    BY <1>11 DEF NextTest, Numbers, files, fixed, Fails
  <2>3. Flags'
    BY <1>0, <1>11, OptionTypes, Zenon DEF NextTest, Flags, machines, fixed, Fails
  <2>4. (CleanSinceCheck /\ StartsClean)'
    BY <1>0, <1>11, OptionTypes
       DEF NextTest, Places, Flags, CleanSinceCheck, StartsClean, Early, Late, Setups, machines,
           files, fixed, Fails, Used, CanStart, Over
  <2>5. (ConfigOnItsWay /\ RunsOwnConfig)'
    BY <1>0, <1>11, OptionTypes
       DEF NextTest, Places, Flags, ConfigOnItsWay, RunsOwnConfig, Early, Late, machines, files,
           fixed, Fails, CanStart, Over
  <2>6. (BrokenForCause /\ SkippedForCause)'
    BY <1>0, <1>11, OptionTypes
       DEF NextTest, Places, Flags, Numbers, BrokenForCause, SkippedForCause, Early, Late,
           Setups, machines, files, fixed, Fails, Used, CanStart, Asked, Over
  <2>. QED BY <2>1, <2>2, <2>3, <2>4, <2>5, <2>6
<1>12. CASE SuiteEnds \/ UNCHANGED vars
  BY <1>12
     DEF SuiteEnds, vars, machines, files, fixed, Places, Numbers, Flags, CleanSinceCheck,
         StartsClean, ConfigOnItsWay, RunsOwnConfig, BrokenForCause, SkippedForCause, Used,
         CanStart, Asked
<1>. QED BY <1>1, <1>2, <1>3, <1>4, <1>5, <1>6, <1>7, <1>8, <1>9, <1>10, <1>11, <1>12
   DEF Next, init_maxscale

LEMMA SetupInvariant == Spec => []SetupInv
BY InitSetup, NextSetup, PTL DEF Spec

-----------------------------------------------------------------------------
(* A test whose setups were checked, with no command of its own setup      *)
(* having failed, starts on working setups and with the right user,        *)
(* whatever the tests before it have left behind (fix_replication after    *)
(* an ineffective disable_ssl).                                            *)
THEOREM CheckedTestStartsClean == Spec => []StartsClean
BY SetupInvariant, PTL DEF SetupInv

(* MaxScale has loaded the configuration of the test that starts, unless a *)
(* command of this setup has failed: process_template, the copy to /etc    *)
(* and the restart pass it on without the one of an earlier test coming    *)
(* between.                                                                *)
THEOREM OwnConfigIsLoaded == Spec => []RunsOwnConfig
BY SetupInvariant, PTL DEF SetupInv

(* A test is skipped only because servers it requires a version of are     *)
(* old, because something went wrong before it in the suite, because the   *)
(* servers cannot be started, or because of the SSL user of an earlier     *)
(* test (check_versions before fix_replication).                           *)
THEOREM SkippedOnlyForCause == Spec => []SkippedForCause
BY SetupInvariant, PTL DEF SetupInv
=============================================================================
