------------------------------- MODULE Suites -------------------------------
(* The scripts of all the tests that are modelled. *)
EXTENDS TLC

Binlog   == INSTANCE SuiteBinlog
Routers  == INSTANCE SuiteRouters
Monitors == INSTANCE SuiteMonitors
Configs  == INSTANCE SuiteConfig
Load     == INSTANCE SuiteLoad
Sql      == INSTANCE SuiteSql
Filters  == INSTANCE SuiteFilters
Admin    == INSTANCE SuiteAdmin
Sessions == INSTANCE SuiteSessions

AllScripts ==
    Binlog!BinlogScripts @@ Routers!RouterScripts @@ Monitors!MonitorScripts
    @@ Configs!ConfigScripts @@ Load!LoadScripts @@ Sql!SqlScripts
    @@ Filters!FilterScripts @@ Admin!AdminScripts @@ Sessions!SessionScripts
=============================================================================
