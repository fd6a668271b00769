---------------------------- MODULE MCCollector ----------------------------
(***************************************************************************)
(* Nodes whose audit user has all the grants of docs/safety.md, or nothing *)
(* but USAGE and PROCESS.                                                  *)
(***************************************************************************)
EXTENDS Collector

MCDenials == {{}, {"SysTables", "AppTables", "TablesNoPK", "TablesNonInnoDB", "DataBytes",
                   "Cascades", "Replicas", "ReplicaHosts"}}
MCForeignSets == {{}, {2}}
=============================================================================
