------------------------------ MODULE MCRates ------------------------------
(***************************************************************************)
(* Two clusters of one file, one of them named as a sub-path of the other, *)
(* with a node of the same name in each, and a second node in the first.   *)
(***************************************************************************)
EXTENDS Rates

MCCounters == {"wsrep_flow_control_paused_ns", "wsrep_local_cert_failures",
               "wsrep_replicated", "wsrep_replicated_bytes"}
MCClusters == {1, 2}
MCPathOf   == <<<<"eu">>, <<"eu", "x">>>>
MCNodesOf  == <<{<<"n1">>, <<"n2">>}, {<<"n1">>}>>
MCAllReported == {MCCounters \cup {"uptime", "gcomm_uuid"}}

\* One server works, and tells the size of its gcache.
MCWriter == <<1, <<"n1">>>>
MCSized  == {MCWriter}
\* A writeset counts in two counters at once.
MCWritesets == [s \in Servers |->
                   IF s = MCWriter THEN {{"wsrep_replicated", "wsrep_replicated_bytes"}} ELSE {}]

\* The host's clock is set back between two passes, or at any time.
MCBetween == {"down", "wait"}
MCAlways  == {"down", "collect", "wait"}

\* One cluster of one node, for the runs that follow a server for longer.
MCOneCluster == {1}
MCOnePathOf  == <<<<"eu">>>>
MCOneNodesOf == <<{<<"n1">>}>>
\* What it reports: everything, or no uptime and no boot identity.
MCReports    == {MCCounters \cup {"uptime", "gcomm_uuid"}, MCCounters}
\* A writeset in conflict, after a pause, counts in all four.
MCConflicts  == [s \in Servers |-> {MCCounters}]
=============================================================================
