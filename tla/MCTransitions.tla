--------------------------- MODULE MCTransitions ---------------------------
(***************************************************************************)
(* Two clusters of one configuration, with the same checks and targets and *)
(* a proxy in front of each.                                               *)
(***************************************************************************)
EXTENDS Transitions

MCClusters  == {1, 2}
MCPathOf    == <<<<"eu">>, <<"us">>>>
MCAuditKeys == {"state@n1", "coverage"}
MCProxyKeys == {"missing@n1"}

\* One finding under a key at most; a report is never without coverage.
MCVerdicts ==
    [k \in MCAuditKeys \cup MCProxyKeys |->
        CASE k = "coverage"   -> {<<"OK">>}
          [] k = "missing@n1" -> {<<>>, <<"WARN">>}
          [] k = "state@n1"   -> {<<>>, <<"OK">>, <<"WARN">>, <<"BAD">>}]
=============================================================================
