------------------------------ MODULE ProxySQL ------------------------------
(***************************************************************************)
(* The proxy against the cluster: proxysql.Collect and proxysql.Audit.     *)
(*                                                                         *)
(* The nodes are read first, then the admin interface of the proxy, in     *)
(* three queries.  Meanwhile nodes lose and regain their sync, the Galera  *)
(* monitor of the proxy moves servers between hostgroups, connection       *)
(* errors and operators change the status of servers, and somebody may     *)
(* stop the monitor.  All of that is external to the program.              *)
(***************************************************************************)
EXTENDS Integers, FiniteSets, Snapshot

CONSTANTS
    Nodes,       \* the nodes of the cluster
    Writer, Reader, Offline, \* the hostgroups of the proxy's one Galera set
    Placements,  \* the sets of hostgroups a node may have been put in
    Breaks,      \* the list of servers may break off
    MaxChanges   \* bound: what happens to nodes, servers and monitor

Serving == {Writer, Reader}
Hostgroups == Serving \cup {Offline}

ASSUME HostgroupsAssumption == Writer # Offline /\ Reader # Offline /\ Writer # Reader
ASSUME PlacementsAssumption == Placements \subseteq SUBSET Hostgroups
ASSUME BoundAssumption == Breaks \in BOOLEAN /\ MaxChanges \in Nat

VARIABLES
    \* The world.
    synced,   \* per node: its local state is Synced
    rows,     \* runtime_mysql_servers
    monitor,  \* the proxy has a Galera hostgroup set, it is active, the monitor is enabled
    changes,  \* how much has happened
    \* The pass.
    pc,       \* "idle", "nodes", "servers", "hostgroups", "monitor", "audit", "end"
    snaps,    \* per node, what was read of it
    proxy,    \* the snapshot of the admin interface
    findings, \* the report
    \* History, read by the properties only.
    calm,     \* nothing has happened since the pass began
    whole     \* the list of servers was read to its end

world == <<synced, rows, monitor, changes>>
vars == <<synced, rows, monitor, changes, pc, snaps, proxy, findings, calm, whole>>

-----------------------------------------------------------------------------
Unasked == [answer |-> "none"]
Unread == [err |-> FALSE, servers |-> {}, hostgroups |-> {}, enabled |-> "unread"]

\* Whoever set the proxy up may have written any of a node's names.
Spellings(n) == {Configured(n), Own(n)}
Names == UNION {Spellings(n) : n \in Nodes}

\* Every node is listed under one of its names, in some of the hostgroups.
Listing(place, name) ==
    UNION {{[hostgroup |-> g, host |-> name[n], status |-> "ONLINE"] : g \in place[n]} : n \in Nodes}

Init ==
    /\ synced = [n \in Nodes |-> TRUE]
    /\ \E place \in [Nodes -> Placements] :
          \E name \in [Nodes -> Names] :
             /\ \A n \in Nodes : name[n] \in Spellings(n)
             /\ rows = Listing(place, name)
    /\ monitor \in [table : BOOLEAN, active : BOOLEAN, enabled : BOOLEAN]
    /\ changes = 0
    /\ pc = "idle"
    /\ snaps = [n \in Nodes |-> Unasked]
    /\ proxy = Unread
    /\ findings = {}
    /\ calm = TRUE
    /\ whole = FALSE

-----------------------------------------------------------------------------
(***************************************************************************)
(* The world.                                                              *)
(***************************************************************************)
RowsOf(n) == {r \in rows : r.host \in Spellings(n)}

\* The world is of no interest once the report is made.
Happens ==
    /\ pc # "end"
    /\ calm' = FALSE
    /\ UNCHANGED <<pc, snaps, proxy, findings, whole>>

Change ==
    /\ changes < MaxChanges
    /\ changes' = changes + 1
    /\ Happens

\* A node loses its sync, or regains it.
Turn(n) ==
    /\ Change
    /\ synced' = [synced EXCEPT ![n] = ~@]
    /\ UNCHANGED <<rows, monitor>>

\* Errors or an operator change the status of a server.
Shun(r) ==
    /\ Change
    /\ \E st \in {"ONLINE", "SHUNNED"} \ {r.status} :
          rows' = (rows \ {r}) \cup {[r EXCEPT !.status = st]}
    /\ UNCHANGED <<synced, monitor>>

\* Somebody stops or starts the monitor, or its hostgroup set.
Toggle ==
    /\ Change
    /\ \/ monitor' = [monitor EXCEPT !.enabled = ~@]
       \/ monitor' = [monitor EXCEPT !.active = ~@]
    /\ UNCHANGED <<synced, rows>>

Driving == monitor.table /\ monitor.active /\ monitor.enabled

(***************************************************************************)
(* The monitor parks a node that is not synced in the offline hostgroup,   *)
(* and takes one that is out of it again.                                  *)
(***************************************************************************)
Follow(n) ==
    /\ Driving
    /\ \E r \in RowsOf(n) :
          \/ /\ ~synced[n] /\ r.hostgroup \in Serving
             /\ rows' = (rows \ RowsOf(n)) \cup {[r EXCEPT !.hostgroup = Offline]}
          \/ /\ synced[n] /\ r.hostgroup = Offline
             /\ \E g \in Serving :
                   rows' = (rows \ {r}) \cup {[r EXCEPT !.hostgroup = g, !.status = "ONLINE"]}
    /\ Happens
    /\ UNCHANGED <<synced, monitor, changes>>

-----------------------------------------------------------------------------
(***************************************************************************)
(* The pass: the nodes, then the proxy.                                    *)
(***************************************************************************)
Begin ==
    /\ pc = "idle"
    /\ pc' = "nodes"
    /\ calm' = TRUE
    /\ UNCHANGED <<world, snaps, proxy, findings, whole>>

ReadNode(n) ==
    /\ pc = "nodes"
    /\ snaps[n] = Unasked
    /\ snaps' = [snaps EXCEPT ![n] = [answer |-> "status", synced |-> synced[n]]]
    /\ UNCHANGED <<world, pc, proxy, findings, calm, whole>>

FailNode(n) ==
    /\ pc = "nodes"
    /\ snaps[n] = Unasked
    /\ snaps' = [snaps EXCEPT ![n] = [answer |-> "error"]]
    /\ UNCHANGED <<world, pc, proxy, findings, calm, whole>>

Connect ==
    /\ pc = "nodes"
    /\ \A n \in Nodes : snaps[n] # Unasked
    /\ pc' = "servers"
    /\ UNCHANGED <<world, snaps, proxy, findings, calm, whole>>

\* No connection, or the list of servers cannot be had.
FailProxy ==
    /\ pc = "servers"
    /\ proxy' = [proxy EXCEPT !.err = TRUE]
    /\ pc' = "audit"
    /\ UNCHANGED <<world, snaps, findings, calm, whole>>

(***************************************************************************)
(* The list of servers.  Where it breaks off (the connection or the        *)
(* deadline does not outlive it), what came until then is the list:        *)
(* rows.Err is not looked at.                                              *)
(***************************************************************************)
ReadServers ==
    /\ pc = "servers"
    /\ \E S \in IF Breaks THEN SUBSET rows ELSE {rows} :
          /\ proxy' = [proxy EXCEPT !.servers = S]
          /\ whole' = (S = rows)
    /\ pc' = "hostgroups"
    /\ UNCHANGED <<world, snaps, findings, calm>>

\* A table that is not there and a query that fails are one: no mapping.
ReadHostgroups ==
    /\ pc = "hostgroups"
    /\ \/ /\ monitor.table
          /\ proxy' = [proxy EXCEPT !.hostgroups =
                {[writer |-> Writer, reader |-> Reader, offline |-> Offline,
                  active |-> monitor.active]}]
       \/ UNCHANGED proxy
    /\ pc' = "monitor"
    /\ UNCHANGED <<world, snaps, findings, calm, whole>>

ReadMonitor ==
    /\ pc = "monitor"
    /\ \/ proxy' = [proxy EXCEPT !.enabled = IF monitor.enabled THEN "on" ELSE "off"]
       \/ UNCHANGED proxy
    /\ pc' = "audit"
    /\ UNCHANGED <<world, snaps, findings, calm, whole>>

-----------------------------------------------------------------------------
\* Mutant of MonitorManaged: no hostgroup is the monitor's own.
MonitorManagedNone(g) == FALSE

\* MonitorManaged: a hostgroup the Galera monitor moves nodes into.
MonitorManaged(g) == \E h \in proxy.hostgroups : h.offline = g

Served == {r \in proxy.servers : ~MonitorManaged(r.hostgroup)}

\* The nodes that were read.
Live == {n \in Nodes : snaps[n].answer = "status"}

\* Mutant of Match: the first server that matches is enough.
MatchFirst(n) ==
    LET all == {r \in Served : r.host \in Addresses(n)}
    IN  IF all = {} THEN {} ELSE {CHOOSE r \in all : r.hostgroup = Writer \/ \A q \in all : q.hostgroup # Writer}

\* The servers of the proxy that are the node.
Match(n) == {r \in Served : r.host \in Addresses(n)}

Missing == {Finding("proxysql/missing", n, "BAD") : n \in {m \in Live : Match(m) = {}}}

\* Mutant of Grade: agreement is reported, with no status.
GradeAlways(online, ok) == {IF online = ok THEN "" ELSE IF online THEN "BAD" ELSE "WARN"}

(***************************************************************************)
(* Nothing is said of a proxy and a node that agree.  A node that does not *)
(* say its state is not synced.                                            *)
(***************************************************************************)
Grade(online, ok) ==
    CASE online /\ ~ok -> {"BAD"}
      [] ~online /\ ok -> {"WARN"}
      [] OTHER -> {}

\* What the row r says of the node n.
Disagreement(n, r) ==
    {[check |-> "proxysql/disagreement", target |-> n, status |-> st, hostgroup |-> r.hostgroup] :
        st \in Grade(r.status = "ONLINE", snaps[n].synced)}

\* A hostgroup with servers and none of them ONLINE.
Outages ==
    {Finding("proxysql/hostgroup", g, "BAD") :
        g \in {r.hostgroup : r \in Served} \ {r.hostgroup : r \in {q \in Served : q.status = "ONLINE"}}}

\* Mutant of MonitorRunning: an inactive set is not looked at.
MonitorRunningEnabled ==
    IF proxy.enabled = "off" THEN {Finding("proxysql/monitor", "proxysql", "BAD")} ELSE {}

\* monitorRunning: what was not read is not false.
MonitorRunning ==
    (IF proxy.enabled = "off" THEN {Finding("proxysql/monitor", "proxysql", "BAD")} ELSE {})
    \cup {Finding("proxysql/monitor", h.writer, "BAD") : h \in {k \in proxy.hostgroups : ~k.active}}

Mapping == {Finding("proxysql/mapping", h.writer, "OK") : h \in proxy.hostgroups}

\* What Audit says of the proxy: of one that was not read, that and nothing else.
Report ==
    IF proxy.err THEN {Finding("proxysql/read", "proxysql", "ERROR")}
    ELSE MonitorRunning \cup Missing
           \cup (UNION {UNION {Disagreement(n, r) : r \in Match(n)} : n \in Live})
           \cup Outages \cup Mapping

Audit ==
    /\ pc = "audit"
    /\ findings' = Report
    /\ pc' = "end"
    /\ UNCHANGED <<world, snaps, proxy, calm, whole>>

World ==
    \/ \E n \in Nodes : Turn(n) \/ Follow(n)
    \/ \E r \in rows : Shun(r)
    \/ Toggle

Auditor ==
    \/ Begin
    \/ \E n \in Nodes : ReadNode(n) \/ FailNode(n)
    \/ Connect
    \/ FailProxy
    \/ ReadServers
    \/ ReadHostgroups
    \/ ReadMonitor
    \/ Audit

Next == World \/ Auditor

Spec == Init /\ [][Next]_vars

-----------------------------------------------------------------------------
Row == [hostgroup : Hostgroups, host : Names, status : {"ONLINE", "SHUNNED"}]
Set == [writer : {Writer}, reader : {Reader}, offline : {Offline}, active : BOOLEAN]

(***************************************************************************)
(* Every finding has a verdict, a row that agrees with its node among them.*)
(***************************************************************************)
TypeOK ==
    /\ synced \in [Nodes -> BOOLEAN]
    /\ rows \subseteq Row
    /\ monitor \in [table : BOOLEAN, active : BOOLEAN, enabled : BOOLEAN]
    /\ changes \in 0..MaxChanges
    /\ pc \in {"idle", "nodes", "servers", "hostgroups", "monitor", "audit", "end"}
    /\ \A n \in Nodes : \/ snaps[n] \in {Unasked, [answer |-> "error"]}
                        \/ snaps[n] \in [answer : {"status"}, synced : BOOLEAN]
    /\ proxy.err \in BOOLEAN /\ proxy.servers \subseteq Row
    /\ proxy.hostgroups \subseteq Set /\ proxy.enabled \in {"unread", "on", "off"}
    /\ \A f \in findings : f.status \in Complaints \cup {"OK"}
    /\ calm \in BOOLEAN /\ whole \in BOOLEAN

\* The report stands, and nothing happened while it was made.
Stands == pc = "end" /\ calm /\ ~proxy.err /\ whole

\* Where queries for the node go.
ServingRows(n) == {r \in RowsOf(n) : r.hostgroup \in Serving}
Routed(n) == {r \in ServingRows(n) : r.status = "ONLINE"}

Disagrees(n, st) ==
    \E f \in findings : f.check = "proxysql/disagreement" /\ f.target = n /\ f.status = st

(***************************************************************************)
(* Traffic to a node that is not synced is found, in whichever hostgroup   *)
(* and under whichever of its names the proxy has the node, and whether or *)
(* not the proxy told its mapping: the state the package is there for      *)
(* ("the proxy is happily sending writes to a node that is still joining").*)
(***************************************************************************)
ServedIsSynced ==
    Stands => \A n \in Live : (Routed(n) # {} /\ ~synced[n]) => Disagrees(n, "BAD")

(***************************************************************************)
(* A node that is said to be missing is: none of its rows is in a serving  *)
(* hostgroup.  It takes a list that was read to its end.                   *)
(***************************************************************************)
MissingIsReal ==
    Stands => \A n \in Nodes :
        Finding("proxysql/missing", n, "BAD") \in findings => ServingRows(n) = {}

\* The proxy has followed the nodes: all that are synced are routed to, no other is.
Settled ==
    \A n \in Nodes :
        IF synced[n] THEN Routed(n) # {} /\ Routed(n) = ServingRows(n) ELSE ServingRows(n) = {}

(***************************************************************************)
(* A proxy that has followed its nodes is left alone, what the monitor has *)
(* parked in the offline hostgroup included: the only complaint is that a  *)
(* parked node serves nothing.                                             *)
(***************************************************************************)
FollowedIsQuiet ==
    (Stands /\ Driving /\ Settled /\ proxy.hostgroups # {}) =>
        \A f \in findings :
            f.status \in Complaints =>
                \E n \in Nodes : ~synced[n] /\ f = Finding("proxysql/missing", n, "BAD")

(***************************************************************************)
(* A report without a complaint is about a proxy that follows: what it     *)
(* says is not a photograph (docs/checks.md on proxysql/monitor), every    *)
(* node that was read is listed where traffic comes, and is taken for what *)
(* it is.                                                                  *)
(***************************************************************************)
CleanMeansFollowed ==
    (/\ Stands
     /\ proxy.hostgroups # {} /\ proxy.enabled # "unread"
     /\ \A f \in findings : f.status \notin Complaints) =>
        /\ Driving
        /\ \A n \in Live : /\ ServingRows(n) # {}
                           /\ Routed(n) = IF synced[n] THEN ServingRows(n) ELSE {}
=============================================================================
