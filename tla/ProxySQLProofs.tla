--------------------------- MODULE ProxySQLProofs ---------------------------
(***************************************************************************)
(* What the report on a proxy says, for any number of nodes, any listing   *)
(* of them and any number of changes while they are read.                  *)
(***************************************************************************)
EXTENDS ProxySQL, TLAPS

USE HostgroupsAssumption, PlacementsAssumption, BoundAssumption

-----------------------------------------------------------------------------
(***************************************************************************)
(* The types, the domains included.                                        *)
(***************************************************************************)
Steps == {"idle", "nodes", "servers", "hostgroups", "monitor", "audit", "end"}
Monitors == [table : BOOLEAN, active : BOOLEAN, enabled : BOOLEAN]
Proxies == [err : BOOLEAN, servers : SUBSET Row, hostgroups : SUBSET Set,
            enabled : {"unread", "on", "off"}]
Snaps == {Unasked, [answer |-> "error"]} \cup [answer : {"status"}, synced : BOOLEAN]

Types ==
    /\ synced \in [Nodes -> BOOLEAN]
    /\ rows \subseteq Row
    /\ monitor \in Monitors
    /\ changes \in 0..MaxChanges
    /\ pc \in Steps
    /\ snaps \in [Nodes -> Snaps]
    /\ proxy \in Proxies
    /\ calm \in BOOLEAN /\ whole \in BOOLEAN

(***************************************************************************)
(* What has been read of a world in which nothing happened since is still  *)
(* so.  A world that is of no interest any more does not change, so that   *)
(* at the end this is said of the world the report is about.               *)
(***************************************************************************)
Nodewise == \A n \in Live : snaps[n].synced = synced[n]
Listwise == whole => proxy.servers = rows
Setwise == \A h \in proxy.hostgroups : monitor.table /\ h.active = monitor.active
Monitorwise == /\ proxy.enabled = "on" => monitor.enabled
               /\ proxy.enabled = "off" => ~monitor.enabled
Faithful == calm => Nodewise /\ Listwise /\ Setwise /\ Monitorwise

\* How far the pass is.
Unstarted ==
    /\ pc = "idle" => \A n \in Nodes : snaps[n] = Unasked
    /\ pc \in {"idle", "nodes", "servers"} => proxy = Unread /\ ~whole

\* The report is made of what was read.
Reported == IF pc = "end" THEN findings = Report ELSE findings = {}

IInv == Types /\ Unstarted /\ Faithful /\ Reported

-----------------------------------------------------------------------------
LEMMA InitTypes == Init => Types
<1> SUFFICES ASSUME Init PROVE Types
    OBVIOUS
<1>1. rows \subseteq Row
  <2>1. PICK place \in [Nodes -> Placements], name \in [Nodes -> Names] :
            (\A n \in Nodes : name[n] \in Spellings(n)) /\ rows = Listing(place, name)
      BY DEF Init
  <2>2. ASSUME NEW n \in Nodes, NEW g \in place[n]
        PROVE  [hostgroup |-> g, host |-> name[n], status |-> "ONLINE"] \in Row
    <3>1. place[n] \subseteq Hostgroups /\ name[n] \in Names
        BY <2>1
    <3>2. QED
        BY <3>1 DEF Row
  <2>3. QED
      BY <2>1, <2>2 DEF Listing
<1>2. synced \in [Nodes -> BOOLEAN] /\ monitor \in Monitors /\ pc \in Steps
    BY DEF Init, Monitors, Steps
<1>3. changes = 0 /\ calm = TRUE /\ whole = FALSE
    BY DEF Init
<1>4. snaps \in [Nodes -> Snaps]
    BY DEF Init, Snaps
<1>5. proxy \in Proxies
    BY DEF Init, Proxies, Unread
<1>6. QED
    BY <1>1, <1>2, <1>3, <1>4, <1>5, 0 \in 0..MaxChanges DEF Types

(***************************************************************************)
(* A change of the world leaves what was read, and is not calm.            *)
(***************************************************************************)
WorldTypes == /\ synced' \in [Nodes -> BOOLEAN] /\ rows' \subseteq Row
              /\ monitor' \in Monitors /\ changes' \in 0..MaxChanges

LEMMA WorldStep ==
    ASSUME Types, World
    PROVE  WorldTypes /\ Happens
<1>1. CASE \E n \in Nodes : Turn(n)
    BY <1>1 DEF Types, Turn, Change, Happens, WorldTypes
<1>2. CASE \E n \in Nodes : Follow(n)
  <2>1. PICK n \in Nodes : Follow(n)
      BY <1>2
  <2>2. PICK r \in RowsOf(n) :
            \/ rows' = (rows \ RowsOf(n)) \cup {[r EXCEPT !.hostgroup = Offline]}
            \/ \E g \in Serving :
                  rows' = (rows \ {r}) \cup {[r EXCEPT !.hostgroup = g, !.status = "ONLINE"]}
      BY <2>1 DEF Follow
  <2>3. r \in Row
      BY <2>2 DEF RowsOf, Types
  <2>4. [r EXCEPT !.hostgroup = Offline] \in Row
      BY <2>3 DEF Row, Hostgroups
  <2>5. \A g \in Serving : [r EXCEPT !.hostgroup = g, !.status = "ONLINE"] \in Row
      BY <2>3 DEF Row, Hostgroups
  <2>6. rows' \subseteq Row
      BY <2>2, <2>4, <2>5 DEF Types
  <2>7. QED
      BY <2>1, <2>6 DEF Types, Follow, Happens, WorldTypes
<1>3. CASE \E r \in rows : Shun(r)
  <2>1. PICK r \in rows : Shun(r)
      BY <1>3
  <2>2. PICK st \in {"ONLINE", "SHUNNED"} :
            rows' = (rows \ {r}) \cup {[r EXCEPT !.status = st]}
      BY <2>1 DEF Shun
  <2>3. [r EXCEPT !.status = st] \in Row
      BY <2>1, <2>2 DEF Row, Types
  <2>4. rows' \subseteq Row
      BY <2>2, <2>3 DEF Types
  <2>5. QED
      BY <2>1, <2>4 DEF Types, Shun, Change, Happens, WorldTypes
<1>4. CASE Toggle
  <2>1. monitor' \in Monitors
      BY <1>4 DEF Toggle, Types, Monitors
  <2>2. QED
      BY <1>4, <2>1 DEF Types, Toggle, Change, Happens, WorldTypes
<1>5. QED
    BY <1>1, <1>2, <1>3, <1>4 DEF World

LEMMA NextTypes ==
    ASSUME Types, [Next]_vars
    PROVE  Types'
<1>1. CASE World
    BY <1>1, WorldStep DEF Types, Happens, WorldTypes
<1>2. CASE Begin
    BY <1>2 DEF Types, Begin, world, Steps
<1>3. ASSUME NEW n \in Nodes, ReadNode(n) PROVE Types'
  <2>1. [answer |-> "status", synced |-> synced[n]] \in Snaps
      BY DEF Types, Snaps
  <2>2. snaps' \in [Nodes -> Snaps]
      BY <1>3, <2>1 DEF Types, ReadNode
  <2>3. QED
      BY <1>3, <2>2 DEF Types, ReadNode, world
<1>4. ASSUME NEW n \in Nodes, FailNode(n) PROVE Types'
  <2>1. snaps' \in [Nodes -> Snaps]
      BY <1>4 DEF Types, FailNode, Snaps
  <2>2. QED
      BY <1>4, <2>1 DEF Types, FailNode, world
<1>5. CASE Connect
    BY <1>5 DEF Types, Connect, world, Steps
<1>6. CASE FailProxy
  <2>1. proxy' \in Proxies
      BY <1>6 DEF Types, FailProxy, Proxies
  <2>2. QED
      BY <1>6, <2>1 DEF Types, FailProxy, world, Steps
<1>7. CASE ReadServers
  <2>1. PICK S \in SUBSET rows :
            proxy' = [proxy EXCEPT !.servers = S] /\ whole' = (S = rows)
      BY <1>7 DEF ReadServers
  <2>2. S \in SUBSET Row
      BY <2>1 DEF Types
  <2>3. proxy' \in Proxies
      BY <2>1, <2>2 DEF Types, Proxies
  <2>4. QED
      BY <1>7, <2>1, <2>3 DEF Types, ReadServers, world, Steps
<1>8. CASE ReadHostgroups
  <2>1. {[writer |-> Writer, reader |-> Reader, offline |-> Offline,
          active |-> monitor.active]} \in SUBSET Set
      BY DEF Types, Monitors, Set
  <2>2. proxy' \in Proxies
      BY <1>8, <2>1 DEF Types, ReadHostgroups, Proxies
  <2>3. QED
      BY <1>8, <2>2 DEF Types, ReadHostgroups, world, Steps
<1>9. CASE ReadMonitor
  <2>1. proxy' \in Proxies
      BY <1>9 DEF Types, ReadMonitor, Proxies
  <2>2. QED
      BY <1>9, <2>1 DEF Types, ReadMonitor, world, Steps
<1>10. CASE Audit
    BY <1>10 DEF Types, Audit, world, Steps
<1>11. CASE UNCHANGED vars
    BY <1>11 DEF Types, vars
<1>12. QED
    BY <1>1, <1>2, <1>3, <1>4, <1>5, <1>6, <1>7, <1>8, <1>9, <1>10, <1>11 DEF Next, Auditor

-----------------------------------------------------------------------------
LEMMA NextUnstarted ==
    ASSUME Types, Unstarted, [Next]_vars
    PROVE  Unstarted'
<1>1. CASE World
    BY <1>1, WorldStep DEF Unstarted, Happens
<1>2. CASE UNCHANGED vars
    BY <1>2 DEF Unstarted, vars
<1>3. CASE Auditor
    BY <1>3 DEF Unstarted, Auditor, Begin, ReadNode, FailNode, Connect, FailProxy,
                ReadServers, ReadHostgroups, ReadMonitor, Audit
<1>4. QED
    BY <1>1, <1>2, <1>3 DEF Next

LEMMA NextFaithful ==
    ASSUME Types, Unstarted, Faithful, [Next]_vars
    PROVE  Faithful'
<1> USE DEF Nodewise, Listwise, Setwise, Monitorwise, Live
<1>1. CASE World
    BY <1>1, WorldStep DEF Faithful, Happens
<1>2. CASE UNCHANGED vars
    BY <1>2 DEF Faithful, vars
<1>3. CASE Begin
    BY <1>3 DEF Faithful, Begin, world, Unstarted, Unasked, Unread
<1>4. ASSUME NEW n \in Nodes, ReadNode(n) \/ FailNode(n) PROVE Faithful'
  <2>1. ASSUME calm, NEW m \in Nodes, snaps'[m].answer = "status"
        PROVE  snaps'[m].synced = synced[m]
    <3>1. CASE m = n
      <4>1. ASSUME ReadNode(n) PROVE snaps'[n].synced = synced[n]
        <5>1. snaps'[n] = [answer |-> "status", synced |-> synced[n]]
            BY <4>1 DEF Types, ReadNode
        <5>2. QED
            BY <5>1
      <4>2. ASSUME FailNode(n) PROVE FALSE
        <5>1. snaps'[n] = [answer |-> "error"]
            BY <4>2 DEF Types, FailNode
        <5>2. QED
            BY <2>1, <3>1, <5>1
      <4>3. QED
          BY <1>4, <3>1, <4>1, <4>2
    <3>2. CASE m # n
        BY <1>4, <2>1, <3>2 DEF Types, ReadNode, FailNode, Faithful
    <3>3. QED
        BY <3>1, <3>2
  <2>2. calm' = calm /\ proxy' = proxy /\ whole' = whole /\ UNCHANGED world
      BY <1>4 DEF ReadNode, FailNode
  <2>3. QED
      BY <2>1, <2>2 DEF Faithful, world
<1>5. CASE Connect \/ Audit
    BY <1>5 DEF Faithful, Connect, Audit, world
<1>6. CASE FailProxy
    BY <1>6 DEF Faithful, FailProxy, world, Types, Proxies
<1>7. CASE ReadServers
    BY <1>7 DEF Faithful, ReadServers, world, Types, Proxies
<1>8. CASE ReadHostgroups
    BY <1>8 DEF Faithful, ReadHostgroups, world, Types, Proxies
<1>9. CASE ReadMonitor
    BY <1>9 DEF Faithful, ReadMonitor, world, Types, Proxies
<1>10. QED
    BY <1>1, <1>2, <1>3, <1>4, <1>5, <1>6, <1>7, <1>8, <1>9 DEF Next, Auditor

(***************************************************************************)
(* The report is a function of what was read, none of which changes.       *)
(***************************************************************************)
LEMMA ReportStays ==
    ASSUME proxy' = proxy, snaps' = snaps
    PROVE  Report' = Report
BY DEF Report, MonitorRunning, Missing, Match, Served, MonitorManaged, Live, Disagreement,
       Outages, Mapping

LEMMA NextReported ==
    ASSUME Types, Reported, [Next]_vars
    PROVE  Reported'
<1>1. CASE World
    BY <1>1, WorldStep DEF Reported, Happens
<1>2. CASE UNCHANGED vars
    BY <1>2, ReportStays DEF Reported, vars
<1>3. CASE Audit
    BY <1>3, ReportStays DEF Reported, Audit
<1>4. CASE Auditor /\ ~Audit
    BY <1>4 DEF Reported, Auditor, Begin, ReadNode, FailNode, Connect, FailProxy,
                ReadServers, ReadHostgroups, ReadMonitor
<1>5. QED
    BY <1>1, <1>2, <1>3, <1>4 DEF Next

(***************************************************************************)
(* The inductive invariant.                                                *)
(***************************************************************************)
LEMMA Invariant == Spec => []IInv
<1>1. Init => IInv
  <2> SUFFICES ASSUME Init PROVE IInv
      OBVIOUS
  <2>1. Unstarted
      BY DEF Init, Unstarted
  <2>2. Faithful
      BY DEF Init, Faithful, Nodewise, Listwise, Setwise, Monitorwise, Live, Unasked, Unread
  <2>3. Reported
      BY DEF Init, Reported
  <2>4. QED
      BY InitTypes, <2>1, <2>2, <2>3 DEF IInv
<1>2. IInv /\ [Next]_vars => IInv'
    BY NextTypes, NextUnstarted, NextFaithful, NextReported DEF IInv
<1>3. QED
    BY <1>1, <1>2, PTL DEF Spec

-----------------------------------------------------------------------------
(***************************************************************************)
(* What is in a report, and what it takes to be there.                     *)
(***************************************************************************)
LEMMA Graded ==
    ASSUME NEW online \in BOOLEAN, NEW ok \in BOOLEAN
    PROVE  /\ Grade(online, ok) \subseteq {"BAD", "WARN"}
           /\ online /\ ~ok => Grade(online, ok) = {"BAD"}
           /\ Grade(online, ok) = {} <=> online = ok
BY DEF Grade

LEMMA ReportIs ==
    ASSUME Types, ~proxy.err, NEW f
    PROVE  f \in Report <=>
              \/ f \in MonitorRunning
              \/ f \in Missing
              \/ \E n \in Live : \E r \in Match(n) : f \in Disagreement(n, r)
              \/ f \in Outages
              \/ f \in Mapping
BY DEF Report

LEMMA FindingIs ==
    ASSUME NEW c, NEW t, NEW s, NEW d, NEW u, NEW v
    PROVE  /\ Finding(c, t, s).check = c /\ Finding(c, t, s).target = t
           /\ Finding(c, t, s).status = s
           /\ Finding(c, t, s) = Finding(d, u, v) <=> c = d /\ t = u /\ s = v
<1>1. \A x, y, z : /\ Finding(x, y, z).check = x /\ Finding(x, y, z).target = y
                   /\ Finding(x, y, z).status = z
    BY DEF Finding
<1>2. QED
    BY <1>1

LEMMA DisagreementIs ==
    ASSUME NEW n, NEW r, NEW f \in Disagreement(n, r)
    PROVE  /\ f.check = "proxysql/disagreement" /\ f.target = n
           /\ f.status \in Grade(r.status = "ONLINE", snaps[n].synced)
BY DEF Disagreement

LEMMA LiveIs ==
    ASSUME Types, NEW n \in Live
    PROVE  n \in Nodes /\ snaps[n].synced \in BOOLEAN
BY DEF Types, Live, Snaps, Unasked

LEMMA StatusKnown ==
    ASSUME Types, NEW f \in Report
    PROVE  f.status \in Complaints \cup {"OK"}
<1>1. CASE proxy.err
    BY <1>1 DEF Report, Finding, Complaints
<1>2. CASE ~proxy.err
  <2>1. CASE f \in MonitorRunning
      BY <2>1, FindingIs DEF MonitorRunning, Complaints
  <2>2. CASE f \in Missing \/ f \in Outages \/ f \in Mapping
      BY <2>2, FindingIs DEF Missing, Outages, Mapping, Complaints
  <2>3. ASSUME NEW n \in Live, NEW r \in Match(n), f \in Disagreement(n, r)
        PROVE  f.status \in Complaints
      BY <2>3, DisagreementIs, LiveIs, Graded DEF Complaints
  <2>4. QED
      BY <1>2, <2>1, <2>2, <2>3, ReportIs
<1>3. QED
    BY <1>1, <1>2

(***************************************************************************)
(* Type correctness: of every variable, and a status in every finding.     *)
(***************************************************************************)
THEOREM TypeCorrect == Spec => []TypeOK
<1>1. IInv => TypeOK
  <2> SUFFICES ASSUME IInv PROVE TypeOK
      OBVIOUS
  <2>1. \A n \in Nodes : \/ snaps[n] \in {Unasked, [answer |-> "error"]}
                         \/ snaps[n] \in [answer : {"status"}, synced : BOOLEAN]
      BY DEF IInv, Types, Snaps
  <2>2. /\ proxy.err \in BOOLEAN /\ proxy.servers \subseteq Row
        /\ proxy.hostgroups \subseteq Set /\ proxy.enabled \in {"unread", "on", "off"}
      BY DEF IInv, Types, Proxies
  <2>3. \A f \in findings : f.status \in Complaints \cup {"OK"}
      BY StatusKnown DEF IInv, Reported
  <2>4. QED
      BY <2>1, <2>2, <2>3 DEF TypeOK, IInv, Types, Steps, Monitors
<1>2. QED
    BY Invariant, <1>1, PTL

-----------------------------------------------------------------------------
(***************************************************************************)
(* A report that stands is about the rows, the nodes and the monitor as    *)
(* they are.                                                               *)
(***************************************************************************)
Agrees ==
    /\ findings = Report /\ ~proxy.err /\ proxy.servers = rows
    /\ Nodewise /\ Setwise /\ Monitorwise

LEMMA StandsIs == ASSUME IInv, Stands PROVE Types /\ Agrees
BY DEF IInv, Stands, Agrees, Faithful, Listwise, Reported

\* A row in a serving hostgroup is matched with its node.
LEMMA ServingMatched ==
    ASSUME Types, Agrees, NEW n \in Nodes
    PROVE  ServingRows(n) \subseteq Match(n)
<1>1. ASSUME NEW g \in Serving PROVE ~MonitorManaged(g)
    BY DEF MonitorManaged, Serving, Types, Proxies, Set
<1>2. ASSUME NEW r \in ServingRows(n) PROVE r \in Match(n)
    BY <1>1, <1>2 DEF ServingRows, RowsOf, Agrees, Match, Served, Spellings, Addresses
<1>3. QED
    BY <1>2

\* Where the mapping was read, nothing else is served.
LEMMA ServedServes ==
    ASSUME Types, Agrees, proxy.hostgroups # {}, NEW r \in Served
    PROVE  r \in rows /\ r.hostgroup \in Serving
<1>1. r \in rows /\ r \in Row /\ ~MonitorManaged(r.hostgroup)
    BY DEF Served, Agrees, Types
<1>2. PICK h \in proxy.hostgroups : TRUE
    OBVIOUS
<1>3. h.offline = Offline
    BY <1>2 DEF Types, Proxies, Set
<1>4. QED
    BY <1>1, <1>2, <1>3 DEF MonitorManaged, Row, Hostgroups

LEMMA MatchedServes ==
    ASSUME Types, Agrees, proxy.hostgroups # {}, NEW n \in Nodes
    PROVE  Match(n) = ServingRows(n)
<1>1. ASSUME NEW r \in Match(n) PROVE r \in ServingRows(n)
    BY ServedServes DEF Match, ServingRows, RowsOf, Spellings, Addresses
<1>2. QED
    BY <1>1, ServingMatched

(***************************************************************************)
(* Traffic to a node that is not synced is found.                          *)
(***************************************************************************)
THEOREM TrafficIsSynced == Spec => []ServedIsSynced
<1>1. IInv => ServedIsSynced
  <2> SUFFICES ASSUME IInv, Stands, NEW n \in Live, Routed(n) # {}, ~synced[n]
               PROVE  Disagrees(n, "BAD")
      BY DEF ServedIsSynced
  <2>1. Types /\ Agrees /\ n \in Nodes /\ ~snaps[n].synced
      BY StandsIs, LiveIs DEF Agrees, Nodewise
  <2>2. PICK r \in Match(n) : r.status = "ONLINE"
      BY <2>1, ServingMatched DEF Routed
  <2>3. "BAD" \in Grade(r.status = "ONLINE", snaps[n].synced)
      BY <2>1, <2>2 DEF Grade
  <2> DEFINE f == [check |-> "proxysql/disagreement", target |-> n, status |-> "BAD",
                   hostgroup |-> r.hostgroup]
  <2>4. f \in Disagreement(n, r)
      BY <2>3 DEF Disagreement
  <2>5. f \in findings
      BY <2>1, <2>4, ReportIs DEF Agrees
  <2>6. f.check = "proxysql/disagreement" /\ f.target = n /\ f.status = "BAD"
      OBVIOUS
  <2>7. QED
      BY <2>5, <2>6 DEF Disagrees
<1>2. QED
    BY Invariant, <1>1, PTL

(***************************************************************************)
(* A node that is said to be missing is listed in no serving hostgroup.    *)
(***************************************************************************)
LEMMA MissingFound ==
    ASSUME Types, ~proxy.err, NEW n, Finding("proxysql/missing", n, "BAD") \in Report
    PROVE  n \in Live /\ Match(n) = {}
<1> DEFINE f == Finding("proxysql/missing", n, "BAD")
<1>1. f.check = "proxysql/missing" /\ f.target = n
    BY FindingIs
<1>2. f \notin MonitorRunning /\ f \notin Outages /\ f \notin Mapping
    BY <1>1, FindingIs DEF MonitorRunning, Outages, Mapping
<1>3. \A m \in Live : \A r \in Match(m) : f \notin Disagreement(m, r)
    BY <1>1, DisagreementIs
<1>4. f \in Missing
    BY <1>2, <1>3, ReportIs
<1>5. PICK m \in {k \in Live : Match(k) = {}} : f = Finding("proxysql/missing", m, "BAD")
    BY <1>4 DEF Missing
<1>6. QED
    BY <1>1, <1>5, FindingIs

THEOREM MissingIsMissing == Spec => []MissingIsReal
<1>1. IInv => MissingIsReal
  <2> SUFFICES ASSUME IInv, Stands, NEW n \in Nodes,
                      Finding("proxysql/missing", n, "BAD") \in findings
               PROVE  ServingRows(n) = {}
      BY DEF MissingIsReal
  <2>1. Match(n) = {}
      BY StandsIs, MissingFound DEF Agrees
  <2>2. QED
      BY <2>1, StandsIs, ServingMatched
<1>2. QED
    BY Invariant, <1>1, PTL

(***************************************************************************)
(* A proxy that has followed its nodes is left alone.                      *)
(***************************************************************************)
THEOREM FollowedIsLeftAlone == Spec => []FollowedIsQuiet
<1>1. IInv => FollowedIsQuiet
  <2> SUFFICES ASSUME IInv, Stands, Driving, Settled, proxy.hostgroups # {},
                      NEW f \in findings, f.status \in Complaints
               PROVE  \E n \in Nodes : ~synced[n] /\ f = Finding("proxysql/missing", n, "BAD")
      BY DEF FollowedIsQuiet
  <2>1. Types /\ Agrees /\ f \in Report
      BY StandsIs DEF Agrees
  <2>2. f \notin MonitorRunning
    <3>1. proxy.enabled # "off" /\ \A h \in proxy.hostgroups : h.active
        BY <2>1 DEF Agrees, Setwise, Monitorwise, Driving
    <3>2. QED
        BY <3>1 DEF MonitorRunning
  <2>3. f \notin Mapping
      BY FindingIs DEF Mapping, Complaints
  <2>4. ASSUME NEW r \in Served
        PROVE  \E n \in Nodes : synced[n] /\ r \in Routed(n)
    <3>1. r \in rows /\ r \in Row /\ r.hostgroup \in Serving
        BY <2>1, ServedServes DEF Types
    <3>2. PICK n \in Nodes : r.host \in Spellings(n)
        BY <3>1 DEF Row, Names
    <3>3. r \in ServingRows(n)
        BY <3>1, <3>2 DEF ServingRows, RowsOf
    <3>4. QED
        BY <3>3 DEF Settled
  <2>5. f \notin Outages
    <3>1. \A r \in Served : r.status = "ONLINE"
        BY <2>4 DEF Routed
    <3>2. QED
        BY <3>1 DEF Outages
  <2>6. ASSUME NEW n \in Live, NEW r \in Match(n), f \in Disagreement(n, r) PROVE FALSE
    <3>1. n \in Nodes /\ snaps[n].synced = synced[n] /\ r \in ServingRows(n)
        BY <2>1, LiveIs, MatchedServes DEF Agrees, Nodewise
    <3>2. synced[n] /\ r \in Routed(n)
        BY <3>1 DEF Settled
    <3>3. r.status = "ONLINE" /\ snaps[n].synced
        BY <3>1, <3>2 DEF Routed
    <3>4. Grade(r.status = "ONLINE", snaps[n].synced) = {}
        BY <3>3 DEF Grade
    <3>5. QED
        BY <2>6, <3>4, DisagreementIs
  <2>7. f \in Missing
      BY <2>1, <2>2, <2>3, <2>5, <2>6, ReportIs DEF Agrees
  <2>8. PICK n \in Live : Match(n) = {} /\ f = Finding("proxysql/missing", n, "BAD")
      BY <2>7 DEF Missing, Live
  <2>9. n \in Nodes /\ ServingRows(n) = {}
      BY <2>1, <2>8, LiveIs, MatchedServes
  <2>10. ~synced[n]
      BY <2>9 DEF Settled, Routed
  <2>11. QED
      BY <2>8, <2>9, <2>10
<1>2. QED
    BY Invariant, <1>1, PTL

(***************************************************************************)
(* A report without a complaint is about a proxy that follows.             *)
(***************************************************************************)
THEOREM CleanIsFollowed == Spec => []CleanMeansFollowed
<1>1. IInv => CleanMeansFollowed
  <2> SUFFICES ASSUME IInv, Stands, proxy.hostgroups # {}, proxy.enabled # "unread",
                      \A f \in findings : f.status \notin Complaints
               PROVE  /\ Driving
                      /\ \A n \in Live :
                            /\ ServingRows(n) # {}
                            /\ Routed(n) = IF synced[n] THEN ServingRows(n) ELSE {}
      BY DEF CleanMeansFollowed
  <2>1. Types /\ Agrees /\ \A f \in Report : f.status \notin {"BAD", "WARN"}
      BY StandsIs DEF Agrees, Complaints
  <2>2. Driving
    <3>1. proxy.enabled # "off"
      <4>1. Finding("proxysql/monitor", "proxysql", "BAD") \notin Report
          BY <2>1, FindingIs
      <4>2. QED
          BY <2>1, <4>1, ReportIs DEF Agrees, MonitorRunning
    <3>2. ASSUME NEW h \in proxy.hostgroups PROVE h.active
      <4>1. Finding("proxysql/monitor", h.writer, "BAD") \notin Report
          BY <2>1, FindingIs
      <4>2. QED
          BY <2>1, <4>1, ReportIs DEF Agrees, MonitorRunning
    <3>3. proxy.enabled = "on"
        BY <2>1, <3>1 DEF Types, Proxies
    <3>4. QED
        BY <2>1, <3>2, <3>3 DEF Agrees, Setwise, Monitorwise, Driving
  <2>3. ASSUME NEW n \in Live
        PROVE  ServingRows(n) # {} /\ Routed(n) = IF synced[n] THEN ServingRows(n) ELSE {}
    <3>1. n \in Nodes /\ snaps[n].synced = synced[n] /\ synced[n] \in BOOLEAN
        BY <2>1, LiveIs DEF Agrees, Nodewise
    <3>2. Match(n) = ServingRows(n)
        BY <2>1, <3>1, MatchedServes
    <3>3. ServingRows(n) # {}
      <4>1. Finding("proxysql/missing", n, "BAD") \notin Report
          BY <2>1, FindingIs
      <4>2. QED
          BY <2>1, <3>2, <4>1, ReportIs DEF Agrees, Missing
    <3>4. ASSUME NEW r \in ServingRows(n) PROVE (r.status = "ONLINE") = synced[n]
      <4> DEFINE g == Grade(r.status = "ONLINE", synced[n])
      <4>1. ASSUME NEW st \in g PROVE FALSE
        <5> DEFINE f == [check |-> "proxysql/disagreement", target |-> n, status |-> st,
                         hostgroup |-> r.hostgroup]
        <5>1. f \in Disagreement(n, r)
            BY <3>1, <4>1 DEF Disagreement
        <5>2. f \in Report
            BY <2>1, <3>2, <5>1, ReportIs DEF Agrees
        <5>3. f.status = st /\ st \in {"BAD", "WARN"}
            BY <3>1, <4>1, Graded
        <5>4. QED
            BY <2>1, <5>2, <5>3
      <4>2. g = {}
          BY <4>1
      <4>3. QED
          BY <3>1, <4>2, Graded
    <3>5. QED
        BY <3>1, <3>3, <3>4 DEF Routed
  <2>4. QED
      BY <2>2, <2>3
<1>2. QED
    BY Invariant, <1>1, PTL
=============================================================================
