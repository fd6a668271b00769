----------------------------- MODULE Membership -----------------------------
(***************************************************************************)
(* What the audit says of the group: clusterIdentity, membership,          *)
(* nodeState and membershipView (audit.go), over nodes that are read one   *)
(* by one while the group splits, merges, loses members and is             *)
(* bootstrapped.                                                           *)
(*                                                                         *)
(* The servers that replicate together agree on a view; each installs it   *)
(* in its own time, and answers SHOW GLOBAL STATUS with the view it has    *)
(* installed.  The state of the network and of the servers is external to  *)
(* the program.                                                            *)
(***************************************************************************)
EXTENDS Integers, FiniteSets, FiniteSetsExt, Snapshot

CONSTANTS
    Nodes,       \* the configured nodes
    Strays,      \* the members no configuration names: an arbitrator, a forgotten server
    Expects,     \* what expect_nodes may be: how many members the cluster should have
    FlagSets,    \* the sets of checks a node's own settings may fail
    MaxChanges   \* bound: the changes of the group

Servers == Nodes \cup Strays

ASSUME NodesAssumption == IsFiniteSet(Servers) /\ Nodes # {} /\ Nodes \cap Strays = {}
ASSUME BoundAssumption == MaxChanges \in Nat /\ Expects \subseteq Nat

VARIABLES
    \* The group.
    up,       \* the servers that run
    agreed,   \* per server, the view its component has agreed on
    view,     \* per node, the view it has installed
    state,    \* per node, its local state
    changes,  \* how often the group has changed
    \* The pass.
    expect,   \* expect_nodes
    pc,       \* "idle", "read" or "end"
    status,   \* per node, what its SHOW GLOBAL STATUS said
    members,  \* per node, the members its plugin listed
    findings, \* the report
    \* History, read by the properties only.
    calm      \* nothing happened to the group since the pass began

group == <<up, agreed, view, state, changes>>
vars == <<up, agreed, view, state, changes, expect, pc, status, members, findings, calm>>

-----------------------------------------------------------------------------
(***************************************************************************)
(* The group.                                                              *)
(***************************************************************************)
FirstView(S) == [uuid |-> 1, conf |-> 1, members |-> S, primary |-> TRUE]

Unasked == [answer |-> "none"]

Init ==
    /\ up \in (SUBSET Servers) \ {{}}
    /\ agreed = [s \in Servers |-> FirstView(up)]
    /\ view = [n \in Nodes |-> FirstView(up)]
    /\ state = [n \in Nodes |-> "Synced"]
    /\ changes = 0
    /\ expect \in Expects
    /\ pc = "idle"
    /\ status = [n \in Nodes |-> Unasked]
    /\ members = [n \in Nodes |-> {}]
    /\ findings = {}
    /\ calm = TRUE

\* The servers that run and have agreed on the view of s.
Component(s) == {t \in up : agreed[t] = agreed[s]}

Change ==
    /\ changes < MaxChanges
    /\ changes' = changes + 1
    /\ calm' = FALSE
    /\ UNCHANGED <<expect, pc, status, members, findings>>

\* What is left of the view of s once only the servers of S are there.
Remnant(s, S) ==
    [agreed[s] EXCEPT !.conf = @ + 1, !.members = S,
        !.primary = @ /\ 2 * Cardinality(S) > Cardinality(agreed[s].members)]

\* The network splits a component in two: the part with a majority stays Primary.
Part(s, S) ==
    /\ Change
    /\ S \subseteq Component(s)
    /\ s \in S
    /\ S # Component(s)
    /\ agreed' = [t \in Servers |->
                     IF t \in S THEN Remnant(s, S)
                     ELSE IF t \in Component(s) THEN Remnant(s, Component(s) \ S)
                     ELSE agreed[t]]
    /\ UNCHANGED <<up, view, state>>

\* A server stops.
Stop(s) ==
    /\ Change
    /\ s \in up
    /\ up' = up \ {s}
    /\ agreed' = [t \in Servers |->
                     IF t \in Component(s) \ {s} THEN Remnant(s, Component(s) \ {s})
                     ELSE agreed[t]]
    /\ UNCHANGED <<view, state>>

\* Two components of one cluster find each other, unless both are Primary.
Join(s, t) ==
    /\ Change
    /\ s \in up /\ t \in up
    /\ agreed[s] # agreed[t]
    /\ agreed[s].uuid = agreed[t].uuid
    /\ ~(agreed[s].primary /\ agreed[t].primary)
    /\ LET all == Component(s) \cup Component(t)
           new == [uuid |-> agreed[s].uuid,
                   conf |-> 1 + Max({agreed[s].conf, agreed[t].conf}),
                   members |-> all,
                   primary |-> agreed[s].primary \/ agreed[t].primary]
       IN  agreed' = [r \in Servers |-> IF r \in all THEN new ELSE agreed[r]]
    /\ UNCHANGED <<up, view, state>>

\* A stopped server comes back: alone, in its old cluster or with one of its own, under
\* a state uuid that nobody had.
Come(s) ==
    /\ Change
    /\ s \notin up
    /\ up' = up \cup {s}
    /\ LET alone == [agreed[s] EXCEPT !.members = {s}, !.primary = FALSE]
           new   == [uuid |-> 2 + changes, conf |-> 1, members |-> {s}, primary |-> TRUE]
       IN  \E v \in {alone, new} : /\ agreed' = [agreed EXCEPT ![s] = v]
                                   /\ view' = [n \in Nodes |-> IF n = s THEN v ELSE view[n]]
    /\ state' = [n \in Nodes |-> IF n = s THEN "Initialized" ELSE state[n]]

\* An operator makes a component Primary (pc.bootstrap).
Bootstrap(s) ==
    /\ Change
    /\ s \in up
    /\ ~agreed[s].primary
    /\ agreed' = [t \in Servers |->
                     IF t \in Component(s)
                     THEN [agreed[s] EXCEPT !.conf = @ + 1, !.primary = TRUE]
                     ELSE agreed[t]]
    /\ UNCHANGED <<up, view, state>>

\* A node installs the view of its component.
Install(s) ==
    /\ s \in up
    /\ view[s] # agreed[s]
    /\ view' = [view EXCEPT ![s] = agreed[s]]
    /\ state' = [state EXCEPT ![s] = IF ~agreed[s].primary THEN "Initialized" ELSE @]
    /\ calm' = FALSE
    /\ UNCHANGED <<up, agreed, changes, expect, pc, status, members, findings>>

\* A node feeds a state transfer, or is desynced for a backup.
Donate(s) ==
    /\ Change
    /\ s \in up
    /\ state[s] = "Synced"
    /\ state' = [state EXCEPT ![s] = "Donor/Desynced"]
    /\ UNCHANGED <<up, agreed, view>>

\* In a Primary component a node gets what it missed, and is Synced.
Sync(s) ==
    /\ s \in up
    /\ view[s].primary
    /\ state[s] # "Synced"
    /\ state' = [state EXCEPT ![s] = IF @ = "Initialized" THEN "Joiner" ELSE "Synced"]
    /\ calm' = FALSE
    /\ UNCHANGED <<up, agreed, view, changes, expect, pc, status, members, findings>>

-----------------------------------------------------------------------------
(***************************************************************************)
(* The pass.  The nodes are read concurrently; the status of a node and    *)
(* the list of its wsrep_info plugin are two queries; where the second     *)
(* fails, for want of the plugin or otherwise, nothing is said.            *)
(***************************************************************************)
Begin ==
    /\ pc = "idle"
    /\ pc' = "read"
    /\ calm' = TRUE
    /\ UNCHANGED <<group, expect, status, members, findings>>

ReadStatus(n) ==
    /\ pc = "read"
    /\ status[n] = Unasked
    /\ n \in up
    /\ \E off \in FlagSets :
          status' = [status EXCEPT ![n] =
             [answer |-> "status", view |-> view[n], comment |-> state[n],
              ready |-> view[n].primary /\ state[n] = "Synced", off |-> off]]
    /\ UNCHANGED <<group, expect, pc, members, findings, calm>>

\* The node is down, or does not answer in time.
FailRead(n) ==
    /\ pc = "read"
    /\ status[n] = Unasked
    /\ status' = [status EXCEPT ![n] = [answer |-> "error"]]
    /\ UNCHANGED <<group, expect, pc, members, findings, calm>>

ReadMembers(n) ==
    /\ pc = "read"
    /\ status[n].answer = "status"
    /\ n \in up
    /\ members[n] = {}
    /\ members' = [members EXCEPT ![n] = {Own(s) : s \in view[n].members}]
    /\ UNCHANGED <<group, expect, pc, status, findings, calm>>

-----------------------------------------------------------------------------
Cluster == "cluster"

\* The nodes that were read.
Live == {n \in Nodes : status[n].answer = "status"}

\* nodesRead
NodesRead == {Finding("node/read", n, "ERROR") : n \in Nodes \ Live}

\* The distinct values the nodes that were read report (groupBy).
Distinct(value) == {value[n] : n \in Live}

Uuid == [n \in Live |-> status[n].view.uuid]
Conf == [n \in Live |-> status[n].view.conf]
Size == [n \in Live |-> Cardinality(status[n].view.members)]

Primaries == {Finding("cluster/primary", n, "BAD") : n \in {m \in Live : ~status[m].view.primary}}

\* Two clusters under one name.
Uuids == IF Cardinality(Distinct(Uuid)) > 1 THEN {Finding("cluster/uuid", Cluster, "BAD")} ELSE {}

\* Mutant of ClusterIdentity: the configuration ids are not compared.
ClusterIdentityNoConf == Uuids \cup Primaries

(***************************************************************************)
(* clusterIdentity.  Configuration ids are compared only between nodes of  *)
(* one cluster.                                                            *)
(***************************************************************************)
ClusterIdentity ==
    Uuids \cup Primaries
    \cup IF Cardinality(Distinct(Uuid)) = 1 /\ Cardinality(Distinct(Conf)) > 1
         THEN {Finding("cluster/conf-id", Cluster, "WARN")} ELSE {}

\* Mutant of MembershipSize: the size is compared between the nodes only.
MembershipSizeAgreed ==
    {Finding("cluster/size", Cluster, IF Cardinality(Distinct(Size)) > 1 THEN "BAD" ELSE "OK")}

(***************************************************************************)
(* membership: the nodes disagree about the size, or it is not the one     *)
(* expected.                                                               *)
(***************************************************************************)
MembershipSize ==
    {Finding("cluster/size", Cluster, IF Distinct(Size) = {expect} THEN "OK" ELSE "BAD")}

\* Mutant of StateComment: a state the code does not know has no status.
StateCommentSilent(comment) ==
    CASE comment = "Synced" -> "OK"
      [] comment \in {"Donor/Desynced", "Joined", "Joiner"} -> "WARN"
      [] OTHER -> ""

StateComment(comment) ==
    CASE comment = "Synced" -> "OK"
      [] comment \in {"Donor/Desynced", "Joined", "Joiner"} -> "WARN"
      [] OTHER -> "BAD"

FlagStatus(check) == IF check \in {"node/desync", "node/read-only"} THEN "WARN" ELSE "BAD"

\* nodeState
NodeState ==
    {Finding("node/ready", n, "BAD") : n \in {m \in Live : ~status[m].ready}}
    \cup (UNION {{Finding(f, n, FlagStatus(f)) : f \in status[n].off} : n \in Live})
    \cup {Finding("node/state", n, StateComment(status[n].comment)) : n \in Live}

\* The group's list, from whichever nodes that were read can see it.
Listed == UNION {members[n] : n \in Live}

\* Mutant of Audited: a node that is configured counts as audited.
AuditedConfigured == UNION {Addresses(n) : n \in Nodes}

\* The members this run has audited, under every spelling.
Audited == UNION {Addresses(n) : n \in Live}

\* membershipView: silent where no node has the plugin.
MembershipView ==
    {f \in {Finding("cluster/membership-view", Cluster, "BAD")} :
        Listed # {} /\ \E n \in Live : Addresses(n) \cap Listed = {}}
    \cup {f \in {Finding("cluster/membership-view", Cluster, "WARN")} : Listed \ Audited # {}}

(***************************************************************************)
(* Run, as far as the group is concerned.                                  *)
(***************************************************************************)
Report ==
    NodesRead
    \cup IF Live = {} THEN {Finding("cluster/membership", Cluster, "ERROR")}
         ELSE ClusterIdentity \cup MembershipSize \cup NodeState \cup MembershipView

Audit ==
    /\ pc = "read"
    /\ \A n \in Nodes : status[n] # Unasked
    /\ findings' = Report
    /\ pc' = "end"
    /\ UNCHANGED <<group, expect, status, members, calm>>

Environment ==
    \/ \E s \in Servers : \/ \E S \in SUBSET Servers : Part(s, S)
                          \/ \E t \in Servers : Join(s, t)
                          \/ Stop(s)
                          \/ Come(s)
                          \/ Bootstrap(s)
    \/ \E n \in Nodes : Install(n) \/ Donate(n) \/ Sync(n)

Auditor ==
    \/ Begin
    \/ \E n \in Nodes : ReadStatus(n) \/ FailRead(n) \/ ReadMembers(n)
    \/ Audit

Next == Environment \/ Auditor

Spec == Init /\ [][Next]_vars

-----------------------------------------------------------------------------
View == [uuid : Nat, conf : Nat, members : SUBSET Servers, primary : BOOLEAN]
State == {"Synced", "Donor/Desynced", "Joiner", "Initialized"}
Names == {Configured(s) : s \in Servers} \cup {Own(s) : s \in Servers}

(***************************************************************************)
(* Every finding carries one of the verdicts of the tool, whatever a node  *)
(* answered (stateComment has a default for a state it does not know).     *)
(***************************************************************************)
TypeOK ==
    /\ up \subseteq Servers
    /\ agreed \in [Servers -> View]
    /\ view \in [Nodes -> View]
    /\ state \in [Nodes -> State]
    /\ changes \in 0..MaxChanges
    /\ expect \in Expects
    /\ pc \in {"idle", "read", "end"}
    /\ \A n \in Nodes :
          \/ status[n] \in {Unasked, [answer |-> "error"]}
          \/ status[n] \in [answer : {"status"}, view : View, comment : State,
                            ready : BOOLEAN, off : FlagSets]
    /\ members \in [Nodes -> SUBSET Names]
    /\ \A f \in findings : /\ f.target \in Nodes \cup {Cluster}
                           /\ f.status \in Complaints \cup {"OK"}
    /\ calm \in BOOLEAN

Graded(st) == \E f \in findings : f.status \in st

(***************************************************************************)
(* A report without a complaint means one group: every node was read, and  *)
(* all of them answered with the same Primary view of the size expected,   *)
(* where that is more than half of all the servers there are.              *)
(* It holds although the answers are of different moments and the group    *)
(* may change between them: that is what clusterIdentity compares the      *)
(* configuration ids for.                                                  *)
(***************************************************************************)
CleanMeansOneGroup ==
    pc = "end" /\ ~Graded(Complaints) /\ 2 * expect > Cardinality(Servers) =>
        /\ Live = Nodes
        /\ \E v \in {status[n].view : n \in Nodes} :
              /\ v.primary
              /\ Cardinality(v.members) = expect
              /\ \A n \in Nodes : status[n].view = v

(***************************************************************************)
(* Where expect_nodes is what it says, the number of all the servers, a    *)
(* split is never a mere warning: two nodes read in a pass during which    *)
(* nothing moved, neither of which has the other in its view, make a       *)
(* finding that is BAD.  Two halves that were both bootstrapped keep one   *)
(* state uuid, may be at one configuration id, and are each Primary and    *)
(* Synced; only the size (membership) tells them from one cluster.         *)
(***************************************************************************)
SplitIsGraded ==
    pc = "end" /\ calm /\ expect = Cardinality(Servers) =>
        \A n, m \in Live :
            n \notin view[m].members /\ m \notin view[n].members => Graded({"BAD"})

(***************************************************************************)
(* A healthy group is left alone: no finding but the warning about the     *)
(* members that no configuration names, which membershipView owes to its   *)
(* reader where a plugin lists them.                                       *)
(***************************************************************************)
QuietIsClean ==
    /\ pc = "end" /\ calm
    /\ Live = Nodes
    /\ \A n \in Nodes : state[n] = "Synced" /\ status[n].off = {} /\ view[n].primary
    /\ \A n, m \in Nodes : view[n] = view[m] /\ m \in view[n].members
    /\ \A n \in Nodes : Cardinality(view[n].members) = expect
    =>
    \A f \in findings : \/ f.status = "OK"
                        \/ /\ f = Finding("cluster/membership-view", Cluster, "WARN")
                           /\ Listed \ {Own(n) : n \in Nodes} # {}

(***************************************************************************)
(* A member of the group that the run did not audit is named, whether no   *)
(* configuration knows it or it is configured and could not be read, as    *)
(* soon as one node that was read lists the group.                         *)
(***************************************************************************)
UnauditedIsNamed ==
    pc = "end" /\ calm =>
        \A n \in {m \in Live : members[m] # {}} :
            ~(view[n].members \subseteq Live) =>
                Finding("cluster/membership-view", Cluster, "WARN") \in findings
=============================================================================
