------------------------------ MODULE Settings ------------------------------
(***************************************************************************)
(* Settings that nothing exercises until the day they matter, and what     *)
(* becomes of the cluster on that day.  The audit reads the weights and    *)
(* switches of the quorum, the list of peers of each node and its          *)
(* auto-increment settings (audit.go quorumSettings, peerList and          *)
(* autoIncrement); then the network splits and heals, nodes stop and       *)
(* start, and every node inserts rows.                                     *)
(*                                                                         *)
(* Of Galera only this is modelled, as the hints of these checks describe  *)
(* it: a part of a Primary component stays Primary with more than half of  *)
(* its weight, a part that lost it has it again when it meets the Primary  *)
(* component, a node with pc.ignore_sb takes writes anywhere, and a node   *)
(* that starts joins a component in which one of its peers answers.  Every *)
(* node votes, and there is no arbitrator.                                 *)
(***************************************************************************)
EXTENDS Integers, FiniteSetsExt

CONSTANTS
    Voters,        \* the nodes of the cluster
    Gone,          \* an address at which no node of this cluster is
    Weightings,    \* the assignments of pc.weight the cluster may have
    PeerLists,     \* what wsrep_cluster_address of a node may name
    Odd,           \* the nodes whose switches and peers differ from the default
    IdSettings     \* what a node's auto-increment settings may be

ASSUME SettingsAssumption ==
    /\ IsFiniteSet(Voters) /\ Odd \subseteq Voters /\ Gone \notin Voters
    /\ Weightings \subseteq [Voters -> Nat]
    /\ PeerLists \subseteq SUBSET (Voters \cup {Gone})
    \* A server takes no offset and no step below 1.
    /\ IdSettings \subseteq [control : BOOLEAN, offset : Nat \ {0}, step : Nat \ {0}]

VARIABLES
    weight,        \* pc.weight
    ignoreSb,      \* the nodes with pc.ignore_sb
    bootstrap,     \* the nodes with pc.bootstrap left on
    peers,         \* per node, the peers of its wsrep_cluster_address
    ids,           \* per node, its auto-increment settings
    live,          \* the nodes the audit reads
    said,          \* what it says: {} before
    components,    \* the components: their members, and whether they are Primary
    stopped        \* history: the nodes that were ever down

settings == <<weight, ignoreSb, bootstrap, peers, ids, live>>
settingsVars == <<weight, ignoreSb, bootstrap, peers, ids, live, said, components, stopped>>

-----------------------------------------------------------------------------
(***************************************************************************)
(* The audit.                                                              *)
(***************************************************************************)
Finding(check, st, nodes) == [check |-> check, status |-> st, nodes |-> nodes]
PerNode(check, st, nodes) == {Finding(check, st, {n}) : n \in nodes}

\* A node has as many votes as its weight; the weights add up as the votes do.
Votes(nodes) == UNION {{n} \X (1..weight[n]) : n \in nodes}
WeightOf(nodes) == Cardinality(Votes(nodes))

\* Mutant of Majorities: half is enough.
MajoritiesHalf == {n \in live : weight[n] * 2 >= WeightOf(live)}

\* The nodes that hold more than half of the weight, each alone.
Majorities == {n \in live : weight[n] * 2 > WeightOf(live)}

Equal == \A n, m \in live : weight[n] = weight[m]

\* Mutant of Bootstrapping: the trigger is not looked at.
BootstrappingNever == {}

Bootstrapping == PerNode("bootstrap", "WARN", live \cap bootstrap)

QuorumSettings ==
    PerNode("ignore-sb", "BAD", live \cap ignoreSb)
        \cup Bootstrapping
        \cup PerNode("weight", "BAD", {n \in live : weight[n] = 0})
        \cup IF Cardinality(live) < 2 THEN {}
             ELSE IF ~Equal THEN {Finding("weight", "WARN", Majorities)}
             ELSE {Finding("weight", "OK", live) : n \in {m \in live : weight[m] > 0}}

\* The peers of a list that are nodes the audit read, whichever spelling they have:
\* the node itself counts as one.
Present(n) == peers[n] \cap live

\* Mutant of PeerList: the finding is filed under the address that is missing.
PeerListOfMissing ==
    PerNode("peers", "BAD", {n \in live : Present(n) = {}})
        \cup PerNode("peers", "WARN",
                     UNION {peers[n] \ Present(n) : n \in {m \in live : Present(m) # {}}})

PeerList ==
    PerNode("peers", "BAD", {n \in live : Present(n) = {}})
        \cup PerNode("peers", "WARN", {n \in live : Present(n) # {} /\ peers[n] # Present(n)})

Uncontrolled == {n \in live : ~ids[n].control}

\* Mutant of SharedOffset: the offsets are not compared.
SharedOffsetNever == FALSE

SharedOffset == \E n, m \in Uncontrolled : n # m /\ ids[n].offset = ids[m].offset

\* The smallest step is held against the number of nodes; that the steps differ, or an
\* offset is beyond its step, is not looked at.
AutoIncrement ==
    IF Uncontrolled = {} THEN {Finding("ids", "OK", live)}
    ELSE IF SharedOffset THEN {Finding("ids", "BAD", Uncontrolled)}
    ELSE IF Min({ids[n].step : n \in Uncontrolled}) < Cardinality(live)
         THEN {Finding("ids", "WARN", Uncontrolled)}
         ELSE {Finding("ids", "OK", Uncontrolled)}

-----------------------------------------------------------------------------
(***************************************************************************)
(* The cluster.                                                            *)
(***************************************************************************)
Managed == [control |-> TRUE, offset |-> 1, step |-> 1]

\* A cluster that is whole when it is audited: either its quorum and its peers are
\* of interest or its ids.
SettingsInit ==
    /\ \/ /\ weight \in Weightings
          /\ ignoreSb \in SUBSET Odd
          /\ bootstrap \in SUBSET Odd
          /\ \E lists \in [Odd -> PeerLists] :
                peers = [n \in Voters |-> IF n \in Odd THEN lists[n] ELSE Voters]
          /\ ids = [n \in Voters |-> Managed]
       \/ /\ weight = [n \in Voters |-> 1]
          /\ ignoreSb = {} /\ bootstrap = {}
          /\ peers = [n \in Voters |-> Voters]
          /\ ids \in [Voters -> IdSettings]
    /\ live \in (SUBSET Voters) \ {{}}
    /\ said = {}
    /\ components = {[members |-> Voters, primary |-> TRUE]}
    /\ stopped = {}

AuditSettings ==
    /\ said = {}
    /\ said' = QuorumSettings \cup PeerList \cup AutoIncrement
    /\ UNCHANGED <<settings, components, stopped>>

\* What is left of component c when only the nodes in s see each other.
Part(c, s) ==
    [members |-> s, primary |-> c.primary /\ 2 * WeightOf(s) > WeightOf(c.members)]

Replace(old, new) ==
    /\ said # {}
    /\ components' = {c \in (components \ old) \cup new : c.members # {}}
    /\ UNCHANGED <<settings, said>>

\* The network splits a component in two.
Split ==
    \E c \in components : \E s \in (SUBSET c.members) \ {{}, c.members} :
        Replace({c}, {Part(c, s), Part(c, c.members \ s)}) /\ UNCHANGED stopped

\* Two components see each other again.
Heal ==
    \E c, d \in components :
        /\ c # d
        /\ Replace({c, d}, {[members |-> c.members \cup d.members,
                            primary |-> c.primary \/ d.primary]})
        /\ UNCHANGED stopped

\* A node dies, which the others cannot tell from a split.
Crash ==
    \E c \in components : \E n \in c.members :
        Replace({c}, {Part(c, c.members \ {n})}) /\ stopped' = stopped \cup {n}

\* A node is shut down: its vote leaves with it.
Leave ==
    \E c \in components : \E n \in c.members :
        /\ Replace({c}, {[c EXCEPT !.members = @ \ {n}]})
        /\ stopped' = stopped \cup {n}

Down == Voters \ UNION {c.members : c \in components}
Answering(n) == {c \in components : peers[n] \cap c.members # {}}

\* A node starts, and is let in where a peer answers.
Join ==
    \E n \in Down : \E c \in Answering(n) :
        Replace({c}, {[c EXCEPT !.members = @ \cup {n}]}) /\ UNCHANGED stopped

\* A node starts that has no peers, or none that answers and the trigger set.
Form ==
    \E n \in Down :
        /\ peers[n] = {} \/ (n \in bootstrap /\ Answering(n) = {})
        /\ Replace({}, {[members |-> {n}, primary |-> TRUE]})
        /\ UNCHANGED stopped

SettingsNext == AuditSettings \/ Split \/ Heal \/ Crash \/ Leave \/ Join \/ Form

SettingsSpec == SettingsInit /\ [][SettingsNext]_settingsVars

-----------------------------------------------------------------------------
(***************************************************************************)
(* Properties.                                                             *)
(***************************************************************************)
Audited == said # {} /\ live = Voters
Complains(check) == \E f \in said : f.check = check /\ f.status \in {"WARN", "BAD"}
Writable == {c \in components : c.primary \/ c.members \cap ignoreSb # {}}

\* The components are disjoint, and each has members.
SettingsTypeOK ==
    /\ components \subseteq [members : (SUBSET Voters) \ {{}}, primary : BOOLEAN]
    /\ \A c, d \in components : c # d => c.members \cap d.members = {}
    /\ stopped \subseteq Voters /\ Down \subseteq stopped
    /\ \A f \in said : f.nodes \subseteq live

\* Every node was read, and quorum/ignore-sb, quorum/bootstrap and cluster/peers have
\* nothing to say.
Silent == Audited /\ \A check \in {"ignore-sb", "bootstrap", "peers"} : ~Complains(check)

\* Where these checks are silent no sequence of splits, crashes, shutdowns and restarts
\* leaves two components that take writes: whatever the weights are.
NoSplitBrain == Silent => Cardinality(Writable) <= 1

\* There, too, a component is only Primary where one of its members was in a Primary one
\* before: the data is handed on, and no old copy of it is taken for the cluster's.
PrimaryContinues ==
    [][Silent => \A d \in components' : d.primary =>
           \E c \in components : c.primary /\ c.members \cap d.members # {}]_settingsVars

\* The node of which quorum/weight says that it alone holds a majority survives
\* losing everything else: while it runs its component is Primary.
MajoritySurvives ==
    Audited => \A f \in said : f.check = "weight" /\ f.status = "WARN" =>
        \A n \in f.nodes \ stopped :
            \A c \in components : n \in c.members => c.primary

\* That node takes the cluster with it, too: where it dies nothing of its component is
\* Primary any more.
MajorityIsFatal ==
    [][Crash /\ Audited => \A f \in said : f.check = "weight" /\ f.status = "WARN" =>
           \A n \in f.nodes \cap (Down' \ Down) : \A c \in components, d \in components' :
               n \in c.members /\ d.members \subseteq c.members => ~d.primary]_settingsVars

\* Where quorum/weight says that all weights are equal no node is missed: of a Primary
\* component of more than two the rest goes on when one dies.
EqualOutlivesOne ==
    [][Crash /\ Audited /\ (\E f \in said : f.check = "weight" /\ f.status = "OK") =>
           \A c \in components : c.primary /\ Cardinality(c.members) > 2 =>
               \E d \in components' : /\ d.primary /\ d.members \subseteq c.members
                                      /\ Cardinality(d.members) >= Cardinality(c.members) - 1
      ]_settingsVars

\* The ids a node gives to rows, up to where the sequences of two nodes must have met.
IdsOf(n) == {ids[n].offset + k * ids[n].step : k \in 0..10}

\* repl/auto-increment has nothing to say of settings made by hand only where no two
\* nodes give the same id to two rows, if they have one step and no offset beyond it.
IdsAreDistinct ==
    /\ Audited
    /\ Uncontrolled = Voters
    /\ \A n, m \in Voters : ids[n].step = ids[m].step /\ ids[n].offset <= ids[n].step
    /\ ~Complains("ids")
    => \A n, m \in Voters : n # m => IdsOf(n) \cap IdsOf(m) = {}
=============================================================================
