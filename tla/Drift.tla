------------------------------- MODULE Drift --------------------------------
(***************************************************************************)
(* systables/drift and schema/drift: the definitions of the tables, read   *)
(* from every node and compared (collect.go sysTableFingerprints and       *)
(* appTableFingerprints, audit.go sysTableDrift and schemaDrift).          *)
(*                                                                         *)
(* The servers: a schema change of an application table is replicated and  *)
(* applied by every node in the common order, each in its own time, where  *)
(* it may fail; a change under wsrep_OSU_method=RSU, by hand or by         *)
(* mysql_upgrade is made on one node alone, and perhaps on others later.   *)
(* A definition is the sequence of the changes its table went through;     *)
(* the nodes are read at different moments, each in two queries.           *)
(***************************************************************************)
EXTENDS Integers, SequencesExt

CONSTANTS
    Nodes,
    AppTables,     \* the application tables, numbers in the order of their names
    SysTables,     \* the tables of the mysql schema
    MaxListed,     \* maxDriftedListed
    Existing,      \* the tables that are there from the beginning
    SkipSysTables, SkipSchema,   \* --no-systables, --no-schema
    MaxChanges,    \* bound: the schema changes made
    MaxDenied      \* bound: the nodes that deny the audit user a read

Tables == AppTables \cup SysTables

ASSUME DriftAssumption ==
    /\ IsFiniteSet(Nodes) /\ Nodes # {} /\ IsFiniteSet(Tables)
    /\ MaxListed \in Nat \ {0} /\ MaxChanges \in Nat /\ MaxDenied \in Nat
    /\ AppTables \subseteq Nat /\ SysTables \subseteq Nat /\ AppTables \cap SysTables = {}
    /\ SysTables \subseteq Existing /\ Existing \subseteq Tables
    /\ SkipSysTables \in BOOLEAN /\ SkipSchema \in BOOLEAN

VARIABLES
    \* The servers.
    changes,   \* the changes made so far: of which table, and whether replicated
    settled,   \* per node, the changes it applied, or tried to
    def,       \* per node and table, its definition: <<>> where there is none
    \* The program.
    stage,     \* per node, what is read next: "sys", "app", or "read", "failed"
    sys, app,  \* per node, the fingerprints read
    findings,  \* what the audit says
    \* History, read by the properties only.
    broken,    \* the changes that failed somewhere
    atStart    \* the definitions when the pass began

servers == <<changes, settled, def, broken>>
vars == <<changes, settled, def, stage, sys, app, findings, broken, atStart>>

Unread == [read |-> FALSE, prints |-> <<>>]

Init ==
    /\ changes = <<>>
    /\ settled = [n \in Nodes |-> {}]
    /\ def = [n \in Nodes |-> [t \in Tables |-> IF t \in Existing THEN <<0>> ELSE <<>>]]
    /\ stage = [n \in Nodes |-> "idle"]
    /\ sys = [n \in Nodes |-> Unread]
    /\ app = [n \in Nodes |-> Unread]
    /\ findings = {}
    /\ broken = {}
    /\ atStart = def

-----------------------------------------------------------------------------
(***************************************************************************)
(* The servers.                                                            *)
(***************************************************************************)
Ended == findings # {}

\* A statement is given to the cluster: its place among the changes is its place in
\* the order in which every node applies them.
Alter(t) ==
    /\ ~Ended
    /\ Len(changes) < MaxChanges
    /\ changes' = Append(changes, [table |-> t, alone |-> FALSE])
    /\ UNCHANGED <<settled, def, stage, sys, app, findings, broken, atStart>>

\* The changes that are still to come to node n.
Pending(n) == {i \in DOMAIN changes : ~changes[i].alone /\ i \notin settled[n]}

\* Node n applies the next one, or fails to and goes on without it.
Apply(n) ==
    /\ ~Ended
    /\ Pending(n) # {}
    /\ LET i == Min(Pending(n))
           t == changes[i].table
       IN /\ settled' = [settled EXCEPT ![n] = @ \cup {i}]
          /\ \/ def' = [def EXCEPT ![n][t] = Append(@, i)] /\ UNCHANGED broken
             \/ broken' = broken \cup {i} /\ UNCHANGED def
    /\ UNCHANGED <<changes, stage, sys, app, findings, atStart>>

\* A change is made on node n and nowhere else.
AlterAlone(n, t) ==
    /\ ~Ended
    /\ Len(changes) < MaxChanges
    /\ changes' = Append(changes, [table |-> t, alone |-> TRUE])
    /\ settled' = [settled EXCEPT ![n] = @ \cup {Len(changes) + 1}]
    /\ def' = [def EXCEPT ![n][t] = Append(@, Len(changes) + 1)]
    /\ UNCHANGED <<stage, sys, app, findings, broken, atStart>>

\* It is made on another one too.
Repeat(n, i) ==
    /\ ~Ended
    /\ changes[i].alone
    /\ i \notin settled[n]
    /\ settled' = [settled EXCEPT ![n] = @ \cup {i}]
    /\ def' = [def EXCEPT ![n][changes[i].table] = Append(@, i)]
    /\ UNCHANGED <<changes, stage, sys, app, findings, broken, atStart>>

-----------------------------------------------------------------------------
(***************************************************************************)
(* Collect, in a goroutine per node.                                       *)
(***************************************************************************)
\* Mutant of Fingerprints: the schemas are not told apart.
FingerprintsAll(n, ts) ==
    [read |-> TRUE, prints |-> [t \in {u \in Tables : def[n][u] # <<>>} |-> def[n][t]]]

\* The fingerprints of the tables in ts that node n has.
Fingerprints(n, ts) ==
    [read |-> TRUE, prints |-> [t \in {u \in ts : def[n][u] # <<>>} |-> def[n][t]]]

\* The pass begins; some nodes cannot be read at all.
Begin ==
    /\ \A n \in Nodes : stage[n] = "idle"
    /\ stage' \in [Nodes -> {"sys", "failed"}]
    /\ atStart' = def
    /\ UNCHANGED <<servers, sys, app, findings>>

\* The nodes that denied a read; node n may be one more of them.
Denying == {m \in Nodes : \/ stage[m] = "app" /\ ~sys[m].read
                          \/ stage[m] = "read" /\ ~(sys[m].read /\ app[m].read)}
MayDeny(n) == Cardinality(Denying \cup {n}) <= MaxDenied

\* The mysql schema is read: or it is denied, or was not asked for.
ReadSys(n) ==
    /\ stage[n] = "sys"
    /\ stage' = [stage EXCEPT ![n] = "app"]
    /\ \/ ~SkipSysTables /\ sys' = [sys EXCEPT ![n] = Fingerprints(n, SysTables)]
       \/ (SkipSysTables \/ MayDeny(n)) /\ UNCHANGED sys
    /\ UNCHANGED <<servers, app, findings, atStart>>

\* The application schemas likewise.
ReadApp(n) ==
    /\ stage[n] = "app"
    /\ stage' = [stage EXCEPT ![n] = "read"]
    /\ \/ ~SkipSchema /\ app' = [app EXCEPT ![n] = Fingerprints(n, AppTables)]
       \/ (SkipSchema \/ MayDeny(n)) /\ UNCHANGED app
    /\ UNCHANGED <<servers, sys, findings, atStart>>

-----------------------------------------------------------------------------
(***************************************************************************)
(* The audit.                                                              *)
(***************************************************************************)
Live == {n \in Nodes : stage[n] = "read"}

\* Mutant of SysAudited: a node without definitions is one whose tables are missing.
SysAuditedAll == Live

\* An empty answer about the mysql schema is no answer; one about the application
\* schemas is: there are none.
SysAudited == {n \in Live : DOMAIN sys[n].prints # {}}
AppAudited == {n \in Live : app[n].read}

\* Mutant of Fingerprint: a table that is absent is left out of the comparison.
FingerprintPresent(snap, nodes, t, n) ==
    LET having == {m \in nodes : t \in DOMAIN snap[m].prints}
    IN snap[IF n \in having THEN n ELSE CHOOSE m \in having : TRUE].prints[t]

\* What node n has of table t; that it is absent is a value like another.
Fingerprint(snap, nodes, t, n) ==
    IF t \in DOMAIN snap[n].prints THEN snap[n].prints[t] ELSE <<>>

\* The tables of which the nodes have more than one definition.
Drifted(snap, nodes) ==
    {t \in UNION {DOMAIN snap[n].prints : n \in nodes} :
        Cardinality({Fingerprint(snap, nodes, t, n) : n \in nodes}) > 1}

\* One line: status, and the nodes or the tables that it names, and how many it counts.
Line(check, st, nodes, tables, count) ==
    [check |-> check, status |-> st, nodes |-> nodes, tables |-> tables, count |-> count]
Each(check, drifted) == {Line(check, "BAD", {}, {t}, 1) : t \in drifted}
NotRead(check, nodes) == {Line(check, "WARN", {n}, {}, 0) : n \in nodes}
Identical(check) == {Line(check, "OK", {}, {}, 0)}

SysTableDrift ==
    LET drifted == Drifted(sys, SysAudited)
    IN NotRead("systables", Live \ SysAudited) \cup
       CASE Cardinality(SysAudited) < 2 -> {}
         [] Cardinality(SysAudited) >= 2 /\ drifted = {} -> Identical("systables")
         [] OTHER -> Each("systables", drifted)

\* The first MaxListed in the order of their names.
Listed(drifted) == {t \in drifted : Cardinality({u \in drifted : u < t}) < MaxListed}

\* One line in place of one for each.
Summary(drifted) == Line("schema", "BAD", {}, Listed(drifted), Cardinality(drifted))

SchemaDrift ==
    LET drifted == Drifted(app, AppAudited)
    IN NotRead("schema", Live \ AppAudited) \cup
       CASE Cardinality(AppAudited) < 2 -> {}
         [] Cardinality(AppAudited) >= 2 /\ drifted = {} -> Identical("schema")
         [] Cardinality(AppAudited) >= 2 /\ Cardinality(drifted) \in 1..MaxListed ->
                Each("schema", drifted)
         [] OTHER -> {Summary(drifted)}

\* What the other checks say is one line, so that there is a report in any case.
Audit ==
    /\ ~Ended
    /\ \A n \in Nodes : stage[n] \in {"read", "failed"}
    /\ findings' = SysTableDrift \cup SchemaDrift \cup {Line("coverage", "OK", {}, {}, 0)}
    /\ UNCHANGED <<servers, stage, sys, app, atStart>>

Done == Ended /\ UNCHANGED vars

Next ==
    \/ \E t \in AppTables : Alter(t)
    \/ \E n \in Nodes : Apply(n) \/ ReadSys(n) \/ ReadApp(n)
    \/ \E n \in Nodes, t \in Tables : AlterAlone(n, t)
    \/ \E n \in Nodes, i \in DOMAIN changes : Repeat(n, i)
    \/ Begin \/ Audit \/ Done

Spec == Init /\ [][Next]_vars

-----------------------------------------------------------------------------
(***************************************************************************)
(* Properties.                                                             *)
(***************************************************************************)
\* The state has its type; nothing is read before the pass or of a node that failed.
TypeOK ==
    /\ changes \in Seq([table : Tables, alone : BOOLEAN])
    /\ settled \in [Nodes -> SUBSET DOMAIN changes] /\ broken \subseteq DOMAIN changes
    /\ \A n \in Nodes, t \in Tables : Range(def[n][t]) \subseteq settled[n] \cup {0}
    /\ stage \in [Nodes -> {"idle", "sys", "app", "read", "failed"}]
    /\ \A n \in Nodes : /\ DOMAIN sys[n].prints \subseteq SysTables
                        /\ DOMAIN app[n].prints \subseteq AppTables
                        /\ app[n].read => stage[n] = "read"
                        /\ sys[n].read => stage[n] \in {"app", "read"}

\* The nodes whose answers of table t are compared.
Compared(t) == IF t \in SysTables THEN SysAudited ELSE AppAudited
Untouched(t) == \A n \in Nodes : def[n][t] = atStart[n][t]
CheckOf(t) == IF t \in SysTables THEN "systables" ELSE "schema"

\* A table on which the compared nodes differ from the first read to the last is in
\* the report: named, or counted by the line that stands for all of them.  Silence,
\* and "identical", mean the same definitions.
StandingDriftIsFound ==
    Ended =>
        /\ \A t \in Tables :
              Untouched(t) /\ (\E n, m \in Compared(t) : def[n][t] # def[m][t]) =>
                  \E f \in findings :
                      /\ f.check = CheckOf(t) /\ f.status = "BAD"
                      /\ t \in f.tables \/ f.count > Cardinality(f.tables)
        /\ \A f \in findings :
              f.count > 1 /\ (\A t \in AppTables : Untouched(t)) =>
                  f.count = Cardinality({t \in AppTables :
                      \E n, m \in Compared(t) : def[n][t] # def[m][t]})

\* A table is only named where something explains it: a replicated change of it failed
\* on a node, one was made on some nodes and not on others (or after another change
\* of it on some and before it on others), or one was on its way through the cluster
\* while the nodes were read, which looks the same.  A node that could not be read, or
\* has no application tables, explains nothing.
DriftIsExplained ==
    \A f \in findings : \A t \in f.tables :
        \E i \in DOMAIN changes :
            /\ changes[i].table = t
            /\ \/ changes[i].alone /\ (\E n \in Nodes : i \notin settled[n])
               \/ changes[i].alone /\ (\E j \in DOMAIN changes \ {i} : changes[j].table = t)
               \/ i \in broken
               \/ \E n \in Nodes : i \in Pending(n)
               \/ ~Untouched(t)
=============================================================================
