----------------------------- MODULE Transitions -----------------------------
(***************************************************************************)
(* The verdicts of successive runs, and what each run says has moved: the  *)
(* audit/changes line (audit.go changes, carry), the lines of a watch      *)
(* (output.go Changed, Statuses) and the order of a pass in main.go        *)
(* (audit every cluster, save, then print).                                *)
(*                                                                         *)
(* A finding is its key (check@target) and its status.  The clusters get   *)
(* better and worse while the tool runs; one key may carry several         *)
(* findings of a report, as repl/async-in does with two replication links  *)
(* on a node.  What the checks grade is not modelled here: health is what  *)
(* they would find.                                                        *)
(***************************************************************************)
EXTENDS Integers, Sequences, FiniteSets, Functions

CONSTANTS
    Clusters,   \* the configured clusters, numbered in the order of their names
    PathOf,     \* the name of each cluster, as a path
    AuditKeys,  \* the keys of the findings of audit.Run
    ProxyKeys,  \* the keys of the findings of proxysql.Audit
    VerdictsOf, \* per key, the sequences of statuses a report may carry under it
    MaxPass,    \* bounds: the passes of all processes together
    MaxShift    \*   and the changes in the health of the clusters

Keys == AuditKeys \cup ProxyKeys

Statuses4 == {"OK", "WARN", "BAD", "ERROR"}

ASSUME KeysAssumption ==
    /\ Keys \subseteq STRING /\ AuditKeys \cap ProxyKeys = {}
    /\ \A k \in Keys : VerdictsOf[k] # {} /\ VerdictsOf[k] \subseteq Seq(Statuses4)

\* A name has a segment.
ASSUME PathsAssumption == \A c \in Clusters : PathOf[c] \in Seq(STRING) \ {<<>>}

(***************************************************************************)
(* No cluster's name is another one's and a "/": the code asks for no such *)
(* thing, and where it fails a cluster is told of the other's findings.    *)
(***************************************************************************)
ASSUME PrefixAssumption ==
    \A c, d \in Clusters :
        /\ Len(PathOf[c]) <= Len(PathOf[d])
        /\ SubSeq(PathOf[d], 1, Len(PathOf[c])) = PathOf[c]
        => c = d

Cache == INSTANCE StateCache WITH Counters <- {}

VARIABLES
    health,     \* per cluster and key, what the checks would find now
    file,       \* the verdicts in the state file
    \* The process.
    pc,         \* "down", "audit", "print" or "wait" (for the next tick)
    watching,   \* --watch was given
    left,       \* the clusters this pass has not audited yet
    prev,       \* the verdicts this pass compares with
    merged,     \* the verdicts this pass will persist
    reports,    \* per cluster, the findings of this pass
    changes,    \* per cluster, what its audit/changes line names
    baseline,   \* a watch has not printed its first report yet
    statuses,   \* what it carries from one tick to the next
    printed,    \* the lines of the last print that say what moved
    \* History, read by the properties only.
    pass,       \* the number of this pass over all processes
    shifts,     \* how often the health of a cluster has changed
    compared,   \* the reports that prev was made of
    filed,      \* the reports that the file was made of
    ticked,     \* the reports of the previous tick of this watch
    told        \* what a reader of this watch knows, per key

reporting == <<reports, changes, printed>>
history == <<pass, compared, filed, ticked, told>>
vars == <<health, file, pc, watching, left, prev, merged, reports, changes,
          baseline, statuses, printed, pass, shifts, compared, filed, ticked, told>>

-----------------------------------------------------------------------------
Severity(st) == CASE st = "OK" -> 0 [] st = "WARN" -> 1
                  [] st = "BAD" -> 2 [] st = "ERROR" -> 3

\* A report: per key, the statuses of its findings in the order they were added.
Silence == [k \in Keys |-> <<>>]
Quiet   == [c \in Clusters |-> Silence]

\* How the file, the watch and its reader spell a key of cluster c.
FullKey(c, k) == Cache!FileKey(PathOf[c], <<k>>)
FullKeys == {FullKey(c, k) : c \in Clusters, k \in Keys}

NoChanges == [c \in Clusters |-> [made |-> FALSE, named |-> Cache!EmptyMap]]

NoVerdicts == [some |-> FALSE, map |-> Cache!EmptyMap]

Init ==
    /\ health \in [Clusters -> {h \in [Keys -> UNION {VerdictsOf[k] : k \in Keys}] :
                                  \A k \in Keys : h[k] \in VerdictsOf[k]}]
    /\ file = NoVerdicts
    /\ pc = "down"
    /\ watching = FALSE
    /\ left = {}
    /\ prev = NoVerdicts
    /\ merged = Cache!EmptyMap
    /\ reports = Quiet
    /\ changes = NoChanges
    /\ baseline = TRUE
    /\ statuses = Cache!EmptyMap
    /\ printed = {}
    /\ pass = 0
    /\ shifts = 0
    /\ compared = Quiet
    /\ filed = Quiet
    /\ ticked = Quiet
    /\ told = Cache!EmptyMap

\* A cluster gets better or worse under one key.
Shift(c, k) ==
    /\ shifts < MaxShift
    /\ \E v \in VerdictsOf[k] \ {health[c][k]} : health' = [health EXCEPT ![c][k] = v]
    /\ shifts' = shifts + 1
    /\ UNCHANGED <<file, pc, watching, left, prev, merged, baseline, statuses, reporting,
                   history>>

\* Somebody deletes the state file.
LoseFile ==
    /\ file' = NoVerdicts
    /\ filed' = Quiet
    /\ UNCHANGED <<health, pc, watching, left, prev, merged, baseline, statuses, reporting,
                   pass, shifts, compared, ticked, told>>

-----------------------------------------------------------------------------
\* Mutant of Carry: only what is wrong is carried.
CarryTrouble(report) ==
    LET kept == {k \in AuditKeys : report[k] # <<>> /\ report[k][Len(report[k])] # "OK"}
    IN  [path \in {<<k>> : k \in kept} |-> report[path[1]][Len(report[path[1]])]]

\* The findings that the state of one cluster carries: those of audit.Run, the
\* last one added under a key, and never the transition summary itself.
Carry(report) ==
    LET kept == {k \in AuditKeys : report[k] # <<>>}
    IN  [path \in {<<k>> : k \in kept} |-> report[path[1]][Len(report[path[1]])]]

\* Which way a finding moved that both runs made.
Direction(before, now) ==
    CASE Severity(now) > Severity(before) -> "got worse"
      [] now = "OK" -> "cleared"
      [] OTHER -> "improved"

\* Mutant of Moved: a finding that is gone is not walked.
MovedHere(before, now) ==
    [key \in {k \in DOMAIN now :
                 IF k \in DOMAIN before THEN before[k] # now[k] ELSE now[k] # "OK"}
     |-> IF key \in DOMAIN before THEN "moved" ELSE "appeared"]

(***************************************************************************)
(* What moved between two runs: appeared, got worse, improved or cleared.  *)
(* An OK that is new, or gone, is not news.                                *)
(***************************************************************************)
Moved(before, now) ==
    LET appeared == {k \in DOMAIN now \ DOMAIN before : now[k] # "OK"}
        moved    == {k \in DOMAIN now \cap DOMAIN before : now[k] # before[k]}
        gone     == {k \in DOMAIN before \ DOMAIN now : before[k] # "OK"}
    IN  [k \in appeared \cup moved \cup gone |->
            CASE k \in appeared -> "appeared"
              [] k \in gone     -> "cleared"
              [] k \in moved    -> Direction(before[k], now[k])]

(***************************************************************************)
(* changes: no line without a baseline of this cluster.                    *)
(***************************************************************************)
ChangesOf(c, report) ==
    LET before == Cache!Scope(prev.map, PathOf[c], Cache!Under(prev.map, PathOf[c]))
    IN  IF ~prev.some \/ DOMAIN before = {}
        THEN [made |-> FALSE, named |-> Cache!EmptyMap]
        ELSE [made |-> TRUE, named |-> Moved(before, Carry(report))]

-----------------------------------------------------------------------------
\* The start of a pass: nothing merged, nothing reported.
BeginPass ==
    /\ pc' = "audit"
    /\ left' = Clusters
    /\ merged' = Cache!EmptyMap
    /\ reports' = Quiet
    /\ changes' = NoChanges
    /\ printed' = {}
    /\ pass' = pass + 1

\* A process starts; where it has no --state it has no baseline.
Start(watch) ==
    /\ pc = "down"
    /\ pass < MaxPass
    /\ BeginPass
    /\ watching' = watch
    /\ baseline' = TRUE
    /\ statuses' = Cache!EmptyMap
    /\ \/ prev' = file /\ compared' = filed
       \/ prev' = NoVerdicts /\ compared' = Quiet
    /\ ticked' = Quiet
    /\ told' = Cache!EmptyMap
    /\ UNCHANGED <<health, file, shifts, filed>>

(***************************************************************************)
(* One cluster is read and audited, and its verdicts are folded into those *)
(* to persist.  The proxy's findings are added to the report after that.   *)
(***************************************************************************)
Audit(c) ==
    /\ pc = "audit"
    /\ c \in left
    /\ \A d \in left : c <= d
    /\ reports' = [reports EXCEPT ![c] = health[c]]
    /\ changes' = [changes EXCEPT ![c] = ChangesOf(c, health[c])]
    /\ merged' = Cache!Merge(merged, PathOf[c], Carry(health[c]))
    /\ left' = left \ {c}
    /\ UNCHANGED <<health, file, pc, watching, prev, baseline, statuses, printed,
                   shifts, history>>

\* The state is saved, or that fails and is only logged; and it is held.
Save ==
    /\ pc = "audit"
    /\ left = {}
    /\ \/ file' = [some |-> TRUE, map |-> merged] /\ filed' = reports
       \/ UNCHANGED <<file, filed>>
    /\ prev' = [some |-> TRUE, map |-> merged]
    /\ compared' = reports
    /\ pc' = "print"
    /\ UNCHANGED <<health, watching, left, merged, reports, changes, baseline, statuses, printed,
                   pass, shifts, ticked, told>>

\* The status that stands last in a report, sorted worst first.
Least(seq) == CHOOSE st \in {seq[i] : i \in DOMAIN seq} :
                 \A i \in DOMAIN seq : Severity(st) <= Severity(seq[i])

\* Mutant of Statuses: the clusters share their keys.
StatusesUnscoped(reps) ==
    LET here == {k \in Keys : \E c \in Clusters : reps[c][k] # <<>>}
    IN  [path \in {FullKey(c, k) : c \in Clusters, k \in here} |->
            LET p == CHOOSE p \in Clusters \X here :
                        path[Len(path)] = p[2] /\ reps[p[1]][p[2]] # <<>>
            IN  Least(reps[p[1]][p[2]])]

\* What a watch carries from one tick to the next: one status per key.
Statuses(reps) ==
    LET here == {p \in Clusters \X Keys : reps[p[1]][p[2]] # <<>>}
    IN  [path \in {FullKey(p[1], p[2]) : p \in here} |->
            LET p == CHOOSE p \in here : path = FullKey(p[1], p[2])
            IN  Least(reps[p[1]][p[2]])]

\* The findings of a set of reports, each a line.
Lines(reps) ==
    UNION {{[key |-> FullKey(p[1], p[2]), status |-> st] : st \in Range(reps[p[1]][p[2]])} :
             p \in Clusters \X Keys}

\* Mutant of Changed: only the findings of this tick are walked.
ChangedHere(reps, before) ==
    {line \in Lines(reps) : ~(line.key \in DOMAIN before /\ before[line.key] = line.status)}

(***************************************************************************)
(* The lines of a tick: every finding whose status is not the one carried  *)
(* under its key, and every key that is gone and was not OK.               *)
(***************************************************************************)
Changed(reps, before) ==
    LET moved == {line \in Lines(reps) :
                     ~(line.key \in DOMAIN before /\ before[line.key] = line.status)}
        gone  == {key \in DOMAIN before \ DOMAIN Statuses(reps) : before[key] # "OK"}
    IN  moved \cup {[key |-> key, status |-> "gone"] : key \in gone}

\* What a reader knows after some more lines: the last word on each key.
Heard(known, lines) ==
    LET said == {line.key : line \in lines}
    IN  [key \in DOMAIN known \cup said |->
            IF key \in said THEN (CHOOSE line \in lines : line.key = key).status
                            ELSE known[key]]

\* The process is gone, and what it held in memory with it.
GoDown ==
    /\ pc' = "down"
    /\ watching' = FALSE
    /\ left' = {}
    /\ prev' = NoVerdicts
    /\ merged' = Cache!EmptyMap
    /\ reports' = Quiet
    /\ changes' = NoChanges
    /\ baseline' = TRUE
    /\ statuses' = Cache!EmptyMap
    /\ printed' = {}
    /\ compared' = Quiet
    /\ ticked' = Quiet
    /\ told' = Cache!EmptyMap

(***************************************************************************)
(* The reports are printed: in full, or, after the first tick of a watch,  *)
(* only what moved.                                                        *)
(***************************************************************************)
Output ==
    /\ pc = "print"
    /\ \/ ~watching /\ GoDown
       \/ /\ watching
          /\ LET lines == IF baseline THEN Lines(reports) ELSE Changed(reports, statuses)
             IN  told' = Heard(told, lines) /\ printed' = IF baseline THEN {} ELSE lines
          /\ baseline' = FALSE
          /\ statuses' = Statuses(reports)
          /\ pc' = "wait"
          /\ UNCHANGED <<watching, left, prev, merged, reports, changes, compared, ticked>>
    /\ UNCHANGED <<health, file, pass, shifts, filed>>

\* Printing fails, and the process exits with 2.
FailOutput ==
    /\ pc = "print"
    /\ GoDown
    /\ UNCHANGED <<health, file, pass, shifts, filed>>

\* The next tick of a watch.
NextPass ==
    /\ pc = "wait"
    /\ pass < MaxPass
    /\ BeginPass
    /\ ticked' = reports
    /\ UNCHANGED <<health, file, watching, prev, baseline, statuses, shifts, compared,
                   filed, told>>

\* The process is killed, at any step.
Kill ==
    /\ pc # "down"
    /\ GoDown
    /\ UNCHANGED <<health, file, pass, shifts, filed>>

Next ==
    \/ \E c \in Clusters, k \in Keys : Shift(c, k)
    \/ LoseFile
    \/ \E watch \in BOOLEAN : Start(watch)
    \/ \E c \in Clusters : Audit(c)
    \/ Save
    \/ Output
    \/ FailOutput
    \/ NextPass
    \/ Kill

Spec == Init /\ [][Next]_vars

-----------------------------------------------------------------------------
IsReport(r) == \A k \in Keys : r[k] \in VerdictsOf[k] \cup {<<>>}

IsMap(m) == \A key \in DOMAIN m : key \in FullKeys /\ m[key] \in Statuses4

TypeOK ==
    /\ \A c \in Clusters : /\ \A k \in Keys : health[c][k] \in VerdictsOf[k]
                           /\ IsReport(reports[c])
                           /\ IsReport(compared[c])
                           /\ IsReport(filed[c])
                           /\ IsReport(ticked[c])
    /\ IsMap(file.map) /\ IsMap(prev.map) /\ IsMap(merged) /\ IsMap(statuses)
    /\ pc \in {"down", "audit", "print", "wait"}
    /\ watching \in BOOLEAN /\ baseline \in BOOLEAN
    /\ left \subseteq Clusters
    /\ \A line \in printed : line.key \in FullKeys /\ line.status \in Statuses4 \cup {"gone"}
    /\ DOMAIN told \subseteq FullKeys

-----------------------------------------------------------------------------
\* What is wrong under a key of a report.
Trouble(report, k) == Range(report[k]) \ {"OK"}

(***************************************************************************)
(* A watch hides nothing: whoever read its first report and every line     *)
(* since knows the status of every key of the last tick, and knows of      *)
(* nothing that is not there any more (output.go Changed: "Walking only    *)
(* the current findings misses it").                                       *)
(***************************************************************************)
WatcherKnows ==
    pc = "wait" =>
        \A c \in Clusters, k \in Keys :
            LET key  == FullKey(c, k)
                word == IF key \in DOMAIN told THEN told[key] ELSE "gone"
            IN  IF reports[c][k] = <<>> THEN word \in {"OK", "gone"}
                                        ELSE word \in Range(reports[c][k])

(***************************************************************************)
(* "A tick that changed nothing prints nothing" (docs/usage.md).           *)
(***************************************************************************)
QuietTick == (pc = "wait" /\ reports = ticked) => printed = {}

\* How bad it is under a key of a report.
WorstOf(report, k) ==
    CHOOSE n \in {Severity(st) : st \in Range(report[k]) \cup {"OK"}} :
        \A st \in Range(report[k]) : Severity(st) <= n

(***************************************************************************)
(* The transition summary of a run names a check of the audit exactly when *)
(* what is wrong under it differs from the run whose state was the         *)
(* baseline, whichever process and whichever pass that was; and what it    *)
(* says got worse did.  (The findings of the proxy join the report later.) *)
(***************************************************************************)
ChangesAreTrue ==
    pc = "audit" =>
        \A c \in Clusters \ left : changes[c].made =>
            \A k \in AuditKeys :
                LET named == <<k>> \in DOMAIN changes[c].named
                IN  /\ named <=> Trouble(compared[c], k) # Trouble(reports[c], k)
                    /\ named => (changes[c].named[<<k>>] \in {"got worse", "appeared"} <=>
                                    WorstOf(reports[c], k) > WorstOf(compared[c], k))
=============================================================================
