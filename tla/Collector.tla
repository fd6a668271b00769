------------------------------ MODULE Collector ------------------------------
(***************************************************************************)
(* One cluster's pass of collection: CollectAll reads every node in a      *)
(* goroutine of its own, each under a timeout of its own; AskBackup then   *)
(* asks the nodes one after the other; audit/coverage and backup/freshness *)
(* say what was, and was not, read (cluster/collect.go, audit.go).         *)
(*                                                                         *)
(* A server answers a query, refuses it, or keeps it for ever.  What an    *)
(* answer holds is not modelled, only that there was one.  A step of the   *)
(* program takes no time: the clock moves while every goroutine waits for  *)
(* a server.                                                               *)
(***************************************************************************)
EXTENDS Integers, Sequences, FiniteSets, SequencesExt

CONSTANTS
    N,             \* the number of nodes, asked in the order of the config
    Timeout,       \* what each node is given, in ticks
    SkipSysTables, \* --no-systables
    SkipSchema,    \* --no-schema
    Denials,       \* the sets of queries a server may deny the audit user
    ForeignSets,   \* the sets of nodes that may be standalone servers
    MaxFaults      \* bound: the queries that fail though they are allowed

Nodes == 1..N

ASSUME NAssumption == N \in Nat \ {0}
ASSUME TimeoutAssumption == Timeout \in Nat \ {0}
ASSUME SkipAssumption == SkipSysTables \in BOOLEAN /\ SkipSchema \in BOOLEAN
ASSUME FaultsAssumption == MaxFaults \in Nat
ASSUME ForeignAssumption == ForeignSets \subseteq SUBSET Nodes

VARIABLES
    \* The servers.
    denied,    \* the queries each of them denies
    foreign,   \* the nodes without a wsrep provider
    faults,    \* the queries that failed so far though they are allowed
    \* The goroutines.
    at,        \* per node, the place of the outstanding query in Queries
    alive,     \* the nodes whose context was not cancelled
    left,      \* per node, the time its context has left
    local,     \* per node, the snapshot its goroutine builds
    snaps,     \* the result slice of CollectAll
    done,      \* the nodes in the done channel
    \* The main goroutine.
    pc,        \* "collect", "backup", "audit" or "end"
    received,  \* how many completions it has taken from the channel
    asking,    \* the node whose backup record it asks for
    backup,    \* what AskBackup returned
    coverage,  \* the audit/coverage finding, once made
    \* History, read by the properties only.
    spent,     \* the time the collection took
    hurt,      \* the nodes that failed a query or ran out of their own time
    refused    \* the nodes that gave no answer about the backup

servers == <<denied, foreign, faults>>
goroutines == <<at, local, snaps, done>>
history == <<spent, hurt, refused>>
vars == <<denied, foreign, faults, at, alive, left, local, snaps, done,
          pc, received, asking, backup, coverage, spent, hurt, refused>>

-----------------------------------------------------------------------------
\* Reads that are sent unless an option skips them.
Unless(skip, reads) == IF skip THEN <<>> ELSE reads

\* The queries of Collect, in the order it sends them.
Queries ==
    <<"Ping", "Clock", "Status", "Vars">>
        \o Unless(SkipSysTables, <<"SysTables">>)
        \o Unless(SkipSchema, <<"AppTables", "TablesNoPK", "TablesNonInnoDB", "DataBytes">>)
        \o <<"Replicas", "ReplicaHosts", "Transactions">>
        \o Unless(SkipSchema, <<"Cascades">>)
        \o <<"Membership">>

\* Without these a node is not read; without any other it is.
Mandatory == {"Ping", "Status", "Vars"}

Finished == Len(Queries) + 1

NoSnap == [node |-> 0, err |-> FALSE, got |-> {}]
NoBackup == [made |-> FALSE, node |-> 0, kind |-> "error"]
NoCoverage == [made |-> FALSE, gaps |-> {}]

Init ==
    /\ denied \in [Nodes -> Denials]
    /\ foreign \in ForeignSets
    /\ faults = 0
    /\ at = [n \in Nodes |-> 1]
    /\ alive = Nodes
    /\ left = [n \in Nodes |-> Timeout]
    /\ local = [n \in Nodes |-> [NoSnap EXCEPT !.node = n]]
    /\ snaps = [n \in Nodes |-> NoSnap]
    /\ done = <<>>
    /\ pc = "collect"
    /\ received = 0
    /\ asking = 0
    /\ backup = NoBackup
    /\ coverage = NoCoverage
    /\ spent = 0
    /\ hurt = {}
    /\ refused = {}

-----------------------------------------------------------------------------
\* Mutant of Waiting: the nodes are read one after the other.
WaitingInTurn == CASE pc = "collect" -> {n \in Nodes : /\ at[n] < Finished
                                                      /\ \A m \in 1..(n - 1) : at[m] = Finished}
                   [] pc = "backup"  -> {asking}
                   [] OTHER          -> {}

\* The nodes a goroutine waits for: those it reads, then the one it asks.
Waiting == CASE pc = "collect" -> {n \in Nodes : at[n] < Finished}
             [] pc = "backup"  -> {asking}
             [] OTHER          -> {}

\* A goroutine has something to do: the clock stands still.
Busy ==
    \/ \E n \in Waiting : n \notin alive \/ left[n] = 0
    \/ pc = "collect" /\ (Waiting = {} \/ done # <<>>
                            \/ \E n \in Nodes : at[n] = Finished /\ snaps[n] = NoSnap)
    \/ pc = "audit"

Tick ==
    /\ Waiting # {}
    /\ ~Busy
    /\ left' = [n \in Nodes |-> IF n \in Waiting THEN left[n] - 1 ELSE left[n]]
    /\ spent' = IF pc = "collect" THEN spent + 1 ELSE spent
    /\ UNCHANGED <<servers, goroutines, alive, pc, received, asking, backup, coverage,
                   hurt, refused>>

\* Mutant of Expire: only Collect sets a timeout.
ExpireCollect(n) ==
    /\ n \in Waiting \cap alive
    /\ pc = "collect"
    /\ left[n] = 0
    /\ alive' = alive \ {n}
    /\ hurt' = hurt \cup {n}
    /\ UNCHANGED <<servers, goroutines, left, pc, received, asking, backup, coverage,
                   spent, refused>>

\* The timeout of a node runs out: whatever is sent to it fails from now on.
Expire(n) ==
    /\ n \in Waiting \cap alive
    /\ left[n] = 0
    /\ alive' = alive \ {n}
    /\ hurt' = hurt \cup {n}
    /\ UNCHANGED <<servers, goroutines, left, pc, received, asking, backup, coverage,
                   spent, refused>>

-----------------------------------------------------------------------------
(***************************************************************************)
(* Collect.  The goroutine of node n has sent the query at[n].             *)
(***************************************************************************)
Outstanding(n) == pc = "collect" /\ at[n] < Finished

\* The query is answered, and its answer goes into the snapshot.
Answered(n) ==
    /\ Outstanding(n)
    /\ n \in alive
    /\ Queries[at[n]] \notin denied[n]
    /\ local' = [local EXCEPT ![n].got = @ \cup {Queries[at[n]]}]
    /\ at' = [at EXCEPT ![n] = @ + 1]
    /\ UNCHANGED <<servers, alive, left, snaps, done, pc, received, asking, backup,
                   coverage, history>>

\* Mutant of Failed: any query that fails is the end of the node.
FailedEnds(n) ==
    /\ local' = [local EXCEPT ![n].err = TRUE]
    /\ at' = [at EXCEPT ![n] = Finished]
    /\ UNCHANGED <<alive, left, snaps, done, pc, received, asking, backup, coverage,
                   spent, refused>>

\* A query failed: the node is not read, or only this part of it is not.
Failed(n) ==
    /\ IF Queries[at[n]] \in Mandatory
       THEN /\ local' = [local EXCEPT ![n].err = TRUE]
            /\ at' = [at EXCEPT ![n] = Finished]
       ELSE /\ at' = [at EXCEPT ![n] = @ + 1]
            /\ UNCHANGED local
    /\ UNCHANGED <<alive, left, snaps, done, pc, received, asking, backup, coverage,
                   spent, refused>>

\* The server denies the query.
Denied(n) ==
    /\ Outstanding(n)
    /\ Queries[at[n]] \in denied[n]
    /\ Failed(n)
    /\ hurt' = hurt \cup {n}
    /\ UNCHANGED servers

\* The connection breaks, or the DSN does not even parse.
Fault(n) ==
    /\ Outstanding(n)
    /\ faults < MaxFaults
    /\ faults' = faults + 1
    /\ Failed(n)
    /\ hurt' = hurt \cup {n}
    /\ UNCHANGED <<denied, foreign>>

\* The context is cancelled: the outstanding query fails at once.
Cancelled(n) ==
    /\ Outstanding(n)
    /\ n \notin alive
    /\ Failed(n)
    /\ UNCHANGED <<servers, hurt>>

\* The goroutine writes its element of the slice, and is done.
Deliver(n) ==
    /\ pc = "collect"
    /\ at[n] = Finished
    /\ snaps[n] = NoSnap
    /\ snaps' = [snaps EXCEPT ![n] = local[n]]
    /\ done' = Append(done, n)
    /\ UNCHANGED <<servers, at, alive, left, local, pc, received, asking, backup,
                   coverage, history>>

\* CollectAll takes one completion.
Receive ==
    /\ pc = "collect"
    /\ done # <<>>
    /\ done' = Tail(done)
    /\ received' = received + 1
    /\ UNCHANGED <<servers, at, alive, left, local, snaps, pc, asking, backup, coverage, history>>

\* Mutant of Awaited: the count starts at zero and stops one short.
AwaitedButOne == N - 1

\* How many completions CollectAll waits for.
Awaited == N

\* The contexts of the nodes from n on, fresh, for AskBackup.
Ask(n) ==
    /\ asking' = n
    /\ alive' = Nodes
    /\ left' = [m \in Nodes |-> Timeout]

\* CollectAll returns; the backup record is asked for, where one was declared.
Return ==
    /\ pc = "collect"
    /\ received = Awaited
    /\ \/ pc' = "backup" /\ Ask(1)
       \/ pc' = "audit" /\ UNCHANGED <<asking, alive, left>>
    /\ UNCHANGED <<servers, goroutines, received, backup, coverage, history>>

-----------------------------------------------------------------------------
(***************************************************************************)
(* AskBackup.  The first node whose answer is no error has the last word,  *)
(* even where its answer is that nothing was recorded.  (Whose clock the   *)
(* age is measured against, and how it is graded, is not modelled here.)   *)
(***************************************************************************)
BackupKinds == {"dated", "none"}

AskedBackup ==
    /\ pc = "backup"
    /\ asking \in alive
    /\ \E kind \in BackupKinds : backup' = [made |-> TRUE, node |-> asking, kind |-> kind]
    /\ pc' = "audit"
    /\ UNCHANGED <<servers, goroutines, alive, left, received, asking, coverage, history>>

\* Mutant of BackupFailed: the loop ends with the node that failed.
BackupFailedStops ==
    /\ backup' = [made |-> TRUE, node |-> asking, kind |-> "error"]
    /\ pc' = "audit"
    /\ UNCHANGED <<asking, alive, left>>

\* Mutant of BackupFailed: one node too many is asked.
BackupFailedBeyond ==
    /\ backup' = [made |-> TRUE, node |-> asking, kind |-> "error"]
    /\ IF asking <= N THEN Ask(asking + 1) /\ UNCHANGED pc
                      ELSE pc' = "audit" /\ UNCHANGED <<asking, alive, left>>

\* The node gave no answer: the next one is asked, if there is one.
BackupFailed ==
    /\ backup' = [made |-> TRUE, node |-> asking, kind |-> "error"]
    /\ IF asking < N THEN Ask(asking + 1) /\ UNCHANGED pc
                     ELSE pc' = "audit" /\ UNCHANGED <<asking, alive, left>>

\* The backup query fails: the node is down, denies it, or answers no time.
RefusedBackup ==
    /\ pc = "backup"
    /\ BackupFailed
    /\ refused' = refused \cup {asking}
    /\ UNCHANGED <<servers, goroutines, received, coverage, spent, hurt>>

-----------------------------------------------------------------------------
Read == {n \in Nodes : ~snaps[n].err}

\* The nodes the audit goes on with: read, and running Galera.
Live == Read \ foreign

\* Mutant of GapsOf: a node the tool has no answer from is one with nothing to say.
GapsOfLive ==
    {gap \in {"SysTables", "AppTables", "Clock", "DataBytes"} \X Live :
        gap[1] \notin snaps[gap[2]].got}

(***************************************************************************)
(* The gaps of access that coverage names: whole nodes, and parts of the   *)
(* nodes that are live.  Replicas and replica hosts are one part.          *)
(***************************************************************************)
GapsOf ==
    {<<"node", n>> : n \in Nodes \ Read}
    \cup {gap \in {"SysTables", "AppTables", "Clock", "DataBytes"} \X Live :
             gap[1] \notin snaps[gap[2]].got}
    \cup {<<"replication", n>> : n \in {m \in Live :
             snaps[m].got \cap {"Replicas", "ReplicaHosts"} = {}}}

(***************************************************************************)
(* Run.  Where no node is left to audit there is no coverage line, but an  *)
(* ERROR that says so.                                                     *)
(***************************************************************************)
Audit ==
    /\ pc = "audit"
    /\ coverage' = [made |-> Live # {}, gaps |-> IF Live # {} THEN GapsOf ELSE {}]
    /\ pc' = "end"
    /\ UNCHANGED <<servers, goroutines, alive, left, received, asking, backup, history>>

Terminating == pc = "end" /\ UNCHANGED vars

Next ==
    \/ Tick
    \/ \E n \in Nodes : \/ Expire(n)
                        \/ Answered(n)
                        \/ Denied(n)
                        \/ Fault(n)
                        \/ Cancelled(n)
                        \/ Deliver(n)
    \/ Receive
    \/ Return
    \/ AskedBackup
    \/ RefusedBackup
    \/ Audit
    \/ Terminating

(***************************************************************************)
(* The clock, the timers and the goroutines go on.  Nothing is assumed of  *)
(* the servers: no query ever has to be answered, or denied.               *)
(***************************************************************************)
Fairness ==
    /\ WF_vars(Tick)
    /\ \A n \in Nodes : /\ WF_vars(Expire(n))
                        /\ WF_vars(Cancelled(n))
                        /\ WF_vars(Deliver(n))
    /\ WF_vars(Receive)
    /\ WF_vars(Return)
    /\ WF_vars(asking \notin alive /\ RefusedBackup)
    /\ WF_vars(Audit)

Spec == Init /\ [][Next]_vars /\ Fairness

-----------------------------------------------------------------------------
IsSnap(r) == r.node \in 0..N /\ r.err \in BOOLEAN /\ r.got \subseteq Range(Queries)

TypeOK ==
    /\ foreign \subseteq Nodes /\ faults \in 0..MaxFaults
    /\ at \in [Nodes -> 1..Finished]
    /\ alive \subseteq Nodes
    /\ left \in [Nodes -> 0..Timeout]
    /\ \A n \in Nodes : IsSnap(local[n]) /\ IsSnap(snaps[n])
    /\ Range(done) \subseteq Nodes
    /\ pc \in {"collect", "backup", "audit", "end"}
    /\ received \in 0..N /\ asking \in 0..N
    /\ backup.node \in 0..N /\ backup.kind \in BackupKinds \cup {"error"}
    /\ coverage.made \in BOOLEAN
    /\ hurt \subseteq Nodes /\ refused \subseteq Nodes

-----------------------------------------------------------------------------
(***************************************************************************)
(* What the audit goes on with is complete and in order: no goroutine is   *)
(* left that could still write to the slice, and the place of a node in it *)
(* is its place in the configuration (CollectAll: "the results keep the    *)
(* input order").  And a node is its own: whatever the others do, hang or  *)
(* refuse, one that answered every query within its own time is read in    *)
(* full (Collector: "Timeout bounds each node, not the whole run").        *)
(***************************************************************************)
AllHere ==
    pc # "collect" =>
        \A n \in Nodes :
            /\ snaps[n].node = n /\ snaps[n] = local[n] /\ at[n] = Finished
            /\ n \notin hurt => ~snaps[n].err /\ snaps[n].got = Range(Queries)

(***************************************************************************)
(* However many nodes hang, the collection takes no longer than one of     *)
(* them is given (Collector: "one unreachable node must not decide how     *)
(* long the audit takes").                                                 *)
(***************************************************************************)
OnTime == spent <= Timeout

(***************************************************************************)
(* A missing grant does not throw away the status that was read: a node is *)
(* given up only for a query it cannot do without.                         *)
(***************************************************************************)
PartialIsKept ==
    \A n \in Nodes : snaps[n].err => ~(Mandatory \subseteq snaps[n].got)

(***************************************************************************)
(* A clean coverage line is one where every node was read and gave what    *)
(* docs/checks.md lists (the clock and what the information_schema grant   *)
(* is for), whether it was a denial, a fault or the timeout that took it;  *)
(* and a gap is named only of a node that kept something back.             *)
(***************************************************************************)
CoverageHonest ==
    coverage.made =>
        /\ coverage.gaps = {} =>
              /\ \A n \in Nodes : ~snaps[n].err
              /\ \A n \in Nodes \ foreign :
                    {"Clock", "SysTables", "AppTables", "DataBytes"} \subseteq snaps[n].got
        /\ (~SkipSysTables /\ ~SkipSchema) => \A gap \in coverage.gaps : gap[2] \in hurt

(***************************************************************************)
(* The backup record comes from the first node that answers: all those     *)
(* before it were asked and gave none, and it takes all of them to make    *)
(* the answer an error.                                                    *)
(***************************************************************************)
BackupFromFirst ==
    (backup.made /\ pc \in {"audit", "end"}) =>
        /\ refused = IF backup.kind = "error" THEN Nodes ELSE 1..(backup.node - 1)

(***************************************************************************)
(* The pass comes to its end, though no server need ever answer.           *)
(***************************************************************************)
Returns == <>(pc = "end")
=============================================================================
