----------------------------- MODULE StateCache -----------------------------
(***************************************************************************)
(* internal/state/state.go: the previous run, and what may be read off it. *)
(*                                                                         *)
(* The module has no variables.  It gives the operators of the package:    *)
(* what one run remembers (New), how the runs of several clusters share    *)
(* one file (Merge and Scope) and when a counter has moved (Since).  Rates *)
(* uses them for the counters, Transitions for the verdicts.               *)
(*                                                                         *)
(* A string is abstracted to the path it spells: "compress/sg-01" is       *)
(* <<"compress", "sg-01">>, so that joining two names with "/" is \o and   *)
(* a name that itself holds a "/" is a path of two segments.               *)
(***************************************************************************)
EXTENDS Integers, Sequences

CONSTANT Counters  \* the wsrep totals carried between runs

\* The on-disk format this build reads and writes.
Version == 2

EmptyMap == [x \in {} |-> x]

(***************************************************************************)
(* A nil *State.  No file has version 0, so every question below answers   *)
(* "no baseline" for it, as the code's nil checks do.                      *)
(***************************************************************************)
NoState == [version |-> 0, nodes |-> EmptyMap]

-----------------------------------------------------------------------------
(***************************************************************************)
(* A Go time.Time: the wall clock and, where the time was taken by this    *)
(* process, the monotonic clock too (0: none).  The difference of two is   *)
(* by the monotonic clock where both have it.                              *)
(***************************************************************************)
ZeroTime == [wall |-> 0, mono |-> 0]

Elapsed(from, to) == IF from.mono # 0 /\ to.mono # 0 THEN to.mono - from.mono
                                                    ELSE to.wall - from.wall

(***************************************************************************)
(* A Go map lookup: the zero value for a variable the server did not       *)
(* report.                                                                 *)
(***************************************************************************)
Reported(status, name) == IF name \in DOMAIN status THEN status[name] ELSE 0

(***************************************************************************)
(* The counters, uptime and boot identity of one node that was read.  seen *)
(* is a history field: it says what was true of the server when it was     *)
(* read, and no operator of this module looks at it.                       *)
(***************************************************************************)
NodeStateOf(snap, now) ==
    [at        |-> IF snap.at = ZeroTime THEN now ELSE snap.at,
     uptime    |-> Reported(snap.status, "uptime"),
     gcommUUID |-> Reported(snap.status, "gcomm_uuid"),
     counters  |-> [k \in Counters \cap DOMAIN snap.status |-> snap.status[k]],
     seen      |-> snap.seen]

\* The state to persist: a node that was not read leaves nothing behind.
New(snaps, now) ==
    [version |-> Version,
     nodes   |-> [n \in {m \in DOMAIN snaps : snaps[m].step = "read"} |->
                      NodeStateOf(snaps[n], now)]]

(***************************************************************************)
(* What the JSON file keeps of a state: everything but the monotonic       *)
(* readings, which mean nothing to another process.                        *)
(***************************************************************************)
Written(st) ==
    [st EXCEPT !.nodes = [key \in DOMAIN st.nodes |->
                             [st.nodes[key] EXCEPT !.at.mono = 0]]]

\* Mutant of FileKey: the entries of all clusters under the bare node name.
FileKeyUnscoped(cluster, name) == name

\* How one cluster's entry is spelled in a file that holds several clusters.
FileKey(cluster, name) == cluster \o name

\* Mutant of Merge: the entries of a cluster go in under their bare names.
MergeBare(map, cluster, from) ==
    [k \in DOMAIN map \cup DOMAIN from |-> IF k \in DOMAIN from THEN from[k] ELSE map[k]]

(***************************************************************************)
(* Merge folds the entries of one cluster into the file's, under their     *)
(* full key; an entry already there under that key is replaced.            *)
(***************************************************************************)
Merge(map, cluster, from) ==
    [k \in DOMAIN map \cup {FileKey(cluster, n) : n \in DOMAIN from} |->
        IF \E n \in DOMAIN from : k = FileKey(cluster, n)
        THEN from[CHOOSE n \in DOMAIN from : k = FileKey(cluster, n)]
        ELSE map[k]]

(***************************************************************************)
(* The names that stand under a cluster's prefix, whoever put them there.  *)
(***************************************************************************)
Under(map, cluster) ==
    {SubSeq(k, Len(cluster) + 1, Len(k)) :
        k \in {p \in DOMAIN map : /\ Len(p) > Len(cluster)
                                 /\ SubSeq(p, 1, Len(cluster)) = cluster}}

(***************************************************************************)
(* Scope is one cluster's view of the file, restricted to the names the    *)
(* audit will ask about.                                                   *)
(***************************************************************************)
Scope(map, cluster, asked) ==
    [n \in {m \in asked : FileKey(cluster, m) \in DOMAIN map} |->
        map[FileKey(cluster, n)]]

-----------------------------------------------------------------------------
\* The uptime of the server shrank, and both readings reported one.
UptimeShrank(before, now) ==
    /\ before.uptime > 0
    /\ now.uptime > 0
    /\ now.uptime < before.uptime

\* Mutant of HasBaseline: a counter that went backwards is a movement too.
HasBaselineBackwards(prev, node, key, now) ==
    /\ prev.version = Version
    /\ node \in DOMAIN prev.nodes
    /\ key \in DOMAIN prev.nodes[node].counters
    /\ key \in DOMAIN now.counters
    /\ Elapsed(prev.nodes[node].at, now.at) > 0
    /\ ~UptimeShrank(prev.nodes[node], now)

(***************************************************************************)
(* The bool of Since: there is a usable baseline for key on node.  A       *)
(* counter that went backwards, an interval that is not positive and an    *)
(* uptime that shrank are each no baseline.                                *)
(***************************************************************************)
HasBaseline(prev, node, key, now) ==
    /\ prev.version = Version
    /\ node \in DOMAIN prev.nodes
    /\ key \in DOMAIN prev.nodes[node].counters
    /\ key \in DOMAIN now.counters
    /\ now.counters[key] >= prev.nodes[node].counters[key]
    /\ Elapsed(prev.nodes[node].at, now.at) > 0
    /\ ~UptimeShrank(prev.nodes[node], now)

\* Mutant of Since: the lifetime total is read as the movement.
SinceLifetime(prev, node, key, now) ==
    [value   |-> now.counters[key],
     elapsed |-> Elapsed(prev.nodes[node].at, now.at)]

\* The Delta of Since, meaningful where HasBaseline holds.
Since(prev, node, key, now) ==
    [value   |-> now.counters[key] - prev.nodes[node].counters[key],
     elapsed |-> Elapsed(prev.nodes[node].at, now.at)]
=============================================================================
