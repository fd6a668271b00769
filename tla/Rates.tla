-------------------------------- MODULE Rates --------------------------------
(***************************************************************************)
(* The counters of a set of clusters, read by successive runs of the       *)
(* auditor and graded over the interval between two of them.               *)
(*                                                                         *)
(* The servers run, work, restart and have their status flushed; the wall  *)
(* clock of the auditing host advances and is sometimes set back.  A       *)
(* process loads the state file, reads every node of its target clusters,  *)
(* grades each cluster against the baseline it loaded, saves what it read  *)
(* and exits, or (--watch) goes on to another pass with what it read held  *)
(* in memory.  It may die at any step.                                     *)
(*                                                                         *)
(* The verdicts of a run and their transitions are Transitions, the steps  *)
(* of one node's read are Collector, the steps of Save are StateFile.      *)
(***************************************************************************)
EXTENDS StateCache

CONSTANTS
    Clusters,   \* the configured clusters, numbered in the order of their names
    PathOf,     \* the name of each cluster, as a path
    NodesOf,    \* the node names of each cluster, as paths
    Reports,    \* the sets of status variables a server may report
    Sized,      \* the servers that tell the size of their gcache
    BootUptime, \* the uptime of a server that answers for the first time
    StepsWhile, \* bounds: what the process is at when the clock is set back,
    MaxClock,   \*   the wall clock,
    MaxMono,    \*   the monotonic clock,
    MaxUptime,  \*   a server's uptime,
    Works,      \*   the sets of counters one piece of a server's work moves,
    MaxTotal,   \*   the lifetime work a counter counts,
    MaxResets,  \*   the restarts and flushes of a server,
    MaxPass     \*   and the passes of all processes together

Servers == UNION {{c} \X NodesOf[c] : c \in Clusters}

KeyOf(s) == FileKey(PathOf[s[1]], s[2])

(***************************************************************************)
(* The configuration names every cluster once and every node of a cluster  *)
(* once, and no "/" in a name makes two servers share an entry of the file.*)
(***************************************************************************)
ASSUME ClusterAssumption == Clusters \subseteq Nat
ASSUME NamesAssumption ==
    \A s, t \in Servers : PathOf[s[1]] \o s[2] = PathOf[t[1]] \o t[2] => s = t
ASSUME BoundsAssumption ==
    /\ BootUptime \in Nat
    /\ MaxClock \in Nat
    /\ MaxMono \in Nat
    /\ MaxUptime \in Nat
    /\ MaxTotal \in Nat
    /\ MaxResets \in Nat
    /\ MaxPass \in Nat
ASSUME ReportsAssumption ==
    \A r \in Reports : r \subseteq Counters \cup {"uptime", "gcomm_uuid"}
ASSUME CountersAssumption ==
    "uptime" \notin Counters /\ "gcomm_uuid" \notin Counters

VARIABLES
    \* The world the auditor looks at.
    clock,      \* the wall clock of the auditing host
    mono,       \* its monotonic clock
    srv,        \* what each server would answer to SHOW GLOBAL STATUS
    file,       \* the state file
    \* The process.
    pc,         \* "down", "collect" or "wait" (for the next tick)
    watching,   \* --watch was given
    targets,    \* the clusters of this process
    left,       \* the targets this pass has not audited yet
    prev,       \* the baseline of this pass
    merged,     \* the state this pass will persist
    snaps,      \* one snapshot per server
    \* What the pass reported.
    graded,     \* the movements some check graded
    restarted,  \* the node/restarted findings
    \* History, read by the properties only.
    pass,       \* the number of this pass over all processes
    first,      \* the first pass of this process
    saved,      \* the pass whose state the file holds, 0 for none
    loaded,     \* the pass whose state this process loaded, 0 for none
    earlier     \* the snapshots of the previous pass of this process

world == <<clock, mono, srv>>
findings == <<graded, restarted>>
vars == <<clock, mono, srv, file, pc, watching, targets, left, prev, merged, snaps,
          graded, restarted, pass, first, saved, loaded, earlier>>

-----------------------------------------------------------------------------
\* What a server was when it was read.
Seen == [server : Servers, pass : Nat, boot : Nat, resets : Nat,
         total : [Counters -> Nat]]

NoSeen(s) == [server |-> s, pass |-> 0, boot |-> 0, resets |-> 0,
              total |-> [k \in Counters |-> 0]]

IdleSnap(s) == [step |-> "idle", at |-> ZeroTime, status |-> EmptyMap, seen |-> NoSeen(s)]
IdleSnaps == [s \in Servers |-> IdleSnap(s)]

EmptyState == [version |-> Version, nodes |-> EmptyMap]

(***************************************************************************)
(* A file that gives no baseline: it is missing, of another format, or     *)
(* does not parse (an error of Load, which main ignores with a message).   *)
(***************************************************************************)
NoFile == [kind |-> "none", state |-> NoState]

Init ==
    /\ clock = 1
    /\ mono = 1
    /\ srv = [s \in Servers |->
                 [boot |-> 1, uptime |-> 1, resets |-> 0,
                  counters |-> [k \in Counters |-> 0],
                  total    |-> [k \in Counters |-> 0]]]
    /\ file = NoFile
    /\ pc = "down"
    /\ watching = FALSE
    /\ targets = {}
    /\ left = {}
    /\ prev = NoState
    /\ merged = EmptyState
    /\ snaps = IdleSnaps
    /\ graded = {}
    /\ restarted = {}
    /\ pass = 0
    /\ first = 0
    /\ saved = 0
    /\ loaded = 0
    /\ earlier = IdleSnaps

-----------------------------------------------------------------------------
(***************************************************************************)
(* The world.  total and resets are history: what a server did in its      *)
(* life, and how often its counters were set to zero.                      *)
(***************************************************************************)
process == <<pc, watching, targets, left, prev, merged, snaps, findings,
             pass, first, loaded, earlier>>

\* A second passes.
Tick ==
    /\ clock < MaxClock
    /\ mono < MaxMono
    /\ \A s \in Servers : srv[s].uptime < MaxUptime
    /\ clock' = clock + 1
    /\ mono' = mono + 1
    /\ srv' = [s \in Servers |-> [srv[s] EXCEPT !.uptime = @ + 1]]
    /\ UNCHANGED <<file, saved, process>>

\* The wall clock of the auditing host is set back.
StepBack ==
    /\ pc \in StepsWhile
    /\ \E t \in 1..(clock - 1) : clock' = t
    /\ UNCHANGED <<mono, srv, file, saved, process>>

\* The server does something that some counters count.
Work(s, ks) ==
    /\ \A k \in ks : srv[s].total[k] < MaxTotal
    /\ srv' = [srv EXCEPT
          ![s].counters = [k \in Counters |-> IF k \in ks THEN @[k] + 1 ELSE @[k]],
          ![s].total    = [k \in Counters |-> IF k \in ks THEN @[k] + 1 ELSE @[k]]]
    /\ UNCHANGED <<clock, mono, file, saved, process>>

\* The server restarts: a new boot identity, and everything from zero.
Restart(s) ==
    /\ srv[s].resets < MaxResets
    /\ srv' = [srv EXCEPT ![s].boot = @ + 1,
                          ![s].uptime = BootUptime,
                          ![s].resets = @ + 1,
                          ![s].counters = [k \in Counters |-> 0]]
    /\ UNCHANGED <<clock, mono, file, saved, process>>

\* FLUSH STATUS: the counters from zero, in the same boot.
FlushStatus(s) ==
    /\ srv[s].resets < MaxResets
    /\ srv' = [srv EXCEPT ![s].resets = @ + 1,
                          ![s].counters = [k \in Counters |-> 0]]
    /\ UNCHANGED <<clock, mono, file, saved, process>>

\* Somebody deletes the state file, or damages it.
LoseFile ==
    /\ file' = NoFile
    /\ saved' = 0
    /\ UNCHANGED <<world, process>>

-----------------------------------------------------------------------------
(***************************************************************************)
(* Load: a missing file, another format and an error (which main ignores   *)
(* with a message) all leave the process without a baseline.               *)
(***************************************************************************)
Load(f) == IF f.kind = "state" THEN f.state ELSE NoState

\* The start of a pass: nothing merged, nothing read, nothing reported.
BeginPass(T) ==
    /\ pc' = "collect"
    /\ left' = T
    /\ merged' = EmptyState
    /\ snaps' = IdleSnaps
    /\ graded' = {}
    /\ restarted' = {}
    /\ pass' = pass + 1

(***************************************************************************)
(* A process starts over all the clusters or, with --cluster, over one. It *)
(* has no baseline where it was given no --state or may not read the file. *)
(***************************************************************************)
Start(T, watch) ==
    /\ pc = "down"
    /\ pass < MaxPass
    /\ BeginPass(T)
    /\ targets' = T
    /\ watching' = watch
    /\ first' = pass + 1
    /\ earlier' = IdleSnaps
    /\ \/ prev' = Load(file) /\ loaded' = saved
       \/ prev' = NoState /\ loaded' = 0
    /\ UNCHANGED <<world, file, saved>>

\* time.Now().
Now == [wall |-> clock, mono |-> mono]

\* The cluster whose nodes are being read: the first in name order.
Current(c) == c \in left /\ \A d \in left : c <= d

\* A node's read begins: the snapshot is stamped with this host's clocks.
Stamp(s) ==
    /\ pc = "collect"
    /\ Current(s[1])
    /\ snaps[s].step = "idle"
    /\ snaps' = [snaps EXCEPT ![s].step = "stamped", ![s].at = Now]
    /\ UNCHANGED <<world, file, pc, watching, targets, left, prev, merged,
                   findings, pass, first, saved, loaded, earlier>>

\* What a server answers about one status variable.
Answer(r, name) ==
    CASE name = "uptime"     -> r.uptime
      [] name = "gcomm_uuid" -> r.boot
      [] OTHER               -> r.counters[name]

\* SHOW GLOBAL STATUS answers, with the variables this server reports.
Fetch(s, reported) ==
    /\ pc = "collect"
    /\ snaps[s].step = "stamped"
    /\ snaps' = [snaps EXCEPT
          ![s].step   = "read",
          ![s].status = [name \in reported |-> Answer(srv[s], name)],
          ![s].seen   = [server |-> s, pass |-> pass, boot |-> srv[s].boot,
                         resets |-> srv[s].resets, total |-> srv[s].total]]
    /\ UNCHANGED <<world, file, pc, watching, targets, left, prev, merged,
                   findings, pass, first, saved, loaded, earlier>>

\* The node refuses, or its timeout runs out.
FailRead(s) ==
    /\ pc = "collect"
    /\ Current(s[1])
    /\ snaps[s].step \in {"idle", "stamped"}
    /\ snaps' = [snaps EXCEPT ![s] = [IdleSnap(s) EXCEPT !.step = "failed"]]
    /\ UNCHANGED <<world, file, pc, watching, targets, left, prev, merged,
                   findings, pass, first, saved, loaded, earlier>>

-----------------------------------------------------------------------------
\* One cluster's snapshots and its view of the baseline.
SnapsOf(c) == [n \in NodesOf[c] |-> snaps[<<c, n>>]]
BaselineOf(c) ==
    [version |-> prev.version, nodes |-> Scope(prev.nodes, PathOf[c], NodesOf[c])]

\* What a check reads off counter k of node n, and what was true at both reads.
Movement(c, base, now, check, n, k) ==
    [check |-> check, server |-> <<c, n>>, counter |-> k,
     delta |-> Since(base, n, k, now.nodes[n]),
     from  |-> base.nodes[n].seen,
     to    |-> now.nodes[n].seen]

\* The nodes on which counter k has a baseline.
Baselined(base, now, k) ==
    {n \in DOMAIN now.nodes : HasBaseline(base, n, k, now.nodes[n])}

\* The nodes on which counter k has a baseline, and has moved.
Moved(base, now, k) ==
    {n \in Baselined(base, now, k) : Since(base, n, k, now.nodes[n]).value > 0}

\* flowControl: every node with a baseline.
FlowControl(c, base, now) ==
    {Movement(c, base, now, "flow/paused", n, "wsrep_flow_control_paused_ns") :
        n \in Baselined(base, now, "wsrep_flow_control_paused_ns")}

\* The nodes certification grades: both baselines, and a writeset to fail.
Certified(base, now) ==
    Baselined(base, now, "wsrep_local_cert_failures") \cap Moved(base, now, "wsrep_replicated")

\* certification: the ratio of two movements.
Certification(c, base, now) ==
    {Movement(c, base, now, "repl/cert-failures", p[1], p[2]) :
        p \in Certified(base, now) \X {"wsrep_local_cert_failures", "wsrep_replicated"}}

\* Mutant of Writers: a node that was not read counts as one without a baseline.
WritersIfAllRead(c, base, now) ==
    {Movement(c, base, now, "repl/writers", n, "wsrep_replicated") :
        n \in {m \in NodesOf[c] : NodesOf[c] = Baselined(base, now, "wsrep_replicated")}}

(***************************************************************************)
(* writers: the shares of all the nodes that were read, or of none.  One   *)
(* node without a baseline leaves the whole cluster ungraded.              *)
(***************************************************************************)
Writers(c, base, now) ==
    {Movement(c, base, now, "repl/writers", n, "wsrep_replicated") :
        n \in {m \in DOMAIN now.nodes :
                 DOMAIN now.nodes = Baselined(base, now, "wsrep_replicated")}}

\* gcache: a size, and a rate that is not zero.
GCache(c, base, now) ==
    {Movement(c, base, now, "gcache/window", n, "wsrep_replicated_bytes") :
        n \in {m \in Moved(base, now, "wsrep_replicated_bytes") : <<c, m>> \in Sized}}

\* The movements that the counter checks grade.
GradedIn(c, base, now) ==
    FlowControl(c, base, now) \cup Certification(c, base, now)
        \cup Writers(c, base, now) \cup GCache(c, base, now)

\* Mutant of CameBack: an absent uuid is a different one.
CameBackAbsent(before, now) ==
    \/ before.gcommUUID # now.gcommUUID
    \/ UptimeShrank(before, now)

(***************************************************************************)
(* restarted: the boot identity changed, where both runs saw one, or the   *)
(* uptime shrank.                                                          *)
(***************************************************************************)
CameBack(before, now) ==
    \/ /\ before.gcommUUID # 0
       /\ now.gcommUUID # 0
       /\ before.gcommUUID # now.gcommUUID
    \/ UptimeShrank(before, now)

RestartedIn(c, base, now) ==
    {[server |-> <<c, n>>, from |-> base.nodes[n].seen, to |-> now.nodes[n].seen] :
        n \in {m \in DOMAIN now.nodes \cap DOMAIN base.nodes :
                 base.version = Version /\ CameBack(base.nodes[m], now.nodes[m])}}

\* One cluster is audited and folded into the state to persist.
Audit(c) ==
    /\ pc = "collect"
    /\ Current(c)
    /\ \A n \in NodesOf[c] : snaps[<<c, n>>].step \in {"read", "failed"}
    /\ LET now == New(SnapsOf(c), Now)
           base == BaselineOf(c)
       IN  /\ graded' = graded \cup GradedIn(c, base, now)
           /\ restarted' = restarted \cup RestartedIn(c, base, now)
           /\ merged' = [merged EXCEPT !.nodes = Merge(@, PathOf[c], now.nodes)]
    /\ left' = left \ {c}
    /\ UNCHANGED <<world, file, pc, watching, targets, prev, snaps,
                   pass, first, saved, loaded, earlier>>

\* Mutant of Held: the baseline the process loaded is kept for its whole life.
HeldSession(state) == prev

\* The baseline a process holds in memory once a pass is over.
Held(state) == state

\* The process is gone, and with it everything it held in memory.
GoDown ==
    /\ pc' = "down"
    /\ watching' = FALSE
    /\ targets' = {}
    /\ left' = {}
    /\ prev' = NoState
    /\ merged' = EmptyState
    /\ snaps' = IdleSnaps
    /\ graded' = {}
    /\ restarted' = {}
    /\ first' = 0
    /\ loaded' = 0
    /\ earlier' = IdleSnaps

(***************************************************************************)
(* The pass is over: the state is saved, or that fails and is only logged  *)
(* (a run without --state saves nothing).  A watch goes on with what it    *)
(* just read as its baseline; any other process exits.                     *)
(***************************************************************************)
Save ==
    /\ pc = "collect"
    /\ left = {}
    /\ \/ file' = [kind |-> "state", state |-> Written(merged)] /\ saved' = pass
       \/ UNCHANGED <<file, saved>>
    /\ \/ ~watching /\ GoDown
       \/ /\ watching
          /\ prev' = Held(merged)
          /\ pc' = "wait"
          /\ UNCHANGED <<watching, targets, left, merged, snaps, findings,
                         first, loaded, earlier>>
    /\ UNCHANGED <<world, pass>>

\* The ticker of a watch fires.
NextPass ==
    /\ pc = "wait"
    /\ pass < MaxPass
    /\ BeginPass(targets)
    /\ earlier' = snaps
    /\ UNCHANGED <<world, file, watching, targets, prev, first, saved, loaded>>

\* The process is killed, at any step.
Kill ==
    /\ pc # "down"
    /\ GoDown
    /\ UNCHANGED <<world, file, pass, saved>>

TargetSets == {Clusters} \cup {{c} : c \in Clusters}

Environment ==
    \/ Tick
    \/ StepBack
    \/ \E s \in Servers : \E ks \in Works[s] : Work(s, ks)
    \/ \E s \in Servers : Restart(s)
    \/ \E s \in Servers : FlushStatus(s)
    \/ LoseFile

Auditor ==
    \/ \E T \in TargetSets, watch \in BOOLEAN : Start(T, watch)
    \/ \E s \in Servers : Stamp(s)
    \/ \E s \in Servers, reported \in Reports : Fetch(s, reported)
    \/ \E s \in Servers : FailRead(s)
    \/ \E c \in Clusters : Audit(c)
    \/ Save
    \/ NextPass
    \/ Kill

Next == Environment \/ Auditor

Spec == Init /\ [][Next]_vars

-----------------------------------------------------------------------------
(***************************************************************************)
(* Types.                                                                  *)
(***************************************************************************)
Server == [boot : Nat, uptime : Nat, resets : Nat,
           counters : [Counters -> Nat], total : [Counters -> Nat]]

Checks == {"flow/paused", "repl/cert-failures", "repl/writers", "gcache/window"}

IsStatus(f) == /\ DOMAIN f \subseteq Counters \cup {"uptime", "gcomm_uuid"}
               /\ \A name \in DOMAIN f : f[name] \in Nat

IsTime(t) == /\ DOMAIN t = {"wall", "mono"}
             /\ t.wall \in Nat
             /\ t.mono \in Nat

IsSnap(r) == /\ DOMAIN r = {"step", "at", "status", "seen"}
             /\ r.step \in {"idle", "stamped", "read", "failed"}
             /\ IsTime(r.at)
             /\ IsStatus(r.status)
             /\ r.seen \in Seen

IsNodeState(r) == /\ DOMAIN r = {"at", "uptime", "gcommUUID", "counters", "seen"}
                  /\ IsTime(r.at)
                  /\ r.uptime \in Nat
                  /\ r.gcommUUID \in Nat
                  /\ DOMAIN r.counters \subseteq Counters
                  /\ \A k \in DOMAIN r.counters : r.counters[k] \in Nat
                  /\ r.seen \in Seen

IsState(st) == /\ DOMAIN st = {"version", "nodes"}
               /\ st.version \in {0, Version}
               /\ DOMAIN st.nodes \subseteq {KeyOf(s) : s \in Servers}
               /\ \A key \in DOMAIN st.nodes : IsNodeState(st.nodes[key])

TypeOK ==
    /\ clock \in Nat /\ mono \in Nat
    /\ srv \in [Servers -> Server]
    /\ file.kind \in {"none", "state"}
    /\ IsState(file.state)
    /\ pc \in {"down", "collect", "wait"}
    /\ watching \in BOOLEAN
    /\ targets \subseteq Clusters
    /\ left \subseteq targets
    /\ IsState(prev)
    /\ IsState(merged)
    /\ DOMAIN snaps = Servers
    /\ \A s \in Servers : IsSnap(snaps[s])
    /\ \A g \in graded : /\ g.check \in Checks
                         /\ g.server \in Servers
                         /\ g.counter \in Counters
                         /\ g.delta.value \in Int
                         /\ g.delta.elapsed \in Int
                         /\ g.from \in Seen
                         /\ g.to \in Seen
    /\ \A r \in restarted : r.server \in Servers /\ r.from \in Seen /\ r.to \in Seen
    /\ pass \in Nat /\ first \in 0..pass /\ saved \in 0..pass /\ loaded \in 0..pass
    /\ DOMAIN earlier = Servers
    /\ \A s \in Servers : IsSnap(earlier[s])

-----------------------------------------------------------------------------
(***************************************************************************)
(* A rate never invents an incident: however the servers restart, are      *)
(* flushed or go unread, and whatever happened to the file in between, the *)
(* movement a check grades is not negative and not more than the server    *)
(* really did between the two reads, over an interval that is positive.    *)
(* (state.go Since: "would invent an incident".)                           *)
(***************************************************************************)
NeverInvents ==
    \A g \in graded :
        /\ 0 <= g.delta.value
        /\ g.delta.value <= g.to.total[g.counter] - g.from.total[g.counter]
        /\ g.delta.elapsed > 0

(***************************************************************************)
(* Where the counters were not set to zero between the two reads, the      *)
(* movement graded is exactly what the server did.                         *)
(***************************************************************************)
ExactWhenContinuous ==
    \A g \in graded :
        g.from.resets = g.to.resets =>
            g.delta.value = g.to.total[g.counter] - g.from.total[g.counter]

(***************************************************************************)
(* A node is only ever compared with itself: never with the node of the    *)
(* same name in another cluster of the same file (Merge, Scope).           *)
(***************************************************************************)
OwnBaseline ==
    \A g \in graded \cup restarted : g.from.server = g.server /\ g.to.server = g.server

(***************************************************************************)
(* The interval graded is the last one: the baseline comes from the pass   *)
(* just before this one in a watch, and from the last saved pass in the    *)
(* first pass of a process; a node unread then has no older baseline to    *)
(* fall back on (main.go: "over its own interval rather than over the      *)
(* whole session").                                                        *)
(***************************************************************************)
OwnInterval ==
    \A g \in graded \cup restarted :
        /\ g.to.pass = pass
        /\ g.from.pass = IF pass > first THEN pass - 1 ELSE loaded

\* The server was read in both passes, some time apart, in one boot
\* and without a flush, and reported k both times.
ComparableReads(s, k) ==
    /\ earlier[s].step = "read"
    /\ snaps[s].step = "read"
    /\ earlier[s].at.mono < snaps[s].at.mono
    /\ earlier[s].seen.resets = snaps[s].seen.resets
    /\ k \in DOMAIN earlier[s].status \cap DOMAIN snaps[s].status

\* ... and did something in between that k counts.
Worked(s, k) == ComparableReads(s, k) /\ earlier[s].seen.total[k] < snaps[s].seen.total[k]

Grades(check, s) == \E g \in graded : g.check = check /\ g.server = s

ReadOf(c) == {s \in Servers : s[1] = c /\ snaps[s].step = "read"}

\* Each check of cluster c says all that it can of the two passes.
SaysAll(c) ==
    /\ \A s \in ReadOf(c) :
          /\ ComparableReads(s, "wsrep_flow_control_paused_ns") => Grades("flow/paused", s)
          /\ (/\ ComparableReads(s, "wsrep_local_cert_failures")
              /\ Worked(s, "wsrep_replicated")) => Grades("repl/cert-failures", s)
          /\ (s \in Sized /\ Worked(s, "wsrep_replicated_bytes")) => Grades("gcache/window", s)
    /\ (\A s \in ReadOf(c) : ComparableReads(s, "wsrep_replicated"))
          => \A s \in ReadOf(c) : Grades("repl/writers", s)

(***************************************************************************)
(* The tool is not coy: in a watch, what a check can say of two passes     *)
(* running it says, whatever the other nodes and checks came to (state.go  *)
(* Scope: "exactly the silence this tool exists to refuse").  A node that  *)
(* was not disturbed has its own flow control graded, its conflicts where  *)
(* it originated a writeset, its gcache where bytes were written; and the  *)
(* writers of a cluster are graded where every node it read this time was  *)
(* read the last time too, whatever became of the nodes it did not read.   *)
(***************************************************************************)
NoSilence ==
    (pc \in {"collect", "wait"} /\ pass > first) => \A c \in targets \ left : SaysAll(c)

(***************************************************************************)
(* node/restarted is never a false alarm: the server did boot again        *)
(* between the two reads, whichever variables each of them reported.       *)
(***************************************************************************)
RestartsAreReal == \A r \in restarted : r.from.boot < r.to.boot

(***************************************************************************)
(* What the tool says of itself and the code does not keep.                *)
(*                                                                         *)
(* "every counter on it started again from zero, which is why the rate     *)
(* checks above report no baseline for it" (the hint of node/restarted).   *)
(***************************************************************************)
RestartedMeansUngraded ==
    \A r \in restarted : ~ \E g \in graded : g.server = r.server
=============================================================================
