----------------------------- MODULE RatesProofs -----------------------------
(***************************************************************************)
(* Proofs about Rates: what a graded movement says of a server holds for   *)
(* every set of clusters and nodes, every number of passes and every       *)
(* interleaving of restarts, flushes, failed reads, crashes and lost files.*)
(***************************************************************************)
EXTENDS Rates, TLAPS

-----------------------------------------------------------------------------
(* Lemmas about the operators of StateCache. *)

\* A server is a node of a cluster.
LEMMA ServerPair ==
    \A c \in Clusters : \A n \in NodesOf[c] :
        /\ <<c, n>> \in Servers
        /\ <<c, n>>[1] = c
        /\ KeyOf(<<c, n>>) = FileKey(PathOf[c], n)
BY DEF Servers, KeyOf

\* What stands under a key of the merged map: an entry of the cluster just
\* folded in, or the entry that was there.
LEMMA MergeEntry ==
    ASSUME NEW map, NEW path, NEW from, NEW k \in DOMAIN Merge(map, path, from)
    PROVE  \/ \E n \in DOMAIN from : k = FileKey(path, n) /\ Merge(map, path, from)[k] = from[n]
           \/ k \in DOMAIN map /\ Merge(map, path, from)[k] = map[k]
<1>1. CASE \E n \in DOMAIN from : k = FileKey(path, n)
  <2> DEFINE m == CHOOSE n \in DOMAIN from : k = FileKey(path, n)
  <2>1. m \in DOMAIN from /\ k = FileKey(path, m)
    BY <1>1
  <2>2. Merge(map, path, from)[k] = from[m]
    BY <1>1 DEF Merge
  <2> QED BY <2>1, <2>2
<1>2. CASE ~ \E n \in DOMAIN from : k = FileKey(path, n)
  BY <1>2 DEF Merge
<1> QED BY <1>1, <1>2

\* What one cluster sees of the file is what stands there under its own keys.
LEMMA ScopeEntry ==
    ASSUME NEW map, NEW path, NEW asked, NEW n \in DOMAIN Scope(map, path, asked)
    PROVE  /\ n \in asked
           /\ FileKey(path, n) \in DOMAIN map
           /\ Scope(map, path, asked)[n] = map[FileKey(path, n)]
BY DEF Scope

\* A snapshot leaves a well-formed entry behind.
LEMMA NodeStateType ==
    ASSUME NEW r, IsSnap(r), NEW now, IsTime(now)
    PROVE  IsNodeState(NodeStateOf(r, now))
<1> DEFINE e == NodeStateOf(r, now)
<1>1. IsTime(e.at) /\ DOMAIN e = {"at", "uptime", "gcommUUID", "counters", "seen"}
  BY DEF IsSnap, NodeStateOf
<1>2. Reported(r.status, "uptime") \in Nat /\ Reported(r.status, "gcomm_uuid") \in Nat
  BY DEF IsSnap, IsStatus, Reported
<1>3. e.uptime \in Nat /\ e.gcommUUID \in Nat
  BY <1>2 DEF NodeStateOf
<1>4. /\ DOMAIN e.counters \subseteq Counters
      /\ \A k \in DOMAIN e.counters : e.counters[k] \in Nat
  BY DEF IsSnap, IsStatus, NodeStateOf
<1>5. e.seen \in Seen
  BY DEF IsSnap, NodeStateOf
<1> QED BY <1>1, <1>3, <1>4, <1>5 DEF IsNodeState

\* New keeps exactly the nodes that were read.
LEMMA NewEntry ==
    ASSUME NEW ss, NEW now, NEW n \in DOMAIN New(ss, now).nodes
    PROVE  /\ n \in DOMAIN ss
           /\ ss[n].step = "read"
           /\ New(ss, now).nodes[n] = NodeStateOf(ss[n], now)
BY DEF New

-----------------------------------------------------------------------------
(* Type correctness. *)

\* A state with no entries is well formed.
LEMMA EmptyTypes ==
    /\ IsState(NoState)
    /\ IsState(EmptyState)
    /\ DOMAIN IdleSnaps = Servers
    /\ \A s \in Servers : IdleSnaps[s] = IdleSnap(s) /\ IsSnap(IdleSnap(s))
<1>1. DOMAIN EmptyMap = {}
  BY DEF EmptyMap
<1>2. IsState(NoState) /\ IsState(EmptyState)
  BY <1>1 DEF NoState, EmptyState, IsState, Version
<1>3. ASSUME NEW s \in Servers PROVE IsSnap(IdleSnap(s))
  <2>1. NoSeen(s) \in Seen
    BY DEF NoSeen, Seen
  <2>2. IsStatus(EmptyMap)
    BY <1>1 DEF IsStatus
  <2>3. IsTime(ZeroTime)
    BY DEF ZeroTime, IsTime
  <2> QED BY <2>1, <2>2, <2>3 DEF IdleSnap, IsSnap
<1>4. /\ DOMAIN IdleSnaps = Servers
      /\ \A s \in Servers : IdleSnaps[s] = IdleSnap(s)
  BY DEF IdleSnaps
<1> QED BY <1>2, <1>3, <1>4

\* Losing the monotonic readings leaves a state well formed.
LEMMA WrittenTypes ==
    ASSUME NEW st, IsState(st)
    PROVE  /\ IsState(Written(st))
           /\ DOMAIN Written(st).nodes = DOMAIN st.nodes
           /\ \A key \in DOMAIN st.nodes :
                 Written(st).nodes[key] = [st.nodes[key] EXCEPT !.at.mono = 0]
<1> DEFINE w == Written(st)
<1>1. /\ DOMAIN w = {"version", "nodes"}
      /\ w.version = st.version
      /\ DOMAIN w.nodes = DOMAIN st.nodes
      /\ \A key \in DOMAIN st.nodes : w.nodes[key] = [st.nodes[key] EXCEPT !.at.mono = 0]
  BY DEF Written, IsState
<1>2. ASSUME NEW key \in DOMAIN st.nodes PROVE IsNodeState(w.nodes[key])
  <2>1. IsNodeState(st.nodes[key])
    BY DEF IsState
  <2>2. IsTime([st.nodes[key].at EXCEPT !.mono = 0])
    BY <2>1 DEF IsNodeState, IsTime
  <2> QED BY <1>1, <2>1, <2>2 DEF IsNodeState
<1> QED BY <1>1, <1>2 DEF IsState

\* What one audit works with: the entries just read and the scoped baseline.
LEMMA AuditTypes ==
    ASSUME TypeOK, NEW c \in Clusters
    PROVE  LET now == New(SnapsOf(c), Now)
               base == BaselineOf(c)
           IN  /\ DOMAIN now.nodes \subseteq NodesOf[c]
               /\ \A n \in DOMAIN now.nodes :
                     /\ now.nodes[n] = NodeStateOf(snaps[<<c, n>>], Now)
                     /\ snaps[<<c, n>>].step = "read"
                     /\ IsNodeState(now.nodes[n])
               /\ DOMAIN base.nodes \subseteq NodesOf[c]
               /\ \A n \in DOMAIN base.nodes :
                     /\ KeyOf(<<c, n>>) \in DOMAIN prev.nodes
                     /\ base.nodes[n] = prev.nodes[KeyOf(<<c, n>>)]
                     /\ IsNodeState(base.nodes[n])
<1> DEFINE now == New(SnapsOf(c), Now)
           base == BaselineOf(c)
<1>1. DOMAIN SnapsOf(c) = NodesOf[c] /\ \A n \in NodesOf[c] : SnapsOf(c)[n] = snaps[<<c, n>>]
  BY DEF SnapsOf
<1>2. ASSUME NEW n \in DOMAIN now.nodes
      PROVE  /\ n \in NodesOf[c]
             /\ now.nodes[n] = NodeStateOf(snaps[<<c, n>>], Now)
             /\ snaps[<<c, n>>].step = "read"
             /\ IsNodeState(now.nodes[n])
  <2>1. n \in NodesOf[c] /\ SnapsOf(c)[n].step = "read"
            /\ now.nodes[n] = NodeStateOf(SnapsOf(c)[n], Now)
    BY <1>1, NewEntry
  <2>2. now.nodes[n] = NodeStateOf(snaps[<<c, n>>], Now) /\ snaps[<<c, n>>].step = "read"
    BY <1>1, <2>1
  <2>3. IsSnap(snaps[<<c, n>>]) /\ IsTime(Now)
    BY <2>1, ServerPair DEF TypeOK, IsTime, Now
  <2> QED BY <2>1, <2>2, <2>3, NodeStateType
<1>3. base.nodes = Scope(prev.nodes, PathOf[c], NodesOf[c])
  BY DEF BaselineOf
<1>4. ASSUME NEW n \in DOMAIN base.nodes
      PROVE  /\ n \in NodesOf[c]
             /\ KeyOf(<<c, n>>) \in DOMAIN prev.nodes
             /\ base.nodes[n] = prev.nodes[KeyOf(<<c, n>>)]
             /\ IsNodeState(base.nodes[n])
  <2>1. /\ n \in NodesOf[c]
        /\ FileKey(PathOf[c], n) \in DOMAIN prev.nodes
        /\ base.nodes[n] = prev.nodes[FileKey(PathOf[c], n)]
    BY <1>3, ScopeEntry
  <2>2. IsState(prev)
    BY DEF TypeOK
  <2> QED BY <2>1, <2>2, ServerPair DEF IsState
<1> QED BY <1>2, <1>4

\* The counters that some check grades.
GradedCounters == {"wsrep_flow_control_paused_ns", "wsrep_local_cert_failures",
                   "wsrep_replicated", "wsrep_replicated_bytes"}

\* A movement that some check grades, in its parts.
LEMMA GradedEntry ==
    ASSUME NEW c, NEW base, NEW now, NEW g \in GradedIn(c, base, now)
    PROVE  \E check \in Checks : \E n \in DOMAIN now.nodes : \E k \in GradedCounters :
              /\ HasBaseline(base, n, k, now.nodes[n])
              /\ g = Movement(c, base, now, check, n, k)
<1>1. \A n, k : n \in Baselined(base, now, k) =>
                  n \in DOMAIN now.nodes /\ HasBaseline(base, n, k, now.nodes[n])
  BY DEF Baselined
<1>2. \A n, k : n \in Moved(base, now, k) => n \in Baselined(base, now, k)
  BY DEF Moved
<1>3. ASSUME NEW check \in Checks, NEW k \in GradedCounters, NEW n \in Baselined(base, now, k),
             g = Movement(c, base, now, check, n, k)
      PROVE  \E h \in Checks : \E m \in DOMAIN now.nodes : \E j \in GradedCounters :
                /\ HasBaseline(base, m, j, now.nodes[m])
                /\ g = Movement(c, base, now, h, m, j)
  BY <1>1, <1>3
<1>4. /\ "flow/paused" \in Checks /\ "repl/cert-failures" \in Checks
      /\ "repl/writers" \in Checks /\ "gcache/window" \in Checks
      /\ "wsrep_flow_control_paused_ns" \in GradedCounters /\ "wsrep_local_cert_failures" \in GradedCounters
      /\ "wsrep_replicated" \in GradedCounters /\ "wsrep_replicated_bytes" \in GradedCounters
  BY DEF Checks, GradedCounters
<1>5. CASE g \in FlowControl(c, base, now)
  <2>1. PICK n \in Baselined(base, now, "wsrep_flow_control_paused_ns") :
           g = Movement(c, base, now, "flow/paused", n, "wsrep_flow_control_paused_ns")
    BY <1>5 DEF FlowControl
  <2> QED BY <1>3, <1>4, <2>1
<1>6. CASE g \in Certification(c, base, now)
  <2>1. PICK n \in Certified(base, now),
             k \in {"wsrep_local_cert_failures", "wsrep_replicated"} :
           g = Movement(c, base, now, "repl/cert-failures", n, k)
    BY <1>6 DEF Certification
  <2>2. n \in Baselined(base, now, k)
    BY <1>2 DEF Certified
  <2>3. k \in GradedCounters
    BY <1>4
  <2> QED BY <1>3, <1>4, <2>1, <2>2, <2>3
<1>7. CASE g \in Writers(c, base, now)
  <2>1. PICK n \in Baselined(base, now, "wsrep_replicated") :
           g = Movement(c, base, now, "repl/writers", n, "wsrep_replicated")
    BY <1>7 DEF Writers
  <2> QED BY <1>3, <1>4, <2>1
<1>8. CASE g \in GCache(c, base, now)
  <2>1. PICK n \in Moved(base, now, "wsrep_replicated_bytes") :
           g = Movement(c, base, now, "gcache/window", n, "wsrep_replicated_bytes")
    BY <1>8 DEF GCache
  <2> QED BY <1>2, <1>3, <1>4, <2>1
<1> QED BY <1>5, <1>6, <1>7, <1>8 DEF GradedIn

\* A process that is gone leaves nothing ill-formed.
LEMMA GoDownTypes ==
    ASSUME TypeOK, GoDown, UNCHANGED <<clock, mono, srv, pass>>,
           IsState(file'.state), saved' \in 0..pass,
           file'.kind \in {"none", "state"}
    PROVE  TypeOK'
<1>1. \A s \in Servers : IsSnap(snaps'[s]) /\ IsSnap(earlier'[s])
  BY EmptyTypes DEF GoDown
<1>2. DOMAIN snaps' = Servers /\ DOMAIN earlier' = Servers
  BY EmptyTypes DEF GoDown
<1>3. IsState(prev') /\ IsState(merged')
  BY EmptyTypes DEF GoDown
<1>4. first' \in 0..pass /\ loaded' \in 0..pass
  BY DEF GoDown, TypeOK
<1> QED BY <1>1, <1>2, <1>3, <1>4 DEF GoDown, TypeOK

\* Every state the program reaches is well formed.
LEMMA TypeStep == TypeOK /\ [Next]_vars => TypeOK'
<1> SUFFICES ASSUME TypeOK, [Next]_vars PROVE TypeOK'
  OBVIOUS
<1>1. CASE Tick
  <2>1. srv' = [s \in Servers |-> [srv[s] EXCEPT !.uptime = @ + 1]]
    BY <1>1 DEF Tick
  <2>2. ASSUME NEW s \in Servers PROVE [srv[s] EXCEPT !.uptime = @ + 1] \in Server
    <3>1. srv[s] \in Server
      BY DEF TypeOK
    <3> QED BY <3>1 DEF Server
  <2>3. srv' \in [Servers -> Server]
    BY <2>1, <2>2
  <2> QED BY <1>1, <2>3 DEF Tick, TypeOK, process, findings
<1>2. CASE StepBack
  BY <1>2 DEF StepBack, TypeOK, process, findings
<1>3. ASSUME NEW s \in Servers, NEW ks \in Works[s], Work(s, ks) PROVE TypeOK'
  <2> DEFINE counters == [k \in Counters |-> IF k \in ks THEN srv[s].counters[k] + 1
                                                      ELSE srv[s].counters[k]]
             total    == [k \in Counters |-> IF k \in ks THEN srv[s].total[k] + 1
                                                      ELSE srv[s].total[k]]
  <2>1. srv[s] \in Server
    BY DEF TypeOK
  <2>2. counters \in [Counters -> Nat] /\ total \in [Counters -> Nat]
    BY <2>1 DEF Server
  <2>3. srv' = [srv EXCEPT ![s].counters = counters, ![s].total = total]
    BY <1>3 DEF Work
  <2> HIDE DEF counters, total
  <2>4. srv' \in [Servers -> Server]
    BY <2>1, <2>2, <2>3 DEF TypeOK, Server
  <2> QED BY <1>3, <2>4 DEF Work, TypeOK, process, findings
<1>4. ASSUME NEW s \in Servers, Restart(s) PROVE TypeOK'
  <2>1. srv' \in [Servers -> Server]
    <3>1. srv[s] \in Server
      BY DEF TypeOK
    <3>2. /\ DOMAIN srv' = Servers
          /\ \A t \in Servers \ {s} : srv'[t] = srv[t]
          /\ srv'[s] = [boot |-> srv[s].boot + 1, uptime |-> BootUptime,
                        resets |-> srv[s].resets + 1,
                        counters |-> [k \in Counters |-> 0], total |-> srv[s].total]
      BY <1>4, <3>1 DEF Restart, TypeOK, Server
    <3>3. srv'[s] \in Server
      BY <3>1, <3>2, BoundsAssumption DEF Server
    <3>4. srv' = [t \in Servers |-> srv'[t]]
      BY <1>4 DEF Restart, TypeOK
    <3> QED BY <3>2, <3>3, <3>4 DEF TypeOK
  <2> QED BY <1>4, <2>1 DEF Restart, TypeOK, process, findings
<1>5. ASSUME NEW s \in Servers, FlushStatus(s) PROVE TypeOK'
  <2>1. srv' \in [Servers -> Server]
    <3>1. srv[s] \in Server
      BY DEF TypeOK
    <3>2. /\ DOMAIN srv' = Servers
          /\ \A t \in Servers \ {s} : srv'[t] = srv[t]
          /\ srv'[s] = [boot |-> srv[s].boot, uptime |-> srv[s].uptime,
                        resets |-> srv[s].resets + 1,
                        counters |-> [k \in Counters |-> 0], total |-> srv[s].total]
      BY <1>5, <3>1 DEF FlushStatus, TypeOK, Server
    <3>3. srv'[s] \in Server
      BY <3>1, <3>2 DEF Server
    <3>4. srv' = [t \in Servers |-> srv'[t]]
      BY <1>5 DEF FlushStatus, TypeOK
    <3> QED BY <3>2, <3>3, <3>4 DEF TypeOK
  <2> QED BY <1>5, <2>1 DEF FlushStatus, TypeOK, process, findings
<1>6. CASE LoseFile
  BY <1>6, EmptyTypes DEF LoseFile, NoFile, TypeOK, process, findings, world
<1>7. ASSUME NEW T \in TargetSets, NEW watch \in BOOLEAN, Start(T, watch) PROVE TypeOK'
  <2>1. T \subseteq Clusters
    BY DEF TargetSets
  <2>2. IsState(prev') /\ loaded' \in 0..pass
    BY <1>7, EmptyTypes DEF Start, Load, TypeOK
  <2> QED BY <1>7, <2>1, <2>2, EmptyTypes DEF Start, BeginPass, TypeOK, world
<1>8. ASSUME NEW s \in Servers, Stamp(s) PROVE TypeOK'
  BY <1>8 DEF Stamp, TypeOK, IsSnap, world, findings
<1>9. ASSUME NEW s \in Servers, NEW reported \in Reports, Fetch(s, reported) PROVE TypeOK'
  <2> DEFINE status == [name \in reported |-> Answer(srv[s], name)]
             seen == [server |-> s, pass |-> pass, boot |-> srv[s].boot,
                      resets |-> srv[s].resets, total |-> srv[s].total]
  <2>1. srv[s] \in Server
    BY DEF TypeOK
  <2>2. \A name \in reported : Answer(srv[s], name) \in Nat
    BY <2>1, ReportsAssumption, CountersAssumption DEF Answer, Server
  <2>3. IsStatus(status)
    BY <2>2, ReportsAssumption DEF IsStatus
  <2>4. seen \in Seen
    BY <2>1 DEF Seen, Server, TypeOK
  <2>5. snaps' = [snaps EXCEPT ![s].step = "read", ![s].status = status, ![s].seen = seen]
    BY <1>9 DEF Fetch
  <2> HIDE DEF status, seen
  <2>6. DOMAIN snaps' = Servers /\ \A t \in Servers : IsSnap(snaps'[t])
    BY <2>3, <2>4, <2>5 DEF TypeOK, IsSnap
  <2> QED BY <1>9, <2>6 DEF Fetch, TypeOK, world, findings
<1>10. ASSUME NEW s \in Servers, FailRead(s) PROVE TypeOK'
  <2>1. IsSnap([IdleSnap(s) EXCEPT !.step = "failed"])
    BY EmptyTypes DEF IsSnap, IdleSnap
  <2> QED BY <1>10, <2>1 DEF FailRead, TypeOK, world, findings
<1>11. ASSUME NEW c \in Clusters, Audit(c) PROVE TypeOK'
  <2> DEFINE now == New(SnapsOf(c), Now)
             base == BaselineOf(c)
  <2>1. c \in targets
    BY <1>11 DEF Audit, Current, TypeOK
  <2>2. /\ DOMAIN now.nodes \subseteq NodesOf[c]
        /\ \A n \in DOMAIN now.nodes : IsNodeState(now.nodes[n])
        /\ DOMAIN base.nodes \subseteq NodesOf[c]
        /\ \A n \in DOMAIN base.nodes : IsNodeState(base.nodes[n])
    BY AuditTypes
  <2>3. /\ graded' = graded \cup GradedIn(c, base, now)
        /\ restarted' = restarted \cup RestartedIn(c, base, now)
        /\ merged' = [merged EXCEPT !.nodes = Merge(merged.nodes, PathOf[c], now.nodes)]
        /\ left' = left \ {c}
    BY <1>11 DEF Audit
  <2> HIDE DEF now, base
  <2>4. ASSUME NEW g \in GradedIn(c, base, now)
        PROVE  /\ g.check \in Checks
               /\ g.server \in Servers
               /\ g.counter \in Counters
               /\ g.delta.value \in Int
               /\ g.delta.elapsed \in Int
               /\ g.from \in Seen
               /\ g.to \in Seen
    <3>1. PICK check \in Checks, n \in DOMAIN now.nodes, k \in GradedCounters :
             /\ HasBaseline(base, n, k, now.nodes[n])
             /\ g = Movement(c, base, now, check, n, k)
      BY GradedEntry
    <3>2. /\ n \in DOMAIN base.nodes
          /\ k \in DOMAIN base.nodes[n].counters
          /\ k \in DOMAIN now.nodes[n].counters
      BY <3>1 DEF HasBaseline
    <3>3. IsNodeState(now.nodes[n]) /\ IsNodeState(base.nodes[n])
      BY <2>2, <3>2
    <3>4. /\ base.nodes[n].counters[k] \in Nat
          /\ now.nodes[n].counters[k] \in Nat
          /\ k \in Counters
          /\ Elapsed(base.nodes[n].at, now.nodes[n].at) \in Int
      BY <3>2, <3>3 DEF IsNodeState, IsTime, Elapsed
    <3>5. base.nodes[n].seen \in Seen /\ now.nodes[n].seen \in Seen
      BY <3>3 DEF IsNodeState
    <3> HIDE DEF Elapsed
    <3> QED BY <2>2, <3>1, <3>4, <3>5, ServerPair DEF Movement, Since
  <2>5. ASSUME NEW r \in RestartedIn(c, base, now)
        PROVE  r.server \in Servers /\ r.from \in Seen /\ r.to \in Seen
    BY <2>2, ServerPair DEF RestartedIn, IsNodeState
  <2>6. IsState(merged')
    <3>1. IsState(merged) /\ merged'.version = merged.version /\ DOMAIN merged' = {"version", "nodes"}
            /\ merged'.nodes = Merge(merged.nodes, PathOf[c], now.nodes)
      BY <2>3 DEF TypeOK, IsState
    <3>2. ASSUME NEW key \in DOMAIN merged'.nodes
          PROVE  key \in {KeyOf(s) : s \in Servers} /\ IsNodeState(merged'.nodes[key])
      <4>1. \/ \E n \in DOMAIN now.nodes :
                   key = FileKey(PathOf[c], n) /\ merged'.nodes[key] = now.nodes[n]
            \/ key \in DOMAIN merged.nodes /\ merged'.nodes[key] = merged.nodes[key]
        BY <3>1, MergeEntry
      <4>2. ASSUME NEW n \in DOMAIN now.nodes, key = FileKey(PathOf[c], n),
                   merged'.nodes[key] = now.nodes[n]
            PROVE  key \in {KeyOf(s) : s \in Servers} /\ IsNodeState(merged'.nodes[key])
        <5>1. <<c, n>> \in Servers /\ key = KeyOf(<<c, n>>)
          BY <2>2, <4>2, ServerPair
        <5> QED BY <2>2, <4>2, <5>1
      <4>3. ASSUME key \in DOMAIN merged.nodes, merged'.nodes[key] = merged.nodes[key]
            PROVE  key \in {KeyOf(s) : s \in Servers} /\ IsNodeState(merged'.nodes[key])
        BY <3>1, <4>3 DEF IsState
      <4> QED BY <4>1, <4>2, <4>3
    <3> QED BY <3>1, <3>2 DEF IsState
  <2> QED BY <1>11, <2>3, <2>4, <2>5, <2>6 DEF Audit, TypeOK, world
<1>12. CASE Save
  <2>1. /\ IsState(file'.state)
        /\ saved' \in 0..pass
        /\ file'.kind \in {"none", "state"}
    <3>1. CASE file' = [kind |-> "state", state |-> Written(merged)] /\ saved' = pass
      BY <3>1, WrittenTypes DEF TypeOK
    <3>2. CASE UNCHANGED <<file, saved>>
      BY <3>2 DEF TypeOK
    <3> QED BY <1>12, <3>1, <3>2 DEF Save
  <2>2. UNCHANGED <<clock, mono, srv, pass>>
    BY <1>12 DEF Save, world
  <2>3. CASE ~watching /\ GoDown
    BY <2>1, <2>2, <2>3, GoDownTypes
  <2>4. CASE /\ watching
             /\ prev' = Held(merged)
             /\ pc' = "wait"
             /\ UNCHANGED <<watching, targets, left, merged, snaps, findings,
                            first, loaded, earlier>>
    BY <2>1, <2>2, <2>4 DEF TypeOK, Held, findings
  <2> QED BY <1>12, <2>3, <2>4 DEF Save
<1>13. CASE NextPass
  BY <1>13, EmptyTypes DEF NextPass, BeginPass, TypeOK, world
<1>14. CASE Kill
  <2>1. UNCHANGED <<clock, mono, srv, pass, file, saved>> /\ GoDown
    BY <1>14 DEF Kill, world
  <2>2. /\ IsState(file'.state)
        /\ saved' \in 0..pass
        /\ file'.kind \in {"none", "state"}
    BY <2>1 DEF TypeOK
  <2> QED BY <2>1, <2>2, GoDownTypes
<1>15. CASE UNCHANGED vars
  BY <1>15 DEF vars, TypeOK, IsState, IsSnap
<1> QED BY <1>1, <1>2, <1>3, <1>4, <1>5, <1>6, <1>7, <1>8, <1>9, <1>10, <1>11,
           <1>12, <1>13, <1>14, <1>15 DEF Next, Environment, Auditor

\* The world before the first run is well formed.
LEMMA TypeInit == Init => TypeOK
<1> SUFFICES ASSUME Init PROVE TypeOK
  OBVIOUS
<1>1. srv \in [Servers -> Server]
  BY DEF Init, Server
<1>2. IsState(file.state) /\ file.kind \in {"none", "state"}
  BY EmptyTypes DEF Init, NoFile
<1>3. DOMAIN snaps = Servers /\ DOMAIN earlier = Servers
  BY EmptyTypes DEF Init
<1>4. \A s \in Servers : IsSnap(snaps[s]) /\ IsSnap(earlier[s])
  BY EmptyTypes DEF Init
<1>5. pass \in Nat /\ first \in 0..pass /\ saved \in 0..pass /\ loaded \in 0..pass
  BY DEF Init
<1>6. IsState(prev) /\ IsState(merged)
  BY EmptyTypes DEF Init
<1>7. /\ clock \in Nat /\ mono \in Nat /\ pc \in {"down", "collect", "wait"} /\ watching \in BOOLEAN
      /\ targets \subseteq Clusters /\ left \subseteq targets
      /\ graded = {} /\ restarted = {}
  BY DEF Init
<1> QED BY <1>1, <1>2, <1>3, <1>4, <1>5, <1>6, <1>7 DEF TypeOK

\* Type correctness of the runs and of the world they look at.
THEOREM TypeCorrect == Spec => []TypeOK
BY TypeInit, TypeStep, PTL DEF Spec

-----------------------------------------------------------------------------
(***************************************************************************)
(* The inductive invariant.  What a check grades compares an entry of the  *)
(* baseline with an entry of this pass; the safety properties speak of     *)
(* what the server did between the two.  So the invariant follows every    *)
(* entry, wherever it is held (file, baseline, merged state, snapshot),    *)
(* and says how it stands to the server as it is now: whatever the server  *)
(* counts beyond the entry it did after the entry was read.                *)
(***************************************************************************)

\* Server s, being r, as an entry that would be made of it.
Answering(s, r) ==
    [at        |-> 0,
     uptime    |-> r.uptime,
     gcommUUID |-> r.boot,
     counters  |-> r.counters,
     seen      |-> [server |-> s, pass |-> 0, boot |-> r.boot,
                    resets |-> r.resets, total |-> r.total]]

\* The entry a snapshot that was read will leave, but for its time.
EntryOf(snap) == NodeStateOf(snap, ZeroTime)

\* e was read from a server before v was.
Between(e, v) ==
    /\ e.seen.server = v.seen.server
    /\ e.seen.boot <= v.seen.boot
    /\ e.seen.resets <= v.seen.resets
    /\ e.seen.resets = v.seen.resets => e.seen.boot = v.seen.boot
    /\ e.gcommUUID \in {0, e.seen.boot}
    /\ v.gcommUUID \in {0, v.seen.boot}
    /\ (e.seen.boot = v.seen.boot /\ v.uptime > 0) => e.uptime <= v.uptime
    /\ \A k \in Counters : e.seen.total[k] <= v.seen.total[k]
    /\ \A k \in DOMAIN e.counters \cap DOMAIN v.counters :
          /\ e.seen.resets = v.seen.resets =>
                v.counters[k] - e.counters[k] = v.seen.total[k] - e.seen.total[k]
          /\ e.seen.resets < v.seen.resets =>
                v.counters[k] <= v.seen.total[k] - e.seen.total[k]

\* e was read from server s before it was r, and its uptime is not beyond r's.
Before(e, s, r) ==
    /\ Between(e, Answering(s, r))
    /\ e.seen.boot = r.boot => e.uptime <= r.uptime

\* Every entry of st was read from the server under whose key it stands.
EntriesBefore(st, servers) ==
    \A s \in Servers :
        KeyOf(s) \in DOMAIN st.nodes => Before(st.nodes[KeyOf(s)], s, servers[s])

\* Every entry of st was read in pass p.
EntriesOfPass(st, p) ==
    \A key \in DOMAIN st.nodes : st.nodes[key].seen.pass = p

\* The pass whose entries are the baseline of this one.
BaselinePass == IF pc = "wait" THEN pass
                ELSE IF pass > first THEN pass - 1 ELSE loaded

EntriesInv ==
    /\ EntriesBefore(file.state, srv)
    /\ EntriesBefore(prev, srv)
    /\ EntriesBefore(merged, srv)

SnapsInv ==
    \A s \in Servers : snaps[s].step = "read" =>
        /\ Before(EntryOf(snaps[s]), s, srv[s])
        /\ snaps[s].seen.pass = pass
        /\ (pc = "collect" /\ KeyOf(s) \in DOMAIN prev.nodes) =>
              Between(prev.nodes[KeyOf(s)], EntryOf(snaps[s]))

PassInv ==
    /\ EntriesOfPass(file.state, saved)
    /\ EntriesOfPass(prev, BaselinePass)
    /\ EntriesOfPass(merged, pass)

ReportInv ==
    /\ NeverInvents
    /\ ExactWhenContinuous
    /\ OwnBaseline
    /\ OwnInterval
    /\ RestartsAreReal

IInv == TypeOK /\ EntriesInv /\ SnapsInv /\ PassInv /\ ReportInv

\* What a server counts after an entry was read stays accounted for, whatever
\* happens to the server next.
LEMMA WorldKeepsBefore ==
    ASSUME TypeOK,
           \/ UNCHANGED srv
           \/ Tick
           \/ \E t \in Servers : \E ks \in Works[t] : Work(t, ks)
           \/ \E t \in Servers : Restart(t)
           \/ \E t \in Servers : FlushStatus(t),
           NEW s \in Servers, NEW e, IsNodeState(e), Before(e, s, srv[s])
    PROVE  Before(e, s, srv'[s])
<1> DEFINE v == Answering(s, srv[s])
           w == Answering(s, srv'[s])
<1>1. /\ srv[s] \in Server
      /\ e.seen \in Seen
      /\ e.uptime \in Nat
      /\ \A k \in DOMAIN e.counters : k \in Counters /\ e.counters[k] \in Nat
  BY DEF TypeOK, IsNodeState
<1>2. /\ v.uptime = srv[s].uptime /\ w.uptime = srv'[s].uptime
      /\ v.gcommUUID = srv[s].boot /\ w.gcommUUID = srv'[s].boot
      /\ v.counters = srv[s].counters /\ w.counters = srv'[s].counters
      /\ v.seen.server = s /\ w.seen.server = s
      /\ v.seen.boot = srv[s].boot /\ w.seen.boot = srv'[s].boot
      /\ v.seen.resets = srv[s].resets /\ w.seen.resets = srv'[s].resets
      /\ v.seen.total = srv[s].total /\ w.seen.total = srv'[s].total
  BY DEF Answering
<1> HIDE DEF v, w
<1>3. Between(e, v) /\ (e.seen.boot = srv[s].boot => e.uptime <= srv[s].uptime)
  BY DEF Before, v
<1> SUFFICES Between(e, w) /\ (e.seen.boot = srv'[s].boot => e.uptime <= srv'[s].uptime)
  BY DEF Before, w
<1> DEFINE Kept == Between(e, w) /\ (e.seen.boot = srv'[s].boot => e.uptime <= srv'[s].uptime)
<1>4. ASSUME srv'[s] = srv[s] PROVE Kept
  BY <1>2, <1>3, <1>4 DEF Between
<1>5. ASSUME srv'[s] = [srv[s] EXCEPT !.uptime = @ + 1] PROVE Kept
  <2>1. /\ srv'[s].boot = srv[s].boot
        /\ srv'[s].resets = srv[s].resets
        /\ srv'[s].uptime = srv[s].uptime + 1
        /\ srv'[s].counters = srv[s].counters
        /\ srv'[s].total = srv[s].total
        /\ srv[s].uptime \in Nat
    BY <1>1, <1>5 DEF Server
  <2> QED BY <1>1, <1>2, <1>3, <2>1 DEF Between
<1>6. ASSUME NEW ks,
             srv'[s] = [srv[s] EXCEPT
                !.counters = [k \in Counters |-> IF k \in ks THEN @[k] + 1 ELSE @[k]],
                !.total    = [k \in Counters |-> IF k \in ks THEN @[k] + 1 ELSE @[k]]]
      PROVE  Kept
  <2>1. /\ srv'[s].boot = srv[s].boot
        /\ srv'[s].resets = srv[s].resets
        /\ srv'[s].uptime = srv[s].uptime
        /\ DOMAIN srv[s].counters = Counters
        /\ DOMAIN srv'[s].counters = Counters
    BY <1>1, <1>6 DEF Server
  <2>2. \A j \in Counters :
           /\ srv[s].counters[j] \in Nat /\ srv[s].total[j] \in Nat
           /\ srv'[s].counters[j] = srv[s].counters[j] + (IF j \in ks THEN 1 ELSE 0)
           /\ srv'[s].total[j] = srv[s].total[j] + (IF j \in ks THEN 1 ELSE 0)
    BY <1>1, <1>6 DEF Server
  <2>3. /\ DOMAIN srv'[s].counters = DOMAIN srv[s].counters
        /\ \A j \in Counters : e.seen.total[j] \in Nat
        /\ e.seen.resets \in Nat /\ srv[s].resets \in Nat
    BY <1>1, <2>1 DEF Server, Seen
  <2>4. \A j \in Counters : e.seen.total[j] <= w.seen.total[j]
    BY <1>2, <1>3, <2>2, <2>3 DEF Between
  <2>5. ASSUME NEW j \in DOMAIN e.counters \cap DOMAIN w.counters
        PROVE  /\ e.seen.resets = w.seen.resets =>
                     w.counters[j] - e.counters[j] = w.seen.total[j] - e.seen.total[j]
               /\ e.seen.resets < w.seen.resets =>
                     w.counters[j] <= w.seen.total[j] - e.seen.total[j]
    <3>1. j \in Counters /\ e.counters[j] \in Nat /\ j \in DOMAIN v.counters
      BY <1>1, <1>2, <2>3
    <3>2. /\ e.seen.resets = srv[s].resets =>
                srv[s].counters[j] - e.counters[j] = srv[s].total[j] - e.seen.total[j]
          /\ e.seen.resets < srv[s].resets =>
                srv[s].counters[j] <= srv[s].total[j] - e.seen.total[j]
      BY <1>2, <1>3, <3>1 DEF Between
    <3>3. /\ w.counters[j] = srv[s].counters[j] + (IF j \in ks THEN 1 ELSE 0)
          /\ w.seen.total[j] = srv[s].total[j] + (IF j \in ks THEN 1 ELSE 0)
          /\ w.seen.resets = srv[s].resets
      BY <1>2, <2>1, <2>2, <3>1
    <3>4. /\ srv[s].counters[j] \in Nat /\ srv[s].total[j] \in Nat
          /\ e.seen.total[j] \in Nat
      BY <2>2, <2>3, <3>1
    <3> QED BY <3>1, <3>2, <3>3, <3>4
  <2> QED BY <1>2, <1>3, <2>1, <2>4, <2>5 DEF Between
<1>7. ASSUME srv'[s].resets = srv[s].resets + 1,
             srv'[s].total = srv[s].total,
             srv'[s].counters = [k \in Counters |-> 0],
             \/ srv'[s].boot = srv[s].boot /\ srv'[s].uptime = srv[s].uptime
             \/ srv'[s].boot = srv[s].boot + 1
      PROVE  Kept
  <2>1. /\ e.seen.resets \in Nat /\ srv[s].resets \in Nat
        /\ e.seen.boot \in Nat /\ srv[s].boot \in Nat
        /\ \A k \in Counters : e.seen.total[k] \in Nat /\ srv[s].total[k] \in Nat
    BY <1>1 DEF Server, Seen
  <2>2. e.seen.resets <= srv[s].resets /\ e.seen.boot <= srv[s].boot
    BY <1>2, <1>3 DEF Between
  <2>3. \A k \in Counters : e.seen.total[k] <= srv[s].total[k]
    BY <1>2, <1>3 DEF Between
  <2>4. \A k \in Counters : srv'[s].counters[k] = 0
    BY <1>7
  <2>5. e.seen.resets < srv'[s].resets /\ e.seen.boot <= srv'[s].boot
    BY <1>7, <2>1, <2>2
  <2>6. e.seen.boot = srv'[s].boot =>
           srv'[s].boot = srv[s].boot /\ srv'[s].uptime = srv[s].uptime
    BY <1>7, <2>1, <2>2
  <2>7. \A k \in DOMAIN e.counters \cap DOMAIN w.counters :
           w.counters[k] <= w.seen.total[k] - e.seen.total[k]
    BY <1>1, <1>2, <1>7, <2>1, <2>3, <2>4
  <2> QED BY <1>2, <1>3, <1>7, <2>1, <2>3, <2>5, <2>6, <2>7 DEF Between
<1>8. ASSUME Tick PROVE Kept
  BY <1>5, <1>8 DEF Tick, TypeOK
<1>9. ASSUME NEW t \in Servers, NEW ks \in Works[t], Work(t, ks) PROVE Kept
  BY <1>4, <1>6, <1>9 DEF Work, TypeOK
<1>10. ASSUME NEW t \in Servers, Restart(t) PROVE Kept
  BY <1>1, <1>4, <1>7, <1>10 DEF Restart, TypeOK, Server
<1>11. ASSUME NEW t \in Servers, FlushStatus(t) PROVE Kept
  BY <1>1, <1>4, <1>7, <1>11 DEF FlushStatus, TypeOK, Server
<1> QED BY <1>4, <1>8, <1>9, <1>10, <1>11

\* What HasBaseline lets through, for entries of which one was read before the
\* other, is a movement that is not more than the server made.
LEMMA GradedIsReal ==
    ASSUME NEW base, NEW now, NEW c, NEW check, NEW n, NEW k,
           n \in DOMAIN base.nodes, n \in DOMAIN now.nodes,
           IsNodeState(base.nodes[n]), IsNodeState(now.nodes[n]),
           Between(base.nodes[n], now.nodes[n]),
           HasBaseline(base, n, k, now.nodes[n])
    PROVE  LET g == Movement(c, base, now, check, n, k)
           IN  /\ 0 <= g.delta.value
               /\ g.delta.value <= g.to.total[k] - g.from.total[k]
               /\ g.delta.elapsed > 0
               /\ g.from.resets = g.to.resets =>
                     g.delta.value = g.to.total[k] - g.from.total[k]
<1> DEFINE e == base.nodes[n]
           v == now.nodes[n]
           g == Movement(c, base, now, check, n, k)
<1>1. /\ k \in DOMAIN e.counters
      /\ k \in DOMAIN v.counters
      /\ v.counters[k] >= e.counters[k]
      /\ Elapsed(e.at, v.at) > 0
  BY DEF HasBaseline
<1>2. /\ k \in Counters
      /\ e.counters[k] \in Nat /\ v.counters[k] \in Nat
      /\ Elapsed(e.at, v.at) \in Int
      /\ e.seen.total[k] \in Nat /\ v.seen.total[k] \in Nat
      /\ e.seen.resets \in Nat /\ v.seen.resets \in Nat
  BY <1>1 DEF IsNodeState, IsTime, Elapsed, Seen
<1>3. /\ g.delta.value = v.counters[k] - e.counters[k]
      /\ g.delta.elapsed = Elapsed(e.at, v.at)
      /\ g.from = e.seen
      /\ g.to = v.seen
  BY DEF Movement, Since
<1>4. /\ e.seen.resets <= v.seen.resets
      /\ e.seen.resets = v.seen.resets =>
            v.counters[k] - e.counters[k] = v.seen.total[k] - e.seen.total[k]
      /\ e.seen.resets < v.seen.resets =>
            v.counters[k] <= v.seen.total[k] - e.seen.total[k]
  BY <1>1 DEF Between
<1> HIDE DEF e, v, g
<1>5. /\ 0 <= g.delta.value
      /\ g.delta.value <= g.to.total[k] - g.from.total[k]
      /\ g.delta.elapsed > 0
      /\ g.from.resets = g.to.resets =>
            g.delta.value = g.to.total[k] - g.from.total[k]
  BY <1>1, <1>2, <1>3, <1>4
<1> QED BY <1>5 DEF g

\* A node that CameBack between two entries has booted again.
LEMMA CameBackIsReal ==
    ASSUME NEW e, NEW v, IsNodeState(e), IsNodeState(v), Between(e, v), CameBack(e, v)
    PROVE  e.seen.boot < v.seen.boot
<1>1. /\ e.seen.boot \in Nat /\ v.seen.boot \in Nat
      /\ e.uptime \in Nat /\ v.uptime \in Nat
  BY DEF IsNodeState, Seen
<1>2. e.seen.boot <= v.seen.boot
  BY DEF Between
<1>3. CASE e.gcommUUID # 0 /\ v.gcommUUID # 0 /\ e.gcommUUID # v.gcommUUID
  BY <1>1, <1>2, <1>3 DEF Between
<1>4. CASE UptimeShrank(e, v)
  BY <1>1, <1>2, <1>4 DEF Between, UptimeShrank
<1> QED BY <1>3, <1>4 DEF CameBack

\* Between does not look at the time an entry carries.
LEMMA BetweenIgnoresTime ==
    ASSUME NEW snap, NEW now, NEW e
    PROVE  /\ Between(e, NodeStateOf(snap, now)) <=> Between(e, EntryOf(snap))
           /\ \A s, r : Before(NodeStateOf(snap, now), s, r) <=> Before(EntryOf(snap), s, r)
BY DEF Between, Before, EntryOf, NodeStateOf, Answering

\* No entry, nothing to account for.
LEMMA EmptyBefore ==
    /\ \A servers : EntriesBefore(NoState, servers) /\ EntriesBefore(EmptyState, servers)
    /\ \A p : EntriesOfPass(NoState, p) /\ EntriesOfPass(EmptyState, p)
    /\ \A s \in Servers : IdleSnaps[s].step = "idle"
BY DEF EntriesBefore, EntriesOfPass, NoState, EmptyState, EmptyMap, IdleSnaps, IdleSnap

\* Writing a state to the file keeps what its entries say of the servers.
LEMMA WrittenBefore ==
    ASSUME NEW st, IsState(st), NEW p, EntriesOfPass(st, p), EntriesBefore(st, srv)
    PROVE  EntriesBefore(Written(st), srv) /\ EntriesOfPass(Written(st), p)
<1>1. ASSUME NEW key \in DOMAIN st.nodes
      PROVE  LET e == st.nodes[key]
                 w == Written(st).nodes[key]
             IN  /\ w.seen = e.seen /\ w.uptime = e.uptime
                 /\ w.gcommUUID = e.gcommUUID /\ w.counters = e.counters
  <2>1. IsNodeState(st.nodes[key])
    BY DEF IsState
  <2>2. Written(st).nodes[key] = [st.nodes[key] EXCEPT !.at.mono = 0]
    BY WrittenTypes
  <2>3. /\ Written(st).nodes[key].seen = st.nodes[key].seen
        /\ Written(st).nodes[key].uptime = st.nodes[key].uptime
        /\ Written(st).nodes[key].gcommUUID = st.nodes[key].gcommUUID
        /\ Written(st).nodes[key].counters = st.nodes[key].counters
    BY <2>1, <2>2 DEF IsNodeState
  <2> QED BY <2>3
<1>2. DOMAIN Written(st).nodes = DOMAIN st.nodes
  BY WrittenTypes
<1>3. EntriesOfPass(Written(st), p)
  BY <1>1, <1>2 DEF EntriesOfPass
<1>4. EntriesBefore(Written(st), srv)
  BY <1>1, <1>2 DEF EntriesBefore, Before, Between
<1> QED BY <1>3, <1>4

\* The entries of a well-formed state stay accounted for in any step that the
\* lemma above speaks of.
LEMMA StateKeepsBefore ==
    ASSUME TypeOK,
           \/ UNCHANGED srv
           \/ Tick
           \/ \E t \in Servers : \E ks \in Works[t] : Work(t, ks)
           \/ \E t \in Servers : Restart(t)
           \/ \E t \in Servers : FlushStatus(t),
           NEW st, IsState(st), EntriesBefore(st, srv)
    PROVE  EntriesBefore(st, srv')
<1> SUFFICES ASSUME NEW s \in Servers, KeyOf(s) \in DOMAIN st.nodes
             PROVE  Before(st.nodes[KeyOf(s)], s, srv'[s])
  BY DEF EntriesBefore
<1>1. IsNodeState(st.nodes[KeyOf(s)]) /\ Before(st.nodes[KeyOf(s)], s, srv[s])
  BY DEF IsState, EntriesBefore
<1> QED BY <1>1, WorldKeepsBefore

\* A step of the world keeps the invariant.
LEMMA WorldStep ==
    ASSUME IInv, UNCHANGED process,
           \/ UNCHANGED srv
           \/ Tick
           \/ \E t \in Servers : \E ks \in Works[t] : Work(t, ks)
           \/ \E t \in Servers : Restart(t)
           \/ \E t \in Servers : FlushStatus(t),
           \/ UNCHANGED <<file, saved>>
           \/ file'.state = NoState
    PROVE  EntriesInv' /\ SnapsInv' /\ PassInv' /\ ReportInv'
<1>1. /\ UNCHANGED <<pc, prev, merged, snaps, graded, restarted, pass, first, loaded>>
      /\ TypeOK
  BY DEF process, findings, IInv
<1>2. EntriesInv'
  <2>1. /\ EntriesBefore(file.state, srv')
        /\ EntriesBefore(prev, srv')
        /\ EntriesBefore(merged, srv')
    BY <1>1, StateKeepsBefore DEF IInv, EntriesInv, TypeOK
  <2> QED BY <1>1, <2>1, EmptyBefore DEF EntriesInv
<1>3. SnapsInv'
  <2> SUFFICES ASSUME NEW s \in Servers, snaps[s].step = "read"
               PROVE  Before(EntryOf(snaps[s]), s, srv'[s])
    BY <1>1 DEF IInv, SnapsInv
  <2>1. Before(EntryOf(snaps[s]), s, srv[s])
    BY DEF IInv, SnapsInv
  <2>2. IsNodeState(EntryOf(snaps[s]))
    <3>1. IsTime(ZeroTime)
      BY DEF ZeroTime, IsTime
    <3> QED BY <1>1, <3>1, NodeStateType DEF TypeOK, EntryOf
  <2> QED BY <1>1, <2>1, <2>2, WorldKeepsBefore
<1>4. PassInv'
  <2>1. EntriesOfPass(prev, BaselinePass)' /\ EntriesOfPass(merged, pass)'
    BY <1>1 DEF IInv, PassInv, BaselinePass, EntriesOfPass
  <2>2. EntriesOfPass(file.state, saved)'
    BY EmptyBefore DEF IInv, PassInv
  <2> QED BY <2>1, <2>2 DEF PassInv
<1>5. ReportInv'
  BY <1>1 DEF IInv, ReportInv, NeverInvents, ExactWhenContinuous, OwnBaseline,
              OwnInterval, RestartsAreReal
<1> QED BY <1>2, <1>3, <1>4, <1>5

\* A pass that has reported nothing has reported nothing wrong.
LEMMA NothingReported == graded' = {} /\ restarted' = {} => ReportInv'
BY DEF ReportInv, NeverInvents, ExactWhenContinuous, OwnBaseline, OwnInterval, RestartsAreReal

\* What was reported stays as it was while the pass goes on.
LEMMA ReportKept ==
    ReportInv /\ UNCHANGED <<graded, restarted, pass, first, loaded>> => ReportInv'
BY DEF ReportInv, NeverInvents, ExactWhenContinuous, OwnBaseline, OwnInterval, RestartsAreReal

\* A process that is gone leaves only the file behind.
LEMMA GoDownStep ==
    ASSUME IInv, GoDown, UNCHANGED srv,
           EntriesBefore(file'.state, srv), EntriesOfPass(file'.state, saved')
    PROVE  EntriesInv' /\ SnapsInv' /\ PassInv' /\ ReportInv'
<1>1. prev' = NoState /\ merged' = EmptyState /\ snaps' = IdleSnaps
  BY DEF GoDown
<1>2. EntriesInv'
  BY <1>1, EmptyBefore DEF EntriesInv
<1>3. SnapsInv'
  BY <1>1, EmptyBefore DEF SnapsInv
<1>4. PassInv'
  BY <1>1, EmptyBefore DEF PassInv
<1>5. ReportInv'
  BY NothingReported DEF GoDown
<1> QED BY <1>2, <1>3, <1>4, <1>5

\* A step of one node's read keeps the invariant: the entry that the snapshot
\* will leave is the server as it is now, and the baseline's was read before.
LEMMA FetchStep ==
    ASSUME IInv, NEW s \in Servers, NEW reported \in Reports, Fetch(s, reported)
    PROVE  EntriesInv' /\ SnapsInv' /\ PassInv' /\ ReportInv'
<1>1. /\ UNCHANGED <<clock, srv, file, pc, prev, merged, graded, restarted,
                     pass, first, saved, loaded>>
      /\ TypeOK
  BY DEF Fetch, world, findings, IInv
<1>2. EntriesInv' /\ PassInv' /\ ReportInv'
  BY <1>1, ReportKept DEF IInv, EntriesInv, PassInv, BaselinePass, EntriesOfPass, EntriesBefore
<1> DEFINE v == Answering(s, srv[s])
           x == EntryOf(snaps'[s])
<1>3. /\ snaps'[s].step = "read"
      /\ snaps'[s].status = [name \in reported |-> Answer(srv[s], name)]
      /\ snaps'[s].seen = [server |-> s, pass |-> pass, boot |-> srv[s].boot,
                           resets |-> srv[s].resets, total |-> srv[s].total]
      /\ \A t \in Servers \ {s} : snaps'[t] = snaps[t]
  BY <1>1 DEF Fetch, TypeOK, IsSnap
<1>4. /\ x.seen.server = s /\ x.seen.pass = pass /\ x.seen.boot = srv[s].boot
      /\ x.seen.resets = srv[s].resets /\ x.seen.total = srv[s].total
      /\ x.uptime \in {0, srv[s].uptime}
      /\ x.gcommUUID \in {0, srv[s].boot}
      /\ DOMAIN x.counters \subseteq Counters
      /\ \A k \in DOMAIN x.counters : x.counters[k] = srv[s].counters[k]
  <2>1. /\ Reported(snaps'[s].status, "uptime") \in {0, srv[s].uptime}
        /\ Reported(snaps'[s].status, "gcomm_uuid") \in {0, srv[s].boot}
    BY <1>3 DEF Reported, Answer
  <2>2. \A k \in Counters \cap DOMAIN snaps'[s].status : snaps'[s].status[k] = srv[s].counters[k]
    BY <1>3, CountersAssumption DEF Answer
  <2> QED BY <1>3, <2>1, <2>2 DEF EntryOf, NodeStateOf
<1>5. srv[s] \in Server
  BY <1>1 DEF TypeOK
<1>6. /\ v.seen.server = s /\ v.seen.boot = srv[s].boot /\ v.uptime = srv[s].uptime
      /\ v.gcommUUID = srv[s].boot /\ v.counters = srv[s].counters
      /\ v.seen.resets = srv[s].resets /\ v.seen.total = srv[s].total
  BY DEF Answering
<1> HIDE DEF v, x
<1>7. Before(x, s, srv[s])
  <2>1. Between(x, v)
    BY <1>4, <1>5, <1>6 DEF Between, Server
  <2>2. x.uptime <= srv[s].uptime
    BY <1>4, <1>5 DEF Server
  <2> QED BY <2>1, <2>2 DEF Before, v
<1>8. ASSUME pc = "collect", KeyOf(s) \in DOMAIN prev.nodes
      PROVE  Between(prev.nodes[KeyOf(s)], x)
  <2>1. Before(prev.nodes[KeyOf(s)], s, srv[s]) /\ IsNodeState(prev.nodes[KeyOf(s)])
    BY <1>1, <1>8 DEF IInv, EntriesInv, EntriesBefore, TypeOK, IsState
  <2>2. Between(prev.nodes[KeyOf(s)], v)
    BY <2>1 DEF Before, v
  <2>3. prev.nodes[KeyOf(s)].seen.boot = srv[s].boot => prev.nodes[KeyOf(s)].uptime <= srv[s].uptime
    BY <2>1 DEF Before
  <2>4. DOMAIN x.counters \subseteq DOMAIN v.counters
    BY <1>4, <1>5, <1>6 DEF Server
  <2> QED BY <1>4, <1>6, <2>2, <2>3, <2>4 DEF Between
<1>9. SnapsInv'
  <2> SUFFICES ASSUME NEW t \in Servers, snaps'[t].step = "read"
               PROVE  /\ Before(EntryOf(snaps'[t]), t, srv[t])
                      /\ snaps'[t].seen.pass = pass
                      /\ (pc = "collect" /\ KeyOf(t) \in DOMAIN prev.nodes) =>
                            Between(prev.nodes[KeyOf(t)], EntryOf(snaps'[t]))
    BY <1>1 DEF SnapsInv
  <2>1. CASE t = s
    BY <1>3, <1>7, <1>8, <2>1 DEF x
  <2>2. CASE t # s
    BY <1>3, <2>2 DEF IInv, SnapsInv
  <2> QED BY <2>1, <2>2
<1> QED BY <1>2, <1>9

\* Starting a read, or giving one up, makes no entry.
LEMMA SnapStep ==
    ASSUME IInv, NEW s \in Servers, Stamp(s) \/ FailRead(s)
    PROVE  EntriesInv' /\ SnapsInv' /\ PassInv' /\ ReportInv'
<1>1. /\ UNCHANGED <<clock, srv, file, pc, prev, merged, graded, restarted,
                     pass, first, saved, loaded>>
      /\ TypeOK
  BY DEF Stamp, FailRead, world, findings, IInv
<1>2. EntriesInv' /\ PassInv' /\ ReportInv'
  BY <1>1, ReportKept DEF IInv, EntriesInv, PassInv, BaselinePass, EntriesOfPass, EntriesBefore
<1>3. snaps'[s].step # "read" /\ \A t \in Servers \ {s} : snaps'[t] = snaps[t]
  <2>1. CASE Stamp(s)
    BY <1>1, <2>1 DEF Stamp, TypeOK, IsSnap
  <2>2. CASE FailRead(s)
    BY <1>1, <2>2 DEF FailRead, TypeOK, IdleSnap
  <2> QED BY <2>1, <2>2
<1>4. SnapsInv'
  BY <1>1, <1>3 DEF IInv, SnapsInv
<1> QED BY <1>2, <1>4

\* A pass begins with the baseline the last one left, or with the file's.
LEMMA BeginStep ==
    ASSUME IInv,
           NextPass \/ \E T \in TargetSets, watch \in BOOLEAN : Start(T, watch)
    PROVE  EntriesInv' /\ SnapsInv' /\ PassInv' /\ ReportInv'
<1>1. /\ UNCHANGED <<srv, file, saved>>
      /\ merged' = EmptyState
      /\ snaps' = IdleSnaps
      /\ graded' = {}
      /\ restarted' = {}
      /\ pc' = "collect"
      /\ pass' = pass + 1
      /\ TypeOK
  BY DEF NextPass, Start, BeginPass, world, IInv
<1>2. SnapsInv'
  BY <1>1, EmptyBefore DEF SnapsInv
<1>3. ReportInv'
  BY <1>1, NothingReported
<1>4. CASE NextPass
  <2>1. prev' = prev /\ first' = first /\ first \in 0..pass /\ pass \in Nat /\ pc = "wait"
    BY <1>1, <1>4 DEF NextPass, TypeOK
  <2>2. BaselinePass' = pass
    BY <1>1, <2>1 DEF BaselinePass
  <2>3. EntriesOfPass(prev, pass)
    BY <2>1 DEF IInv, PassInv, BaselinePass
  <2> QED BY <1>1, <1>2, <1>3, <2>1, <2>2, <2>3, EmptyBefore DEF EntriesInv, PassInv, IInv
<1>5. ASSUME NEW T \in TargetSets, NEW watch \in BOOLEAN, Start(T, watch)
      PROVE  EntriesInv' /\ PassInv'
  <2>1. first' = pass + 1 /\ pass \in Nat
    BY <1>1, <1>5 DEF Start, TypeOK
  <2>2. BaselinePass' = loaded'
    BY <1>1, <2>1 DEF BaselinePass
  <2>3. EntriesBefore(prev', srv) /\ EntriesOfPass(prev', loaded')
    BY <1>5, EmptyBefore DEF Start, Load, IInv, EntriesInv, PassInv
  <2> QED BY <1>1, <2>2, <2>3, EmptyBefore DEF EntriesInv, PassInv, IInv
<1> QED BY <1>2, <1>3, <1>4, <1>5

\* What is saved is what this pass read; what is held is that too, or nothing.
LEMMA SaveStep ==
    ASSUME IInv, Save
    PROVE  EntriesInv' /\ SnapsInv' /\ PassInv' /\ ReportInv'
<1>1. UNCHANGED <<srv, pass>> /\ TypeOK
  BY DEF Save, world, IInv
<1>2. EntriesBefore(file'.state, srv) /\ EntriesOfPass(file'.state, saved')
  <2>1. CASE file' = [kind |-> "state", state |-> Written(merged)] /\ saved' = pass
    BY <1>1, <2>1, WrittenBefore DEF IInv, EntriesInv, PassInv, TypeOK
  <2>2. CASE UNCHANGED <<file, saved>>
    BY <2>2 DEF IInv, EntriesInv, PassInv
  <2> QED BY <2>1, <2>2 DEF Save
<1>3. CASE ~watching /\ GoDown
  BY <1>1, <1>2, <1>3, GoDownStep
<1>4. CASE /\ watching
           /\ prev' = Held(merged)
           /\ pc' = "wait"
           /\ UNCHANGED <<watching, targets, left, merged, snaps, findings,
                          first, loaded, earlier>>
  <2>1. prev' = merged /\ merged' = merged /\ pc' = "wait" /\ BaselinePass' = pass
    BY <1>1, <1>4 DEF Held, BaselinePass
  <2>2. EntriesInv'
    BY <1>1, <1>2, <2>1 DEF EntriesInv, IInv
  <2>3. PassInv'
    BY <1>1, <1>2, <2>1 DEF PassInv, IInv
  <2>4. SnapsInv'
    BY <1>1, <1>4 DEF SnapsInv, IInv
  <2>5. ReportInv'
    BY <1>1, <1>4, ReportKept DEF findings, IInv
  <2> QED BY <2>2, <2>3, <2>4, <2>5
<1> QED BY <1>3, <1>4 DEF Save

\* Auditing a cluster grades true movements over this pass's interval, and
\* folds entries of this pass into the state to persist.
LEMMA AuditStep ==
    ASSUME IInv, NEW c \in Clusters, Audit(c)
    PROVE  EntriesInv' /\ SnapsInv' /\ PassInv' /\ ReportInv'
<1> DEFINE now == New(SnapsOf(c), Now)
           base == BaselineOf(c)
<1>1. /\ UNCHANGED <<clock, srv, file, pc, prev, snaps, pass, first, saved, loaded>>
      /\ pc = "collect"
      /\ TypeOK
      /\ graded' = graded \cup GradedIn(c, base, now)
      /\ restarted' = restarted \cup RestartedIn(c, base, now)
      /\ merged' = [merged EXCEPT !.nodes = Merge(merged.nodes, PathOf[c], now.nodes)]
  BY DEF Audit, world, IInv
<1>2. /\ DOMAIN now.nodes \subseteq NodesOf[c]
      /\ \A n \in DOMAIN now.nodes :
            /\ now.nodes[n] = NodeStateOf(snaps[<<c, n>>], Now)
            /\ snaps[<<c, n>>].step = "read"
            /\ IsNodeState(now.nodes[n])
      /\ DOMAIN base.nodes \subseteq NodesOf[c]
      /\ \A n \in DOMAIN base.nodes :
            /\ KeyOf(<<c, n>>) \in DOMAIN prev.nodes
            /\ base.nodes[n] = prev.nodes[KeyOf(<<c, n>>)]
            /\ IsNodeState(base.nodes[n])
  BY <1>1, AuditTypes
<1> HIDE DEF now, base
<1>3. ASSUME NEW n \in DOMAIN now.nodes
      PROVE  /\ Before(now.nodes[n], <<c, n>>, srv[<<c, n>>])
             /\ now.nodes[n].seen.server = <<c, n>>
             /\ now.nodes[n].seen.pass = pass
  <2>1. <<c, n>> \in Servers /\ snaps[<<c, n>>].step = "read"
    BY <1>2, ServerPair
  <2>2. Before(EntryOf(snaps[<<c, n>>]), <<c, n>>, srv[<<c, n>>])
          /\ snaps[<<c, n>>].seen.pass = pass
    BY <2>1 DEF IInv, SnapsInv
  <2>3. Before(now.nodes[n], <<c, n>>, srv[<<c, n>>])
    BY <1>2, <2>2, BetweenIgnoresTime
  <2>4. now.nodes[n].seen = snaps[<<c, n>>].seen
    <3>1. NodeStateOf(snaps[<<c, n>>], Now).seen = snaps[<<c, n>>].seen
      BY DEF NodeStateOf
    <3> QED BY <1>2, <3>1
  <2>5. now.nodes[n].seen.server = <<c, n>>
    BY <2>3 DEF Before, Between, Answering
  <2> QED BY <2>2, <2>3, <2>4, <2>5
<1>4. ASSUME NEW n \in DOMAIN now.nodes, n \in DOMAIN base.nodes
      PROVE  /\ Between(base.nodes[n], now.nodes[n])
             /\ base.nodes[n].seen.server = <<c, n>>
             /\ base.nodes[n].seen.pass = IF pass > first THEN pass - 1 ELSE loaded
  <2>1. <<c, n>> \in Servers /\ snaps[<<c, n>>].step = "read"
    BY <1>2, ServerPair
  <2>2. Between(base.nodes[n], EntryOf(snaps[<<c, n>>]))
    BY <1>1, <1>2, <1>4, <2>1 DEF IInv, SnapsInv
  <2>3. Between(base.nodes[n], now.nodes[n])
    BY <1>2, <2>2, BetweenIgnoresTime
  <2>4. base.nodes[n].seen.pass = BaselinePass
    BY <1>2, <1>4 DEF IInv, PassInv, EntriesOfPass
  <2> QED BY <1>1, <1>3, <2>3, <2>4 DEF Between, BaselinePass
<1>5. ASSUME NEW g \in GradedIn(c, base, now)
      PROVE  /\ 0 <= g.delta.value
             /\ g.delta.value <= g.to.total[g.counter] - g.from.total[g.counter]
             /\ g.delta.elapsed > 0
             /\ g.from.resets = g.to.resets =>
                   g.delta.value = g.to.total[g.counter] - g.from.total[g.counter]
             /\ g.from.server = g.server
             /\ g.to.server = g.server
             /\ g.to.pass = pass
             /\ g.from.pass = IF pass > first THEN pass - 1 ELSE loaded
  <2>1. PICK check \in Checks, n \in DOMAIN now.nodes, k \in GradedCounters :
           /\ HasBaseline(base, n, k, now.nodes[n])
           /\ g = Movement(c, base, now, check, n, k)
    BY GradedEntry
  <2>2. n \in DOMAIN base.nodes
    BY <2>1 DEF HasBaseline
  <2>3. /\ g.counter = k /\ g.server = <<c, n>>
        /\ g.from = base.nodes[n].seen /\ g.to = now.nodes[n].seen
    BY <2>1 DEF Movement
  <2>4. /\ 0 <= g.delta.value
        /\ g.delta.value <= g.to.total[k] - g.from.total[k]
        /\ g.delta.elapsed > 0
        /\ g.from.resets = g.to.resets =>
              g.delta.value = g.to.total[k] - g.from.total[k]
    <3>1. /\ IsNodeState(base.nodes[n]) /\ IsNodeState(now.nodes[n])
          /\ Between(base.nodes[n], now.nodes[n])
          /\ HasBaseline(base, n, k, now.nodes[n])
      BY <1>2, <1>4, <2>1, <2>2
    <3> DEFINE m == Movement(c, base, now, check, n, k)
    <3>2. /\ 0 <= m.delta.value
          /\ m.delta.value <= m.to.total[k] - m.from.total[k]
          /\ m.delta.elapsed > 0
          /\ m.from.resets = m.to.resets =>
                m.delta.value = m.to.total[k] - m.from.total[k]
      BY <2>2, <3>1, GradedIsReal
    <3>3. g = m
      BY <2>1
    <3> HIDE DEF m
    <3> QED BY <3>2, <3>3
  <2> QED BY <1>3, <1>4, <2>2, <2>3, <2>4
<1>6. ASSUME NEW r \in RestartedIn(c, base, now)
      PROVE  /\ r.from.boot < r.to.boot
             /\ r.from.server = r.server
             /\ r.to.server = r.server
             /\ r.to.pass = pass
             /\ r.from.pass = IF pass > first THEN pass - 1 ELSE loaded
  <2>1. PICK n \in DOMAIN now.nodes \cap DOMAIN base.nodes :
           /\ CameBack(base.nodes[n], now.nodes[n])
           /\ r = [server |-> <<c, n>>, from |-> base.nodes[n].seen, to |-> now.nodes[n].seen]
    BY DEF RestartedIn
  <2>2. base.nodes[n].seen.boot < now.nodes[n].seen.boot
    BY <1>2, <1>4, <2>1, CameBackIsReal
  <2> QED BY <1>3, <1>4, <2>1, <2>2
<1>7. ReportInv'
  <2>1. NeverInvents' /\ ExactWhenContinuous'
    BY <1>1, <1>5 DEF IInv, ReportInv, NeverInvents, ExactWhenContinuous
  <2>2. OwnBaseline'
    BY <1>1, <1>5, <1>6 DEF IInv, ReportInv, OwnBaseline
  <2>3. OwnInterval'
    BY <1>1, <1>5, <1>6 DEF IInv, ReportInv, OwnInterval
  <2>4. RestartsAreReal'
    BY <1>1, <1>6 DEF IInv, ReportInv, RestartsAreReal
  <2> QED BY <2>1, <2>2, <2>3, <2>4 DEF ReportInv
<1>8. merged'.nodes = Merge(merged.nodes, PathOf[c], now.nodes)
  BY <1>1 DEF TypeOK, IsState
<1>9. ASSUME NEW key \in DOMAIN merged'.nodes
      PROVE  /\ merged'.nodes[key].seen.pass = pass
             /\ \A s \in Servers : KeyOf(s) = key => Before(merged'.nodes[key], s, srv[s])
  <2>1. \/ \E n \in DOMAIN now.nodes :
              key = FileKey(PathOf[c], n) /\ merged'.nodes[key] = now.nodes[n]
        \/ key \in DOMAIN merged.nodes /\ merged'.nodes[key] = merged.nodes[key]
    BY <1>8, MergeEntry
  <2>2. ASSUME NEW n \in DOMAIN now.nodes, key = FileKey(PathOf[c], n),
               merged'.nodes[key] = now.nodes[n], NEW s \in Servers, KeyOf(s) = key
        PROVE  Before(merged'.nodes[key], s, srv[s])
    <3>1. <<c, n>> \in Servers /\ KeyOf(<<c, n>>) = KeyOf(s)
      BY <1>2, <2>2, ServerPair
    <3>2. s = <<c, n>>
      BY <3>1, NamesAssumption DEF KeyOf, FileKey
    <3> QED BY <1>3, <2>2, <3>2
  <2>3. ASSUME key \in DOMAIN merged.nodes, merged'.nodes[key] = merged.nodes[key]
        PROVE  /\ merged'.nodes[key].seen.pass = pass
               /\ \A s \in Servers : KeyOf(s) = key => Before(merged'.nodes[key], s, srv[s])
    BY <2>3 DEF IInv, EntriesInv, EntriesBefore, PassInv, EntriesOfPass
  <2> QED BY <1>3, <2>1, <2>2, <2>3
<1>10. EntriesInv'
  BY <1>1, <1>9 DEF IInv, EntriesInv, EntriesBefore
<1>11. PassInv'
  BY <1>1, <1>9 DEF IInv, PassInv, EntriesOfPass, BaselinePass
<1>12. SnapsInv'
  BY <1>1 DEF IInv, SnapsInv
<1> QED BY <1>7, <1>10, <1>11, <1>12

\* Every step of the world and of the auditor keeps the invariant.
LEMMA InvariantStep == IInv /\ [Next]_vars => IInv'
<1> SUFFICES ASSUME IInv, [Next]_vars PROVE IInv'
  OBVIOUS
<1>1. TypeOK'
  BY TypeStep DEF IInv
<1> DEFINE Rest == EntriesInv' /\ SnapsInv' /\ PassInv' /\ ReportInv'
<1>2. ASSUME Tick PROVE Rest
  <2>1. UNCHANGED process /\ UNCHANGED <<file, saved>>
    BY <1>2 DEF Tick
  <2> QED BY <1>2, <2>1, WorldStep
<1>3. ASSUME StepBack PROVE Rest
  <2>1. UNCHANGED srv /\ UNCHANGED process /\ UNCHANGED <<file, saved>>
    BY <1>3 DEF StepBack
  <2> QED BY <2>1, WorldStep
<1>4. ASSUME NEW s \in Servers, NEW ks \in Works[s], Work(s, ks) PROVE Rest
  <2>1. UNCHANGED process /\ UNCHANGED <<file, saved>>
    BY <1>4 DEF Work
  <2> QED BY <1>4, <2>1, WorldStep
<1>5. ASSUME NEW s \in Servers, Restart(s) PROVE Rest
  <2>1. UNCHANGED process /\ UNCHANGED <<file, saved>>
    BY <1>5 DEF Restart
  <2> QED BY <1>5, <2>1, WorldStep
<1>6. ASSUME NEW s \in Servers, FlushStatus(s) PROVE Rest
  <2>1. UNCHANGED process /\ UNCHANGED <<file, saved>>
    BY <1>6 DEF FlushStatus
  <2> QED BY <1>6, <2>1, WorldStep
<1>7. ASSUME LoseFile PROVE Rest
  <2>1. UNCHANGED srv /\ UNCHANGED process /\ file'.state = NoState
    BY <1>7 DEF LoseFile, NoFile, world
  <2> QED BY <2>1, WorldStep
<1>8. ASSUME NEW T \in TargetSets, NEW watch \in BOOLEAN, Start(T, watch) PROVE Rest
  BY <1>8, BeginStep
<1>9. ASSUME NEW s \in Servers, Stamp(s) PROVE Rest
  BY <1>9, SnapStep
<1>10. ASSUME NEW s \in Servers, NEW reported \in Reports, Fetch(s, reported) PROVE Rest
  BY <1>10, FetchStep
<1>11. ASSUME NEW s \in Servers, FailRead(s) PROVE Rest
  BY <1>11, SnapStep
<1>12. ASSUME NEW c \in Clusters, Audit(c) PROVE Rest
  BY <1>12, AuditStep
<1>13. ASSUME Save PROVE Rest
  BY <1>13, SaveStep
<1>14. ASSUME NextPass PROVE Rest
  BY <1>14, BeginStep
<1>15. ASSUME Kill PROVE Rest
  <2>1. GoDown /\ UNCHANGED <<srv, file, saved>>
    BY <1>15 DEF Kill, world
  <2> QED BY <2>1, GoDownStep DEF IInv, EntriesInv, PassInv
<1>16. ASSUME UNCHANGED vars PROVE Rest
  <2>1. UNCHANGED <<srv, process, file, saved>>
    BY <1>16 DEF vars, process, findings
  <2> QED BY <2>1, WorldStep
<1> QED BY <1>1, <1>2, <1>3, <1>4, <1>5, <1>6, <1>7, <1>8, <1>9, <1>10, <1>11, <1>12,
           <1>13, <1>14, <1>15, <1>16 DEF Next, Environment, Auditor, IInv

\* The invariant holds when no run was made yet.
LEMMA InvariantInit == Init => IInv
<1> SUFFICES ASSUME Init PROVE IInv
  OBVIOUS
<1>1. TypeOK
  BY TypeInit
<1>2. file.state = NoState /\ prev = NoState /\ merged = EmptyState /\ snaps = IdleSnaps
        /\ graded = {} /\ restarted = {}
  BY DEF Init, NoFile
<1>3. EntriesInv /\ SnapsInv /\ PassInv
  BY <1>2, EmptyBefore DEF EntriesInv, SnapsInv, PassInv
<1>4. ReportInv
  BY <1>2 DEF ReportInv, NeverInvents, ExactWhenContinuous, OwnBaseline, OwnInterval,
              RestartsAreReal
<1> QED BY <1>1, <1>3, <1>4 DEF IInv

\* Every entry held anywhere stays accounted for, in every behaviour.
THEOREM Invariant == Spec => []IInv
BY InvariantInit, InvariantStep, PTL DEF Spec

-----------------------------------------------------------------------------
(* The properties of Rates, for every value of its constants. *)

\* A graded movement is not negative, not more than the server really made
\* between the two reads, and over a positive interval.
THEOREM NothingInvented == Spec => []NeverInvents
<1>1. IInv => NeverInvents
  BY DEF IInv, ReportInv
<1> QED BY <1>1, Invariant, PTL

\* Where nothing set the counters to zero, the movement graded is exact.
THEOREM ExactMovement == Spec => []ExactWhenContinuous
<1>1. IInv => ExactWhenContinuous
  BY DEF IInv, ReportInv
<1> QED BY <1>1, Invariant, PTL

\* A node is only compared with itself, whatever shares its name or its file.
THEOREM ComparedWithItself == Spec => []OwnBaseline
<1>1. IInv => OwnBaseline
  BY DEF IInv, ReportInv
<1> QED BY <1>1, Invariant, PTL

\* The baseline of a graded movement is the pass just before this one, or the
\* pass that wrote the file this process loaded.
THEOREM GradedOverItsInterval == Spec => []OwnInterval
<1>1. IInv => OwnInterval
  BY DEF IInv, ReportInv
<1> QED BY <1>1, Invariant, PTL

\* node/restarted is only said of a server that booted again.
THEOREM NoFalseRestart == Spec => []RestartsAreReal
<1>1. IInv => RestartsAreReal
  BY DEF IInv, ReportInv
<1> QED BY <1>1, Invariant, PTL
-----------------------------------------------------------------------------
(***************************************************************************)
(* What is not passed over.  For NoSilence the baseline of a pass of a     *)
(* watch has to hold the last read of every target that was read, so the   *)
(* invariant below follows a read from its stamp, through the merged state *)
(* and the baseline held in memory, to the pass that compares with it.     *)
(***************************************************************************)

\* This read has a time of its own, of a clock that runs.
Stamped(snap) == snap.at.mono > 0

\* st holds the last read of s.
Holds(st, s, snap) ==
    /\ KeyOf(s) \in DOMAIN st.nodes
    /\ st.nodes[KeyOf(s)] = EntryOf(snap)

StampInv ==
    /\ mono > 0
    /\ \A s \in Servers :
          /\ snaps[s].step \in {"stamped", "read"} => Stamped(snaps[s])
          /\ earlier[s].step = "read" => Stamped(earlier[s])
          /\ snaps[s].step = "stamped" => s[1] \in left

HeldInv ==
    /\ merged.version = Version
    /\ pc \in {"collect", "wait"} =>
          \A s \in Servers :
             s[1] \in targets \ left /\ snaps[s].step = "read" => Holds(merged, s, snaps[s])
    /\ pc = "wait" => left = {} /\ prev = merged
    /\ pc = "collect" /\ pass > first =>
          /\ prev.version = Version
          /\ \A s \in Servers :
                s[1] \in targets /\ earlier[s].step = "read" => Holds(prev, s, earlier[s])

WatchInv == IInv /\ StampInv /\ HeldInv /\ NoSilence

\* The parts of a server's name.
LEMMA ServerParts ==
    \A s \in Servers : s[1] \in Clusters /\ s[2] \in NodesOf[s[1]] /\ s = <<s[1], s[2]>>
BY DEF Servers

\* A snapshot with a time of its own leaves that time behind.
LEMMA StampedEntry ==
    ASSUME NEW snap, NEW now, Stamped(snap)
    PROVE  NodeStateOf(snap, now) = EntryOf(snap) /\ EntryOf(snap).at = snap.at
<1>1. snap.at # ZeroTime
  BY DEF Stamped, ZeroTime
<1> QED BY <1>1 DEF EntryOf, NodeStateOf

\* No other server's entry stands under the key of a node.
LEMMA OwnKey ==
    ASSUME NEW c \in Clusters, NEW n \in NodesOf[c],
           NEW s \in Servers, KeyOf(s) = FileKey(PathOf[c], n)
    PROVE  s = <<c, n>>
<1>1. <<c, n>> \in Servers /\ <<c, n>>[1] = c /\ <<c, n>>[2] = n
  BY ServerPair
<1> QED BY <1>1, NamesAssumption DEF KeyOf, FileKey

\* What was folded in stands under its own key.
LEMMA MergeFolded ==
    ASSUME NEW c \in Clusters, NEW map, NEW from, DOMAIN from \subseteq NodesOf[c],
           NEW n \in DOMAIN from
    PROVE  /\ KeyOf(<<c, n>>) \in DOMAIN Merge(map, PathOf[c], from)
           /\ Merge(map, PathOf[c], from)[KeyOf(<<c, n>>)] = from[n]
<1> DEFINE key == FileKey(PathOf[c], n)
           m == CHOOSE x \in DOMAIN from : key = FileKey(PathOf[c], x)
<1>1. n \in NodesOf[c] /\ <<c, n>> \in Servers /\ KeyOf(<<c, n>>) = key
  BY ServerPair
<1>2. m \in DOMAIN from /\ key = FileKey(PathOf[c], m)
  OBVIOUS
<1>3. m \in NodesOf[c] /\ <<c, n>> = <<c, m>>
  <2>1. m \in NodesOf[c]
    BY <1>2
  <2> QED BY <1>1, <1>2, <2>1, OwnKey
<1>4. m = n
  BY <1>3
<1>5. key \in DOMAIN Merge(map, PathOf[c], from) /\ Merge(map, PathOf[c], from)[key] = from[m]
  BY DEF Merge
<1> QED BY <1>1, <1>4, <1>5

\* What stood there under the key of another cluster's node still does.
LEMMA MergeKept ==
    ASSUME NEW c \in Clusters, NEW map, NEW from, DOMAIN from \subseteq NodesOf[c],
           NEW s \in Servers, s[1] # c, KeyOf(s) \in DOMAIN map
    PROVE  /\ KeyOf(s) \in DOMAIN Merge(map, PathOf[c], from)
           /\ Merge(map, PathOf[c], from)[KeyOf(s)] = map[KeyOf(s)]
<1>1. ~ \E n \in DOMAIN from : KeyOf(s) = FileKey(PathOf[c], n)
  BY OwnKey
<1> QED BY <1>1 DEF Merge

\* Two reads of one server with nothing to disturb it in between give every
\* counter both of them reported a baseline, and a movement that is what the
\* server did.
LEMMA ComparableIsBaselined ==
    ASSUME WatchInv, NEW c \in Clusters, Audit(c), pass > first,
           NEW s \in Servers, s[1] = c,
           NEW k, k \notin {"uptime", "gcomm_uuid"}, ComparableReads(s, k)
    PROVE  LET now == New(SnapsOf(c), Now)
               base == BaselineOf(c)
           IN  /\ s[2] \in Baselined(base, now, k)
               /\ Worked(s, k) => s[2] \in Moved(base, now, k)
<1> DEFINE now == New(SnapsOf(c), Now)
           base == BaselineOf(c)
           n == s[2]
           e == EntryOf(earlier[s])
           v == EntryOf(snaps[s])
<1>1. /\ TypeOK /\ pc = "collect" /\ c \in targets
      /\ n \in NodesOf[c] /\ s = <<c, n>>
      /\ earlier[s].step = "read" /\ snaps[s].step = "read"
      /\ Stamped(earlier[s]) /\ Stamped(snaps[s])
  BY ServerParts DEF WatchInv, IInv, StampInv, Audit, Current, TypeOK, ComparableReads
<1>2. n \in DOMAIN now.nodes /\ now.nodes[n] = v
  <2>1. DOMAIN SnapsOf(c) = NodesOf[c] /\ SnapsOf(c)[n] = snaps[s]
    BY <1>1 DEF SnapsOf
  <2>2. n \in DOMAIN now.nodes /\ now.nodes[n] = NodeStateOf(snaps[s], Now)
    BY <1>1, <2>1 DEF New
  <2> QED BY <1>1, <2>2, StampedEntry
<1>3. /\ base.version = Version /\ n \in DOMAIN base.nodes /\ base.nodes[n] = e
      /\ KeyOf(s) \in DOMAIN prev.nodes /\ prev.nodes[KeyOf(s)] = e
  <2>1. prev.version = Version /\ Holds(prev, s, earlier[s])
    BY <1>1 DEF WatchInv, HeldInv
  <2>2. KeyOf(s) = FileKey(PathOf[c], n)
    BY <1>1 DEF KeyOf
  <2> QED BY <1>1, <2>1, <2>2 DEF Holds, BaselineOf, Scope
<1>4. Between(e, v)
  BY <1>1, <1>3 DEF WatchInv, IInv, SnapsInv
<1>5. IsNodeState(e) /\ IsNodeState(v)
  <2>1. IsTime(ZeroTime)
    BY DEF ZeroTime, IsTime
  <2> QED BY <1>1, <2>1, NodeStateType DEF TypeOK, EntryOf
<1>6. /\ e.at = earlier[s].at /\ v.at = snaps[s].at
      /\ e.seen = earlier[s].seen /\ v.seen = snaps[s].seen
      /\ k \in Counters /\ k \in DOMAIN e.counters /\ k \in DOMAIN v.counters
  <2>1. k \in Counters
    BY <1>1 DEF TypeOK, IsSnap, IsStatus, ComparableReads
  <2> QED BY <1>1, <2>1, StampedEntry DEF EntryOf, NodeStateOf, ComparableReads
<1>7. e.seen.resets = v.seen.resets /\ e.seen.boot = v.seen.boot
  BY <1>4, <1>6 DEF ComparableReads, Between
<1>8. /\ e.counters[k] \in Nat /\ v.counters[k] \in Nat
      /\ e.seen.total[k] \in Nat /\ v.seen.total[k] \in Nat
      /\ e.uptime \in Nat /\ v.uptime \in Nat
      /\ e.at.mono \in Nat /\ v.at.mono \in Nat
  BY <1>5, <1>6 DEF IsNodeState, IsTime, Seen
<1>9. v.counters[k] >= e.counters[k]
  <2>1. /\ v.counters[k] - e.counters[k] = v.seen.total[k] - e.seen.total[k]
        /\ e.seen.total[k] <= v.seen.total[k]
    BY <1>4, <1>6, <1>7 DEF Between
  <2> QED BY <1>8, <2>1
<1>10. Elapsed(e.at, v.at) > 0
  <2>1. e.at.mono > 0 /\ v.at.mono > 0 /\ e.at.mono < v.at.mono
    BY <1>1, <1>6 DEF Stamped, ComparableReads
  <2> QED BY <1>8, <2>1 DEF Elapsed
<1>11. ~UptimeShrank(e, v)
  BY <1>4, <1>7, <1>8 DEF Between, UptimeShrank
<1>12. Since(base, n, k, v).value = v.seen.total[k] - e.seen.total[k]
  BY <1>3, <1>4, <1>6, <1>7 DEF Since, Between
<1>13. Worked(s, k) => v.seen.total[k] - e.seen.total[k] > 0
  BY <1>6, <1>8 DEF Worked
<1> HIDE DEF now, base, n, e, v
<1>14. HasBaseline(base, n, k, now.nodes[n])
  BY <1>2, <1>3, <1>6, <1>9, <1>10, <1>11 DEF HasBaseline
<1>15. n \in Baselined(base, now, k)
  BY <1>2, <1>14 DEF Baselined
<1>16. Worked(s, k) => n \in Moved(base, now, k)
  BY <1>2, <1>12, <1>13, <1>15 DEF Moved
<1> QED BY <1>15, <1>16 DEF now, base, n

\* After its audit each check has said of a cluster what it can.
LEMMA AuditSaysAll ==
    ASSUME WatchInv, NEW c \in Clusters, Audit(c), pass > first
    PROVE  SaysAll(c)'
<1> DEFINE now == New(SnapsOf(c), Now)
           base == BaselineOf(c)
<1>1. /\ TypeOK
      /\ snaps' = snaps /\ earlier' = earlier
      /\ GradedIn(c, base, now) \subseteq graded'
  BY DEF Audit, WatchInv, IInv
<1>2. /\ ReadOf(c)' = ReadOf(c)
      /\ \A s, k : ComparableReads(s, k)' <=> ComparableReads(s, k)
      /\ \A s, k : Worked(s, k)' <=> Worked(s, k)
  BY <1>1 DEF ReadOf, ComparableReads, Worked
<1>3. ASSUME NEW s \in ReadOf(c)
      PROVE  s \in Servers /\ s[1] = c /\ s = <<c, s[2]>>
  BY ServerParts DEF ReadOf
<1>4. ASSUME NEW n \in DOMAIN now.nodes
      PROVE  <<c, n>> \in ReadOf(c)
  BY <1>1, AuditTypes, ServerPair DEF ReadOf
<1>5. ASSUME NEW s \in ReadOf(c), NEW k, k \notin {"uptime", "gcomm_uuid"},
             ComparableReads(s, k)
      PROVE  /\ s[2] \in Baselined(base, now, k)
             /\ Worked(s, k) => s[2] \in Moved(base, now, k)
  BY <1>3, <1>5, ComparableIsBaselined
<1>6. ASSUME NEW s \in ReadOf(c), NEW check, NEW k,
             Movement(c, base, now, check, s[2], k) \in GradedIn(c, base, now)
      PROVE  Grades(check, s)'
  <2>1. /\ Movement(c, base, now, check, s[2], k).check = check
        /\ Movement(c, base, now, check, s[2], k).server = s
    BY <1>3 DEF Movement
  <2> QED BY <1>1, <1>6, <2>1 DEF Grades
<1> HIDE DEF now, base
<1>7. ASSUME NEW s \in ReadOf(c), ComparableReads(s, "wsrep_flow_control_paused_ns")
      PROVE  Grades("flow/paused", s)'
  <2>1. s[2] \in Baselined(base, now, "wsrep_flow_control_paused_ns")
    BY <1>5, <1>7
  <2>2. Movement(c, base, now, "flow/paused", s[2], "wsrep_flow_control_paused_ns")
            \in GradedIn(c, base, now)
    BY <2>1 DEF GradedIn, FlowControl
  <2> QED BY <1>6, <2>2
<1>8. ASSUME NEW s \in ReadOf(c), ComparableReads(s, "wsrep_local_cert_failures"),
             Worked(s, "wsrep_replicated")
      PROVE  Grades("repl/cert-failures", s)'
  <2>1. s[2] \in Baselined(base, now, "wsrep_local_cert_failures")
    BY <1>5, <1>8
  <2>2. s[2] \in Moved(base, now, "wsrep_replicated")
    BY <1>5, <1>8 DEF Worked
  <2>3. s[2] \in Certified(base, now)
    BY <2>1, <2>2 DEF Certified
  <2>4. Movement(c, base, now, "repl/cert-failures", s[2], "wsrep_replicated")
            \in Certification(c, base, now)
    <3> DEFINE p == <<s[2], "wsrep_replicated">>
    <3>1. /\ p \in Certified(base, now) \X {"wsrep_local_cert_failures", "wsrep_replicated"}
          /\ p[1] = s[2] /\ p[2] = "wsrep_replicated"
      BY <2>3
    <3> HIDE DEF p
    <3> QED BY <3>1 DEF Certification
  <2> QED BY <1>6, <2>4 DEF GradedIn
<1>9. ASSUME NEW s \in ReadOf(c), s \in Sized, Worked(s, "wsrep_replicated_bytes")
      PROVE  Grades("gcache/window", s)'
  <2>1. s[2] \in Moved(base, now, "wsrep_replicated_bytes") /\ <<c, s[2]>> \in Sized
    BY <1>3, <1>5, <1>9 DEF Worked
  <2>2. Movement(c, base, now, "gcache/window", s[2], "wsrep_replicated_bytes")
            \in GradedIn(c, base, now)
    BY <2>1 DEF GradedIn, GCache
  <2> QED BY <1>6, <2>2
<1>10. ASSUME \A s \in ReadOf(c) : ComparableReads(s, "wsrep_replicated"),
              NEW t \in ReadOf(c)
       PROVE  Grades("repl/writers", t)'
  <2>1. \A s \in ReadOf(c) : s[2] \in Baselined(base, now, "wsrep_replicated")
    BY <1>5, <1>10
  <2>2. ASSUME NEW n \in DOMAIN now.nodes
        PROVE  n \in Baselined(base, now, "wsrep_replicated")
    <3>1. <<c, n>>[2] = n
      OBVIOUS
    <3> QED BY <1>4, <2>1, <3>1
  <2>3. DOMAIN now.nodes = Baselined(base, now, "wsrep_replicated")
    BY <2>2 DEF Baselined
  <2>4. t[2] \in DOMAIN now.nodes
    BY <2>1, <2>3
  <2>5. Movement(c, base, now, "repl/writers", t[2], "wsrep_replicated")
            \in GradedIn(c, base, now)
    BY <2>3, <2>4 DEF GradedIn, Writers
  <2> QED BY <1>6, <2>5
<1> QED BY <1>2, <1>7, <1>8, <1>9, <1>10 DEF SaysAll

\* What was said of a cluster stays said while its snapshots do.
LEMMA SaysAllKept ==
    ASSUME NEW c, SaysAll(c), earlier' = earlier, graded \subseteq graded',
           \A s \in Servers : s[1] = c => snaps'[s] = snaps[s]
    PROVE  SaysAll(c)'
<1>1. ReadOf(c)' = ReadOf(c)
  BY DEF ReadOf
<1>2. ASSUME NEW s \in ReadOf(c)
      PROVE  /\ \A k : ComparableReads(s, k)' <=> ComparableReads(s, k)
             /\ \A k : Worked(s, k)' <=> Worked(s, k)
             /\ \A check : Grades(check, s) => Grades(check, s)'
  <2>1. snaps'[s] = snaps[s]
    BY DEF ReadOf
  <2> QED BY <2>1 DEF ComparableReads, Worked, Grades
<1> QED BY <1>1, <1>2 DEF SaysAll

\* A step of the world changes nothing a pass holds.
LEMMA WatchWorldStep ==
    ASSUME WatchInv, UNCHANGED process, mono' = mono \/ mono' = mono + 1
    PROVE  StampInv' /\ HeldInv' /\ NoSilence'
<1>1. /\ UNCHANGED <<pc, targets, left, prev, merged, snaps, graded, pass, first, earlier>>
      /\ mono \in Nat /\ mono > 0
  BY DEF process, findings, WatchInv, IInv, TypeOK, StampInv
<1>2. StampInv'
  BY <1>1 DEF WatchInv, StampInv
<1>3. HeldInv'
  BY <1>1 DEF WatchInv, HeldInv
<1>4. NoSilence'
  BY <1>1, SaysAllKept DEF WatchInv, NoSilence
<1> QED BY <1>2, <1>3, <1>4

\* Reading a node touches the snapshot of a cluster still to be audited.
LEMMA WatchReadStep ==
    ASSUME WatchInv, NEW s \in Servers,
           \/ Stamp(s)
           \/ FailRead(s)
           \/ \E reported \in Reports : Fetch(s, reported)
    PROVE  StampInv' /\ HeldInv' /\ NoSilence'
<1>1. /\ UNCHANGED <<mono, pc, targets, left, prev, merged, graded, pass, first, earlier>>
      /\ TypeOK /\ pc = "collect"
  BY DEF Stamp, FailRead, Fetch, world, findings, WatchInv, IInv
<1>2. s[1] \in left
  BY DEF Stamp, FailRead, Fetch, Current, WatchInv, StampInv
<1>3. /\ \A t \in Servers \ {s} : snaps'[t] = snaps[t]
      /\ snaps'[s].step \in {"stamped", "read"} => Stamped(snaps'[s])
  <2>1. mono > 0
    BY DEF WatchInv, StampInv
  <2>2. CASE Stamp(s)
    BY <1>1, <2>1, <2>2 DEF Stamp, TypeOK, IsSnap, Stamped, Now
  <2>3. CASE FailRead(s)
    BY <1>1, <2>3 DEF FailRead, TypeOK, IdleSnap
  <2>4. ASSUME NEW reported \in Reports, Fetch(s, reported)
        PROVE  /\ \A t \in Servers \ {s} : snaps'[t] = snaps[t]
               /\ snaps'[s].at = snaps[s].at
               /\ snaps[s].step = "stamped"
    <3> DEFINE status == [name \in reported |-> Answer(srv[s], name)]
               seen == [server |-> s, pass |-> pass, boot |-> srv[s].boot,
                        resets |-> srv[s].resets, total |-> srv[s].total]
    <3>1. snaps' = [snaps EXCEPT ![s].step = "read", ![s].status = status, ![s].seen = seen]
             /\ snaps[s].step = "stamped"
      BY <2>4 DEF Fetch
    <3> HIDE DEF status, seen
    <3> QED BY <1>1, <3>1 DEF TypeOK, IsSnap
  <2>5. ASSUME NEW reported \in Reports, Fetch(s, reported) PROVE Stamped(snaps'[s])
    BY <2>4, <2>5 DEF WatchInv, StampInv, Stamped
  <2> QED BY <2>2, <2>3, <2>4, <2>5
<1>4. StampInv'
  BY <1>1, <1>2, <1>3 DEF WatchInv, StampInv
<1>5. HeldInv'
  BY <1>1, <1>2, <1>3 DEF WatchInv, HeldInv
<1>6. NoSilence'
  BY <1>1, <1>2, <1>3, SaysAllKept DEF WatchInv, NoSilence
<1> QED BY <1>4, <1>5, <1>6

\* A process begins with nothing to compare, a watch goes on with what it held.
LEMMA WatchBeginStep ==
    ASSUME WatchInv,
           NextPass \/ \E T \in TargetSets, watch \in BOOLEAN : Start(T, watch)
    PROVE  StampInv' /\ HeldInv' /\ NoSilence'
<1>1. /\ mono' = mono /\ pc' = "collect" /\ left' = targets'
      /\ merged' = EmptyState /\ snaps' = IdleSnaps /\ pass' = pass + 1
      /\ pass \in Nat
  BY DEF NextPass, Start, BeginPass, world, WatchInv, IInv, TypeOK
<1>2. \A s \in Servers : IdleSnaps[s].step = "idle"
  BY EmptyBefore
<1>3. StampInv'
  BY <1>1, <1>2 DEF NextPass, Start, WatchInv, StampInv
<1>4. NoSilence'
  BY <1>1 DEF NoSilence
<1>5. merged'.version = Version
  BY <1>1 DEF EmptyState
<1>6. CASE NextPass
  <2>1. /\ prev' = prev /\ targets' = targets /\ first' = first /\ earlier' = snaps
        /\ pc = "wait" /\ left = {} /\ prev = merged
    BY <1>6 DEF NextPass, WatchInv, HeldInv
  <2>2. prev'.version = Version
    BY <2>1 DEF WatchInv, HeldInv
  <2>3. ASSUME NEW s \in Servers, s[1] \in targets, snaps[s].step = "read"
        PROVE  Holds(prev, s, snaps[s])
    BY <2>1, <2>3 DEF WatchInv, HeldInv
  <2> QED BY <1>1, <1>3, <1>4, <1>5, <2>1, <2>2, <2>3 DEF HeldInv, Holds
<1>7. ASSUME NEW T \in TargetSets, NEW watch \in BOOLEAN, Start(T, watch) PROVE HeldInv'
  <2>1. first' = pass'
    BY <1>1, <1>7 DEF Start
  <2> QED BY <1>1, <1>5, <2>1 DEF HeldInv
<1> QED BY <1>3, <1>4, <1>6, <1>7

\* An audit folds in the reads of its cluster and grades what is comparable.
LEMMA WatchAuditStep ==
    ASSUME WatchInv, NEW c \in Clusters, Audit(c)
    PROVE  StampInv' /\ HeldInv' /\ NoSilence'
<1> DEFINE now == New(SnapsOf(c), Now)
<1>1. /\ UNCHANGED <<mono, pc, targets, prev, snaps, pass, first, earlier>>
      /\ pc = "collect" /\ TypeOK
      /\ left' = left \ {c}
      /\ graded' = graded \cup GradedIn(c, BaselineOf(c), now)
      /\ merged' = [merged EXCEPT !.nodes = Merge(merged.nodes, PathOf[c], now.nodes)]
  BY DEF Audit, world, WatchInv, IInv
<1>2. ASSUME NEW s \in Servers, s[1] = c PROVE snaps[s].step \in {"read", "failed"}
  BY <1>2, ServerParts DEF Audit
<1>3. StampInv'
  BY <1>1, <1>2 DEF WatchInv, StampInv
<1>4. merged'.version = merged.version
        /\ merged'.nodes = Merge(merged.nodes, PathOf[c], now.nodes)
  BY <1>1 DEF TypeOK, IsState
<1>5. DOMAIN now.nodes \subseteq NodesOf[c]
  BY <1>1, AuditTypes
<1>6. ASSUME NEW s \in Servers, s[1] \in targets \ left', snaps[s].step = "read"
      PROVE  Holds(merged', s, snaps[s])
  <2>1. CASE s[1] = c
    <3> DEFINE n == s[2]
    <3>1. n \in NodesOf[c] /\ s = <<c, n>>
      BY <2>1, ServerParts
    <3>2. DOMAIN SnapsOf(c) = NodesOf[c] /\ SnapsOf(c)[n] = snaps[s]
      BY <3>1 DEF SnapsOf
    <3>3. n \in DOMAIN now.nodes /\ now.nodes[n] = NodeStateOf(snaps[s], Now)
      BY <1>6, <3>1, <3>2 DEF New
    <3>4. Stamped(snaps[s])
      BY <1>6 DEF WatchInv, StampInv
    <3>5. now.nodes[n] = EntryOf(snaps[s])
      BY <3>3, <3>4, StampedEntry
    <3> HIDE DEF now, n
    <3>6. /\ KeyOf(<<c, n>>) \in DOMAIN Merge(merged.nodes, PathOf[c], now.nodes)
          /\ Merge(merged.nodes, PathOf[c], now.nodes)[KeyOf(<<c, n>>)] = now.nodes[n]
      BY <1>5, <3>3, MergeFolded
    <3>7. KeyOf(s) \in DOMAIN merged'.nodes /\ merged'.nodes[KeyOf(s)] = now.nodes[n]
      BY <1>4, <3>1, <3>6
    <3> QED BY <3>5, <3>7 DEF Holds
  <2>2. CASE s[1] # c
    <3>1. Holds(merged, s, snaps[s])
      BY <1>1, <1>6, <2>2 DEF WatchInv, HeldInv
    <3> HIDE DEF now
    <3> QED BY <1>4, <1>5, <2>2, <3>1, MergeKept DEF Holds
  <2> QED BY <2>1, <2>2
<1>7. HeldInv'
  <2>1. merged.version = Version
    BY DEF WatchInv, HeldInv
  <2>2. pass > first =>
           /\ prev.version = Version
           /\ \A s \in Servers :
                 s[1] \in targets /\ earlier[s].step = "read" => Holds(prev, s, earlier[s])
    BY <1>1 DEF WatchInv, HeldInv
  <2> HIDE DEF now
  <2> QED BY <1>1, <1>4, <1>6, <2>1, <2>2 DEF HeldInv, Holds
<1>8. NoSilence'
  <2> SUFFICES ASSUME pass > first, NEW d \in targets \ left'
               PROVE  SaysAll(d)'
    BY <1>1 DEF NoSilence
  <2>1. CASE d = c
    BY <2>1, AuditSaysAll
  <2>2. CASE d # c
    <3>1. SaysAll(d)
      BY <1>1, <2>2 DEF WatchInv, NoSilence
    <3>2. graded \subseteq graded'
      BY <1>1
    <3> QED BY <1>1, <3>1, <3>2, SaysAllKept
  <2> QED BY <2>1, <2>2
<1> QED BY <1>3, <1>7, <1>8

\* A process that is gone has nothing to compare.
LEMMA WatchGoDownStep ==
    ASSUME WatchInv, GoDown, mono' = mono
    PROVE  StampInv' /\ HeldInv' /\ NoSilence'
<1>1. /\ pc' = "down" /\ merged' = EmptyState /\ snaps' = IdleSnaps /\ earlier' = IdleSnaps
  BY DEF GoDown
<1>2. StampInv'
  BY <1>1, EmptyBefore DEF WatchInv, StampInv
<1>3. HeldInv'
  BY <1>1 DEF HeldInv, EmptyState
<1>4. NoSilence'
  BY <1>1 DEF NoSilence
<1> QED BY <1>2, <1>3, <1>4

\* A watch holds on to the whole of what it read.
LEMMA WatchSaveStep ==
    ASSUME WatchInv, Save
    PROVE  StampInv' /\ HeldInv' /\ NoSilence'
<1>1. mono' = mono /\ pass' = pass /\ pc = "collect" /\ left = {}
  BY DEF Save, world
<1>2. CASE ~watching /\ GoDown
  BY <1>1, <1>2, WatchGoDownStep
<1>3. CASE /\ watching
           /\ prev' = Held(merged)
           /\ pc' = "wait"
           /\ UNCHANGED <<watching, targets, left, merged, snaps, findings,
                          first, loaded, earlier>>
  <2>1. prev' = merged
    BY <1>3 DEF Held
  <2>2. graded' = graded
    BY <1>3 DEF findings
  <2>3. StampInv'
    BY <1>1, <1>3 DEF WatchInv, StampInv
  <2>4. HeldInv'
    BY <1>1, <1>3, <2>1 DEF WatchInv, HeldInv
  <2>5. NoSilence'
    BY <1>1, <1>3, <2>2, SaysAllKept DEF WatchInv, NoSilence
  <2> QED BY <2>3, <2>4, <2>5
<1> QED BY <1>2, <1>3 DEF Save

\* Every step of the world and of the auditor keeps what a watch holds.
LEMMA WatchStep == WatchInv /\ [Next]_vars => WatchInv'
<1> SUFFICES ASSUME WatchInv, [Next]_vars PROVE WatchInv'
  OBVIOUS
<1>1. IInv'
  BY InvariantStep DEF WatchInv
<1> DEFINE Rest == StampInv' /\ HeldInv' /\ NoSilence'
<1>2. ASSUME Environment PROVE Rest
  <2>1. UNCHANGED process /\ (mono' = mono \/ mono' = mono + 1)
    BY <1>2 DEF Environment, Tick, StepBack, Work, Restart, FlushStatus, LoseFile, world
  <2> QED BY <2>1, WatchWorldStep
<1>3. ASSUME NEW T \in TargetSets, NEW watch \in BOOLEAN, Start(T, watch) PROVE Rest
  BY <1>3, WatchBeginStep
<1>4. ASSUME NEW s \in Servers, Stamp(s) PROVE Rest
  BY <1>4, WatchReadStep
<1>5. ASSUME NEW s \in Servers, NEW reported \in Reports, Fetch(s, reported) PROVE Rest
  BY <1>5, WatchReadStep
<1>6. ASSUME NEW s \in Servers, FailRead(s) PROVE Rest
  BY <1>6, WatchReadStep
<1>7. ASSUME NEW c \in Clusters, Audit(c) PROVE Rest
  BY <1>7, WatchAuditStep
<1>8. ASSUME Save PROVE Rest
  BY <1>8, WatchSaveStep
<1>9. ASSUME NextPass PROVE Rest
  BY <1>9, WatchBeginStep
<1>10. ASSUME Kill PROVE Rest
  BY <1>10, WatchGoDownStep DEF Kill, world
<1>11. ASSUME UNCHANGED vars PROVE Rest
  <2>1. UNCHANGED process /\ mono' = mono
    BY <1>11 DEF vars, process, findings
  <2> QED BY <2>1, WatchWorldStep
<1> QED BY <1>1, <1>2, <1>3, <1>4, <1>5, <1>6, <1>7, <1>8, <1>9, <1>10, <1>11
       DEF Next, Auditor, WatchInv

\* Before the first run there is nothing to hold.
LEMMA WatchInit == Init => WatchInv
<1> SUFFICES ASSUME Init PROVE WatchInv
  OBVIOUS
<1>1. IInv
  BY InvariantInit
<1>2. /\ mono = 1 /\ pc = "down" /\ merged = EmptyState
      /\ snaps = IdleSnaps /\ earlier = IdleSnaps
  BY DEF Init
<1>3. StampInv
  BY <1>2, EmptyBefore DEF StampInv
<1>4. HeldInv /\ NoSilence
  BY <1>2 DEF HeldInv, NoSilence, EmptyState
<1> QED BY <1>1, <1>3, <1>4 DEF WatchInv

\* In a watch, of two passes running every check says all that it can.
THEOREM NothingSilent == Spec => []NoSilence
<1>1. Spec => []WatchInv
  BY WatchInit, WatchStep, PTL DEF Spec
<1>2. WatchInv => NoSilence
  BY DEF WatchInv
<1> QED BY <1>1, <1>2, PTL
=============================================================================
