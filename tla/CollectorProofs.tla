--------------------------- MODULE CollectorProofs ---------------------------
(***************************************************************************)
(* What CollectAll, AskBackup and coverage promise, for any number of      *)
(* nodes, any timeout, any grants and any number of faults.                *)
(***************************************************************************)
EXTENDS Collector, FiniteSetTheorems, TLAPS

USE NAssumption, TimeoutAssumption, SkipAssumption, FaultsAssumption

-----------------------------------------------------------------------------
(***************************************************************************)
(* The queries are sent once each.                                         *)
(***************************************************************************)
Names == {"Ping", "Clock", "Status", "Vars", "SysTables", "AppTables", "TablesNoPK",
          "TablesNonInnoDB", "DataBytes", "Replicas", "ReplicaHosts", "Transactions",
          "Cascades", "Membership"}
Places(s) == 1..Len(s)
Elems(s) == {s[i] : i \in Places(s)}
Once(s) == s \in Seq(Names) /\ \A i, j \in Places(s) : s[i] = s[j] => i = j

LEMMA JoinOnce ==
    ASSUME NEW s, NEW t, Once(s), Once(t), Elems(s) \cap Elems(t) = {}
    PROVE  Once(s \o t) /\ Elems(s \o t) = Elems(s) \cup Elems(t)
<1> DEFINE u == s \o t
<1>1. s \in Seq(Names) /\ t \in Seq(Names)
    BY DEF Once
<1>2. /\ u \in Seq(Names) /\ Len(u) = Len(s) + Len(t) /\ Len(s) \in Nat /\ Len(t) \in Nat
      /\ \A i \in 1..Len(s) : u[i] = s[i]
      /\ \A i \in (Len(s) + 1)..Len(u) : u[i] = t[i - Len(s)]
    BY <1>1
<1> HIDE DEF u
<1>3. \A i \in Places(u) : \/ i \in Places(s) /\ u[i] = s[i]
                           \/ i - Len(s) \in Places(t) /\ u[i] = t[i - Len(s)]
    BY <1>2 DEF Places
<1>4. \A i \in Places(s) : i \in Places(u) /\ u[i] = s[i]
    BY <1>2 DEF Places
<1>5. ASSUME NEW i \in Places(t) PROVE i + Len(s) \in Places(u) /\ u[i + Len(s)] = t[i]
  <2>1. i \in 1..Len(t)
    BY DEF Places
  <2>2. i + Len(s) \in (Len(s) + 1)..Len(u) /\ i + Len(s) \in 1..Len(u) /\ (i + Len(s)) - Len(s) = i
    BY <1>2, <2>1
  <2>3. QED
    BY <1>2, <2>2 DEF Places
<1>6. Elems(u) = Elems(s) \cup Elems(t)
    BY <1>3, <1>4, <1>5 DEF Elems
<1>7. ASSUME NEW i \in Places(u), NEW j \in Places(u), u[i] = u[j] PROVE i = j
  <2>1. CASE i \in Places(s) /\ u[i] = s[i] /\ j \in Places(s) /\ u[j] = s[j]
    BY <1>7, <2>1 DEF Once
  <2>2. CASE /\ i - Len(s) \in Places(t) /\ u[i] = t[i - Len(s)]
             /\ j - Len(s) \in Places(t) /\ u[j] = t[j - Len(s)]
    <3>1. i - Len(s) = j - Len(s)
      BY <1>7, <2>2 DEF Once
    <3>2. i \in Int /\ j \in Int
      BY DEF Places
    <3>3. QED
      BY <1>2, <3>1, <3>2
  <2>3. CASE \/ i \in Places(s) /\ u[i] = s[i] /\ j - Len(s) \in Places(t) /\ u[j] = t[j - Len(s)]
             \/ j \in Places(s) /\ u[j] = s[j] /\ i - Len(s) \in Places(t) /\ u[i] = t[i - Len(s)]
    BY <1>7, <2>3 DEF Elems
  <2>4. QED
    BY <1>3, <2>1, <2>2, <2>3
<1>8. QED
    BY <1>2, <1>6, <1>7 DEF Once, u

LEMMA UnlessOnce ==
    ASSUME NEW c \in BOOLEAN, NEW s, Once(s)
    PROVE  /\ Once(Unless(c, s)) /\ Elems(Unless(c, s)) \subseteq Elems(s)
           /\ ~c => Elems(Unless(c, s)) = Elems(s)
<1>1. CASE c
  <2> DEFINE e == Unless(c, s)
  <2>1. e \in Seq(Names) /\ Len(e) = 0
    BY <1>1 DEF Unless
  <2> HIDE DEF e
  <2>2. Places(e) = {}
    BY <2>1 DEF Places
  <2>3. Once(e) /\ Elems(e) = {}
    BY <2>1, <2>2 DEF Once, Elems
  <2>4. QED
    BY <1>1, <2>3 DEF e
<1>2. CASE ~c
  <2>1. Unless(c, s) = s
    BY <1>2 DEF Unless
  <2>2. QED
    BY <2>1
<1>3. QED
    BY <1>1, <1>2

LEMMA QueriesOnce ==
    /\ Once(Queries) /\ Mandatory \cup {"Clock", "Replicas", "ReplicaHosts"} \subseteq Elems(Queries)
    /\ ~SkipSysTables /\ ~SkipSchema =>
          {"SysTables", "AppTables", "DataBytes"} \subseteq Elems(Queries)
<1> DEFINE q1 == <<"Ping", "Clock", "Status", "Vars">>
           q2 == <<"SysTables">>
           q3 == <<"AppTables", "TablesNoPK", "TablesNonInnoDB", "DataBytes">>
           q4 == <<"Replicas", "ReplicaHosts", "Transactions">>
           q5 == <<"Cascades">>
           q6 == <<"Membership">>
           u2 == Unless(SkipSysTables, q2)
           u3 == Unless(SkipSchema, q3)
           u5 == Unless(SkipSchema, q5)
<1>1. Once(q1) /\ Elems(q1) = {"Ping", "Clock", "Status", "Vars"}
  <2>1. q1 \in Seq(Names) /\ Len(q1) = 4
    BY DEF Names
  <2>2. \A i, j \in 1..4 : q1[i] = q1[j] => i = j
    OBVIOUS
  <2>3. {q1[i] : i \in 1..4} = {"Ping", "Clock", "Status", "Vars"}
    OBVIOUS
  <2>4. QED
    BY <2>1, <2>2, <2>3 DEF Once, Elems, Places
<1>2. Once(q2) /\ Elems(q2) = {"SysTables"}
  <2>1. q2 \in Seq(Names) /\ Len(q2) = 1
    BY DEF Names
  <2>2. \A i, j \in 1..1 : q2[i] = q2[j] => i = j
    OBVIOUS
  <2>3. {q2[i] : i \in 1..1} = {"SysTables"}
    OBVIOUS
  <2>4. QED
    BY <2>1, <2>2, <2>3 DEF Once, Elems, Places
<1>3. Once(q3) /\ Elems(q3) = {"AppTables", "TablesNoPK", "TablesNonInnoDB", "DataBytes"}
  <2>1. q3 \in Seq(Names) /\ Len(q3) = 4
    BY DEF Names
  <2>2. \A i, j \in 1..4 : q3[i] = q3[j] => i = j
    OBVIOUS
  <2>3. {q3[i] : i \in 1..4} = {"AppTables", "TablesNoPK", "TablesNonInnoDB", "DataBytes"}
    OBVIOUS
  <2>4. QED
    BY <2>1, <2>2, <2>3 DEF Once, Elems, Places
<1>4. Once(q4) /\ Elems(q4) = {"Replicas", "ReplicaHosts", "Transactions"}
  <2>1. q4 \in Seq(Names) /\ Len(q4) = 3
    BY DEF Names
  <2>2. \A i, j \in 1..3 : q4[i] = q4[j] => i = j
    OBVIOUS
  <2>3. {q4[i] : i \in 1..3} = {"Replicas", "ReplicaHosts", "Transactions"}
    OBVIOUS
  <2>4. QED
    BY <2>1, <2>2, <2>3 DEF Once, Elems, Places
<1>5. Once(q5) /\ Elems(q5) = {"Cascades"}
  <2>1. q5 \in Seq(Names) /\ Len(q5) = 1
    BY DEF Names
  <2>2. \A i, j \in 1..1 : q5[i] = q5[j] => i = j
    OBVIOUS
  <2>3. {q5[i] : i \in 1..1} = {"Cascades"}
    OBVIOUS
  <2>4. QED
    BY <2>1, <2>2, <2>3 DEF Once, Elems, Places
<1>6. Once(q6) /\ Elems(q6) = {"Membership"}
  <2>1. q6 \in Seq(Names) /\ Len(q6) = 1
    BY DEF Names
  <2>2. \A i, j \in 1..1 : q6[i] = q6[j] => i = j
    OBVIOUS
  <2>3. {q6[i] : i \in 1..1} = {"Membership"}
    OBVIOUS
  <2>4. QED
    BY <2>1, <2>2, <2>3 DEF Once, Elems, Places
<1>7. Queries = ((((q1 \o u2) \o u3) \o q4) \o u5) \o q6
    BY DEF Queries
<1> HIDE DEF q1, q2, q3, q4, q5, q6
<1>8. /\ Once(u2) /\ Elems(u2) \subseteq Elems(q2) /\ (~SkipSysTables => Elems(u2) = Elems(q2))
      /\ Once(u3) /\ Elems(u3) \subseteq Elems(q3) /\ (~SkipSchema => Elems(u3) = Elems(q3))
      /\ Once(u5) /\ Elems(u5) \subseteq Elems(q5)
    BY <1>2, <1>3, <1>5, UnlessOnce
<1> HIDE DEF u2, u3, u5
<1>9. Once(q1 \o u2) /\ Elems(q1 \o u2) = Elems(q1) \cup Elems(u2)
    BY <1>1, <1>2, <1>8, JoinOnce
<1> DEFINE a == q1 \o u2
<1> HIDE DEF a
<1>10. Once(a \o u3) /\ Elems(a \o u3) = Elems(a) \cup Elems(u3)
    BY <1>1, <1>2, <1>3, <1>8, <1>9, JoinOnce DEF a
<1> DEFINE b == a \o u3
<1> HIDE DEF b
<1>11. Once(b \o q4) /\ Elems(b \o q4) = Elems(b) \cup Elems(q4)
    BY <1>1, <1>2, <1>3, <1>4, <1>8, <1>9, <1>10, JoinOnce DEF a, b
<1> DEFINE c == b \o q4
<1> HIDE DEF c
<1>12. Elems(c) = Elems(q1) \cup Elems(u2) \cup Elems(u3) \cup Elems(q4)
    BY <1>9, <1>10, <1>11 DEF a, b, c
<1>13. Once(c \o u5) /\ Elems(c \o u5) = Elems(c) \cup Elems(u5)
    BY <1>1, <1>2, <1>3, <1>4, <1>5, <1>8, <1>11, <1>12, JoinOnce DEF c
<1> DEFINE d == c \o u5
<1> HIDE DEF d
<1>14. Once(d \o q6) /\ Elems(d \o q6) = Elems(d) \cup Elems(q6)
    BY <1>1, <1>2, <1>3, <1>4, <1>5, <1>6, <1>8, <1>12, <1>13, JoinOnce DEF d
<1>15. Queries = d \o q6
    BY <1>7 DEF a, b, c, d
<1>16. Elems(Queries) = Elems(q1) \cup Elems(u2) \cup Elems(u3) \cup Elems(q4) \cup Elems(u5) \cup Elems(q6)
    BY <1>12, <1>13, <1>14, <1>15 DEF d
<1>17. QED
    BY <1>1, <1>2, <1>3, <1>4, <1>8, <1>14, <1>15, <1>16 DEF Mandatory

-----------------------------------------------------------------------------
(***************************************************************************)
(* The queries a node was sent before its k-th.                            *)
(***************************************************************************)
Upto(k) == {Queries[i] : i \in 1..(k - 1)}

LEMMA QueriesFacts ==
    /\ Len(Queries) \in Nat /\ Finished \in Nat /\ Finished = Len(Queries) + 1 /\ 1 \in 1..Finished
    /\ \A k \in 1..Finished : k < Finished => k \in 1..Len(Queries) /\ k + 1 \in 1..Finished
    /\ Finished \in 1..Finished
    /\ Range(Queries) = Elems(Queries)
    /\ \A k \in 1..Len(Queries) : Queries[k] \in Range(Queries)
<1>1. Queries \in Seq(Names)
    BY QueriesOnce DEF Once
<1>2. Len(Queries) \in Nat /\ DOMAIN Queries = 1..Len(Queries)
    BY <1>1
<1>3. Finished = Len(Queries) + 1
    BY DEF Finished
<1>4. Range(Queries) = Elems(Queries)
    BY <1>2 DEF Range, Elems, Places
<1>5. \A k \in 1..Len(Queries) : Queries[k] \in Range(Queries)
    BY <1>4 DEF Elems, Places
<1>6. QED
    BY <1>2, <1>3, <1>4, <1>5

LEMMA UptoFacts ==
    /\ Upto(1) = {} /\ Upto(Finished) = Range(Queries)
    /\ \A k \in 1..Len(Queries) :
          Upto(k + 1) = Upto(k) \cup {Queries[k]} /\ Queries[k] \notin Upto(k)
<1>1. Upto(1) = {}
    BY DEF Upto
<1>2. Upto(Finished) = Range(Queries)
    BY QueriesFacts DEF Upto, Elems, Places
<1>3. ASSUME NEW k \in 1..Len(Queries)
      PROVE  Upto(k + 1) = Upto(k) \cup {Queries[k]} /\ Queries[k] \notin Upto(k)
  <2>1. k \in Nat /\ (k + 1) - 1 = k /\ 1..k = 1..(k - 1) \cup {k} /\ k \notin 1..(k - 1)
    BY QueriesFacts
  <2>2. 1..(k - 1) \subseteq 1..Len(Queries)
    BY QueriesFacts
  <2>3. \A i \in 1..(k - 1) : Queries[i] # Queries[k]
    BY <2>1, <2>2, QueriesOnce DEF Once, Places
  <2>4. QED
    BY <2>1, <2>3 DEF Upto
<1>4. QED
    BY <1>1, <1>2, <1>3

-----------------------------------------------------------------------------
(***************************************************************************)
(* Types.                                                                  *)
(***************************************************************************)
Snaps == [node : 0..N, err : BOOLEAN, got : SUBSET Range(Queries)]
Records == [made : BOOLEAN, node : 0..N, kind : BackupKinds \cup {"error"}]

Types ==
    /\ foreign \subseteq Nodes /\ faults \in 0..MaxFaults
    /\ at \in [Nodes -> 1..Finished]
    /\ alive \subseteq Nodes
    /\ left \in [Nodes -> 0..Timeout]
    /\ local \in [Nodes -> Snaps] /\ snaps \in [Nodes -> Snaps]
    /\ done \in Seq(Nodes)
    /\ pc \in {"collect", "backup", "audit", "end"}
    /\ received \in Nat /\ asking \in 0..N /\ (pc = "backup" => asking \in Nodes)
    /\ backup \in Records
    /\ coverage.made \in BOOLEAN
    /\ spent \in Nat
    /\ hurt \subseteq Nodes /\ refused \subseteq Nodes

LEMMA SnapsUpdate ==
    /\ NoSnap \in Snaps /\ \A n \in Nodes : [NoSnap EXCEPT !.node = n] \in Snaps
    /\ \A s \in Snaps : /\ [s EXCEPT !.err = TRUE] \in Snaps
                        /\ \A q \in Range(Queries) : [s EXCEPT !.got = @ \cup {q}] \in Snaps
<1>1. NoSnap \in Snaps /\ \A n \in Nodes : [NoSnap EXCEPT !.node = n] \in Snaps
  <2>1. {} \in SUBSET Range(Queries) /\ 0 \in 0..N /\ FALSE \in BOOLEAN /\ Nodes \subseteq 0..N
    BY DEF Nodes
  <2>2. NoSnap \in Snaps
    BY <2>1 DEF Snaps, NoSnap
  <2>3. QED
    BY <2>1, <2>2 DEF Snaps
<1>2. ASSUME NEW s \in Snaps PROVE [s EXCEPT !.err = TRUE] \in Snaps
    BY DEF Snaps
<1>3. ASSUME NEW s \in Snaps, NEW q \in Range(Queries)
      PROVE  [s EXCEPT !.got = @ \cup {q}] \in Snaps
  <2>1. s.got \cup {q} \in SUBSET Range(Queries)
    BY DEF Snaps
  <2>2. QED
    BY <2>1 DEF Snaps
<1>4. QED
    BY <1>1, <1>2, <1>3

LEMMA WaitingIs ==
    /\ pc = "collect" => Waiting = {n \in Nodes : at[n] < Finished}
    /\ pc = "backup" => Waiting = {asking}
    /\ pc \notin {"collect", "backup"} => Waiting = {}
BY DEF Waiting

LEMMA TypesInit == Init => Types
<1> SUFFICES ASSUME Init PROVE Types
    OBVIOUS
<1>1. at \in [Nodes -> 1..Finished] /\ left \in [Nodes -> 0..Timeout]
    BY QueriesFacts DEF Init
<1>2. local \in [Nodes -> Snaps] /\ snaps \in [Nodes -> Snaps]
    BY SnapsUpdate DEF Init
<1>3. backup \in Records /\ coverage.made \in BOOLEAN
    BY DEF Init, NoBackup, NoCoverage, Records
<1>4. QED
    BY <1>1, <1>2, <1>3, ForeignAssumption DEF Init, Types

\* A query that failed leaves the types as they were.
LEMMA TypesFailed ==
    ASSUME Types, NEW n \in Nodes, Outstanding(n), Failed(n)
    PROVE  at' \in [Nodes -> 1..Finished] /\ local' \in [Nodes -> Snaps]
<1>1. at[n] \in 1..Finished /\ at[n] < Finished /\ local[n] \in Snaps
    BY DEF Types, Outstanding
<1>2. at[n] + 1 \in 1..Finished /\ Finished \in 1..Finished
    BY <1>1, QueriesFacts
<1>3. [local[n] EXCEPT !.err = TRUE] \in Snaps
    BY <1>1, SnapsUpdate
<1>4. QED
    BY <1>2, <1>3 DEF Types, Failed

LEMMA TypesStep == Types /\ [Next]_vars => Types'
<1> SUFFICES ASSUME Types, [Next]_vars PROVE Types'
    OBVIOUS
<1>1. CASE Tick
  <2>1. \A n \in Waiting \cap Nodes : left[n] - 1 \in 0..Timeout
    <3>1. \A n \in Waiting : left[n] # 0
      BY <1>1 DEF Tick, Busy
    <3>2. QED
      BY <3>1 DEF Types
  <2>2. left' \in [Nodes -> 0..Timeout]
    BY <1>1, <2>1 DEF Tick, Types
  <2>3. spent' \in Nat
    BY <1>1 DEF Tick, Types
  <2>4. QED
    BY <1>1, <2>2, <2>3 DEF Tick, Types, servers, goroutines
<1>2. ASSUME NEW n \in Nodes, Expire(n) PROVE Types'
    BY <1>2 DEF Expire, Types, servers, goroutines
<1>3. ASSUME NEW n \in Nodes, Answered(n) PROVE Types'
  <2>1. at[n] \in 1..Finished /\ at[n] < Finished /\ local[n] \in Snaps
    BY <1>3 DEF Types, Answered, Outstanding
  <2>2. at[n] + 1 \in 1..Finished /\ Queries[at[n]] \in Range(Queries)
    BY <2>1, QueriesFacts
  <2>3. [local[n] EXCEPT !.got = @ \cup {Queries[at[n]]}] \in Snaps
    BY <2>1, <2>2, SnapsUpdate
  <2>4. local' \in [Nodes -> Snaps]
    BY <1>3, <2>3 DEF Answered, Types
  <2>5. QED
    BY <1>3, <2>2, <2>4 DEF Answered, Types, servers, history
<1>4. ASSUME NEW n \in Nodes, Denied(n) PROVE Types'
    BY <1>4, TypesFailed DEF Denied, Failed, Types, servers
<1>5. ASSUME NEW n \in Nodes, Fault(n) PROVE Types'
  <2>1. faults' \in 0..MaxFaults
    BY <1>5 DEF Fault, Types
  <2>2. QED
    BY <1>5, <2>1, TypesFailed DEF Fault, Failed, Types
<1>6. ASSUME NEW n \in Nodes, Cancelled(n) PROVE Types'
    BY <1>6, TypesFailed DEF Cancelled, Failed, Types, servers
<1>7. ASSUME NEW n \in Nodes, Deliver(n) PROVE Types'
    BY <1>7 DEF Deliver, Types, servers, history
<1>8. CASE Receive
    BY <1>8 DEF Receive, Types, servers, history
<1>9. CASE Return
  <2>1. [m \in Nodes |-> Timeout] \in [Nodes -> 0..Timeout] /\ 1 \in Nodes /\ 1 \in 0..N
    BY DEF Nodes
  <2>2. QED
    BY <1>9, <2>1 DEF Return, Ask, Types, servers, goroutines, history
<1>10. CASE AskedBackup
  <2>1. backup' \in Records
    BY <1>10 DEF AskedBackup, Types, Records
  <2>2. QED
    BY <1>10, <2>1 DEF AskedBackup, Types, servers, goroutines, history
<1>11. CASE RefusedBackup
  <2>1. pc = "backup" /\ asking \in 1..N
    BY <1>11 DEF RefusedBackup, Types, Nodes
  <2>2. backup' \in Records
    BY <1>11 DEF RefusedBackup, BackupFailed, Types, Records
  <2>3. /\ asking' \in 0..N /\ alive' \subseteq Nodes /\ left' \in [Nodes -> 0..Timeout]
        /\ pc' \in {"backup", "audit"} /\ (pc' = "backup" => asking' \in Nodes)
    <3>1. CASE asking < N
      <4>1. asking + 1 \in Nodes /\ asking + 1 \in 0..N
        BY <2>1, <3>1 DEF Nodes
      <4>2. [m \in Nodes |-> Timeout] \in [Nodes -> 0..Timeout]
        OBVIOUS
      <4>3. QED
        BY <1>11, <2>1, <3>1, <4>1, <4>2 DEF RefusedBackup, BackupFailed, Ask
    <3>2. CASE ~(asking < N)
      BY <1>11, <3>2 DEF RefusedBackup, BackupFailed, Types
    <3>3. QED
      BY <3>1, <3>2
  <2>4. refused' \subseteq Nodes
    BY <1>11, <2>1 DEF RefusedBackup, Types, Nodes
  <2>5. QED
    BY <1>11, <2>2, <2>3, <2>4 DEF RefusedBackup, Types, servers, goroutines
<1>12. CASE Audit
    BY <1>12 DEF Audit, Types, servers, goroutines, history
<1>13. CASE UNCHANGED vars
    BY <1>13 DEF vars, Types
<1>14. QED
    BY <1>1, <1>2, <1>3, <1>4, <1>5, <1>6, <1>7, <1>8, <1>9, <1>10, <1>11, <1>12, <1>13
       DEF Next, Terminating

-----------------------------------------------------------------------------
(***************************************************************************)
(* What a goroutine builds: every answer it got so far is in its snapshot; *)
(* only a mandatory query ends it early; and what was delivered is what    *)
(* was built.                                                              *)
(***************************************************************************)
BuiltAt(n) ==
    /\ local[n].node = n
    /\ local[n].got \subseteq Upto(at[n])
    /\ local[n].err => at[n] = Finished /\ n \in hurt /\ ~(Mandatory \subseteq local[n].got)
    /\ n \notin hurt => local[n].got = Upto(at[n]) /\ (pc = "collect" => n \in alive)
    /\ snaps[n] # NoSnap => snaps[n] = local[n] /\ at[n] = Finished

Built == \A n \in Nodes : BuiltAt(n)

LEMMA BuiltInit == Init => Built
<1> SUFFICES ASSUME Init, NEW n \in Nodes PROVE BuiltAt(n)
    BY DEF Built
<1>1. local[n].node = n /\ ~local[n].err /\ local[n].got = {}
    BY DEF Init, NoSnap
<1>2. at[n] = 1 /\ n \in alive /\ snaps[n] = NoSnap
    BY DEF Init
<1>3. QED
    BY <1>1, <1>2, UptoFacts DEF BuiltAt

\* A query that failed: the node is given up, or goes on without this part.
LEMMA BuiltFailed ==
    ASSUME Types, Built, NEW n \in Nodes, Outstanding(n), Failed(n),
           n \in hurt', hurt \subseteq hurt'
    PROVE  Built'
<1> SUFFICES ASSUME NEW m \in Nodes PROVE BuiltAt(m)'
    BY DEF Built
<1>1. BuiltAt(m) /\ at[m] \in 1..Finished /\ local[m] \in Snaps /\ at[n] \in 1..Finished
    BY DEF Built, Types
<1>2. /\ pc' = pc /\ alive' = alive /\ snaps' = snaps
    BY DEF Failed
<1>3. CASE m # n
  <2>1. at'[m] = at[m] /\ local'[m] = local[m]
    BY <1>3 DEF Failed, Types
  <2>2. QED
    BY <1>1, <1>2, <2>1 DEF BuiltAt
<1>4. CASE m = n
  <2>1. at[n] < Finished /\ at[n] \in 1..Len(Queries)
    BY <1>1, QueriesFacts DEF Outstanding
  <2>2. ~local[n].err /\ snaps[n] = NoSnap
    BY <1>1, <1>4, <2>1, QueriesFacts DEF BuiltAt
  <2>3. Queries[at[n]] \notin local[n].got
    BY <1>1, <1>4, <2>1, UptoFacts DEF BuiltAt
  <2>4. local[n].got \subseteq Upto(at[n]) /\ Upto(at[n]) \subseteq Upto(at[n] + 1)
    BY <1>1, <1>4, <2>1, UptoFacts DEF BuiltAt
  <2>5. CASE Queries[at[n]] \in Mandatory
    <3>1. /\ local'[n].node = local[n].node /\ local'[n].got = local[n].got
          /\ at'[n] = Finished
      BY <1>1, <1>4, <2>5 DEF Failed, Types, Snaps
    <3>2. Upto(at[n]) \subseteq Upto(Finished)
      BY <2>1, QueriesFacts, UptoFacts DEF Upto, Elems, Places
    <3>3. QED
      BY <1>1, <1>2, <1>4, <2>2, <2>3, <2>4, <2>5, <3>1, <3>2 DEF BuiltAt
  <2>6. CASE Queries[at[n]] \notin Mandatory
    <3>1. local'[n] = local[n] /\ at'[n] = at[n] + 1
      BY <1>4, <2>6 DEF Failed, Types
    <3>2. QED
      BY <1>1, <1>2, <1>4, <2>2, <2>4, <3>1 DEF BuiltAt
  <2>7. QED
    BY <2>5, <2>6
<1>5. QED
    BY <1>3, <1>4

LEMMA BuiltStep == Types /\ Built /\ [Next]_vars => Built'
<1> SUFFICES ASSUME Types, Built, [Next]_vars PROVE Built'
    OBVIOUS
<1>1. ASSUME UNCHANGED <<at, local, snaps, hurt>>, pc' = "collect" => pc = "collect" /\ alive' = alive
      PROVE  Built'
    BY <1>1 DEF Built, BuiltAt
<1>2. CASE Tick
    BY <1>1, <1>2 DEF Tick, goroutines
<1>3. ASSUME NEW n \in Nodes, Expire(n) PROVE Built'
  <2>1. /\ UNCHANGED <<at, local, snaps, pc>> /\ hurt' = hurt \cup {n} /\ alive' = alive \ {n}
    BY <1>3 DEF Expire, goroutines
  <2>2. QED
    BY <2>1 DEF Built, BuiltAt
<1>4. ASSUME NEW n \in Nodes, Answered(n) PROVE Built'
  <2> SUFFICES ASSUME NEW m \in Nodes PROVE BuiltAt(m)'
    BY DEF Built
  <2>1. BuiltAt(m) /\ at[n] \in 1..Finished /\ at[n] < Finished /\ local[n] \in Snaps
    BY <1>4 DEF Built, Types, Answered, Outstanding
  <2>2. UNCHANGED <<pc, alive, snaps, hurt>>
    BY <1>4 DEF Answered, history
  <2>3. CASE m # n
    <3>1. at'[m] = at[m] /\ local'[m] = local[m]
      BY <1>4, <2>3 DEF Answered, Types
    <3>2. QED
      BY <2>1, <2>2, <3>1 DEF BuiltAt
  <2>4. CASE m = n
    <3>1. at'[n] = at[n] + 1
      BY <1>4 DEF Answered, Types
    <3>2. /\ local'[n].node = local[n].node /\ local'[n].err = local[n].err
          /\ local'[n].got = local[n].got \cup {Queries[at[n]]}
      BY <1>4, <2>1 DEF Answered, Types, Snaps
    <3>3. Upto(at[n] + 1) = Upto(at[n]) \cup {Queries[at[n]]}
      BY <2>1, QueriesFacts, UptoFacts
    <3>4. ~local[n].err /\ snaps[n] = NoSnap
      BY <2>1, <2>4, QueriesFacts DEF BuiltAt
    <3>5. QED
      BY <2>1, <2>2, <2>4, <3>1, <3>2, <3>3, <3>4 DEF BuiltAt
  <2>5. QED
    BY <2>3, <2>4
<1>5. ASSUME NEW n \in Nodes, Denied(n) PROVE Built'
    BY <1>5, BuiltFailed DEF Denied
<1>6. ASSUME NEW n \in Nodes, Fault(n) PROVE Built'
    BY <1>6, BuiltFailed DEF Fault
<1>7. ASSUME NEW n \in Nodes, Cancelled(n) PROVE Built'
  <2>1. n \in hurt
    BY <1>7 DEF Cancelled, Outstanding, Built, BuiltAt
  <2>2. QED
    BY <1>7, <2>1, BuiltFailed DEF Cancelled
<1>8. ASSUME NEW n \in Nodes, Deliver(n) PROVE Built'
    BY <1>8 DEF Deliver, Built, BuiltAt, Types, history
<1>9. CASE Receive
    BY <1>1, <1>9 DEF Receive, history
<1>10. CASE Return
    BY <1>1, <1>10 DEF Return, goroutines, history
<1>11. CASE AskedBackup
    BY <1>1, <1>11 DEF AskedBackup, goroutines, history
<1>12. CASE RefusedBackup
    BY <1>1, <1>12 DEF RefusedBackup, BackupFailed, Ask, goroutines
<1>13. CASE Audit
    BY <1>1, <1>13 DEF Audit, goroutines, history
<1>14. CASE UNCHANGED vars
    BY <1>1, <1>14 DEF vars
<1>15. QED
    BY <1>2, <1>3, <1>4, <1>5, <1>6, <1>7, <1>8, <1>9, <1>10, <1>11, <1>12, <1>13, <1>14
       DEF Next, Terminating

-----------------------------------------------------------------------------
(***************************************************************************)
(* Time: all the nodes that are still read started together, so they all   *)
(* have the same time left; the clock moves only while they all have some. *)
(***************************************************************************)
Timed ==
    /\ spent <= Timeout
    /\ pc = "collect" =>
          \A n \in Nodes : (at[n] < Finished /\ n \in alive) => left[n] = Timeout - spent

LEMMA TimedStep == Types /\ Timed /\ [Next]_vars => Timed'
<1> SUFFICES ASSUME Types, Timed, [Next]_vars PROVE Timed'
    OBVIOUS
<1>1. ASSUME spent' = spent, pc' = "collect" => /\ pc = "collect" /\ left' = left
                                                /\ alive' \subseteq alive
                                                /\ \A n \in Nodes : at'[n] < Finished => at[n] < Finished
      PROVE  Timed'
    BY <1>1 DEF Timed
<1>2. CASE Tick
  <2>1. CASE pc = "collect"
    <3>1. PICK n \in Nodes : at[n] < Finished
      BY <1>2, <2>1, WaitingIs DEF Tick
    <3>2. \A m \in Nodes : at[m] < Finished => m \in alive /\ left[m] # 0 /\ left[m] = Timeout - spent
      BY <1>2, <2>1, WaitingIs DEF Tick, Busy, Timed
    <3>3. spent \in Nat /\ spent' = spent + 1 /\ left[n] \in 0..Timeout
      BY <1>2, <2>1 DEF Tick, Types
    <3>4. spent' <= Timeout
      BY <3>1, <3>2, <3>3
    <3>5. \A m \in Nodes : at[m] < Finished => left'[m] = Timeout - spent'
      BY <1>2, <2>1, <3>2, <3>3, WaitingIs DEF Tick, Types
    <3>6. QED
      BY <1>2, <3>4, <3>5 DEF Tick, Timed, goroutines
  <2>2. CASE pc # "collect"
    BY <1>1, <1>2, <2>2 DEF Tick
  <2>3. QED
    BY <2>1, <2>2
<1>3. ASSUME NEW n \in Nodes, Expire(n) PROVE Timed'
    BY <1>1, <1>3 DEF Expire, goroutines
<1>4. ASSUME NEW n \in Nodes, Outstanding(n), at' = [at EXCEPT ![n] = @ + 1] \/ at' = [at EXCEPT ![n] = Finished]
      PROVE  \A m \in Nodes : at'[m] < Finished => at[m] < Finished
    BY <1>4 DEF Outstanding, Types
<1>5. ASSUME NEW n \in Nodes, Answered(n) PROVE Timed'
    BY <1>1, <1>4, <1>5 DEF Answered, history
<1>6. ASSUME NEW n \in Nodes, Denied(n) PROVE Timed'
    BY <1>1, <1>4, <1>6 DEF Denied, Failed
<1>7. ASSUME NEW n \in Nodes, Fault(n) PROVE Timed'
    BY <1>1, <1>4, <1>7 DEF Fault, Failed
<1>8. ASSUME NEW n \in Nodes, Cancelled(n) PROVE Timed'
    BY <1>1, <1>4, <1>8 DEF Cancelled, Failed
<1>9. ASSUME NEW n \in Nodes, Deliver(n) PROVE Timed'
    BY <1>1, <1>9 DEF Deliver, history
<1>10. CASE Receive
    BY <1>1, <1>10 DEF Receive, history
<1>11. CASE Return
    BY <1>1, <1>11 DEF Return, history
<1>12. CASE AskedBackup
    BY <1>1, <1>12 DEF AskedBackup, history
<1>13. CASE RefusedBackup
    BY <1>1, <1>13 DEF RefusedBackup, BackupFailed
<1>14. CASE Audit
    BY <1>1, <1>14 DEF Audit, history
<1>15. CASE UNCHANGED vars
    BY <1>1, <1>15 DEF vars
<1>16. QED
    BY <1>2, <1>3, <1>5, <1>6, <1>7, <1>8, <1>9, <1>10, <1>11, <1>12, <1>13, <1>14, <1>15
       DEF Next, Terminating

-----------------------------------------------------------------------------
(***************************************************************************)
(* Counting: a completion is in the channel, or was taken from it, for     *)
(* every snapshot in the slice.  So when N were taken all N are there.     *)
(***************************************************************************)
Delivered == {n \in Nodes : snaps[n] # NoSnap}

Counted ==
    /\ received <= N
    /\ pc = "collect" => received + Len(done) = Cardinality(Delivered)
    /\ pc # "collect" => Delivered = Nodes

LEMMA NodesFinite == IsFiniteSet(Nodes) /\ Cardinality(Nodes) = N
BY FS_Interval DEF Nodes

LEMMA CountedStep == Types /\ Built /\ Counted /\ [Next]_vars => Counted'
<1> SUFFICES ASSUME Types, Built, Counted, [Next]_vars PROVE Counted'
    OBVIOUS
<1>1. ASSUME UNCHANGED <<snaps, done, received>>, pc' = "collect" <=> pc = "collect"
      PROVE  Counted'
    BY <1>1 DEF Counted, Delivered
<1>2. CASE Tick
    BY <1>1, <1>2 DEF Tick, goroutines
<1>3. ASSUME NEW n \in Nodes, Expire(n) PROVE Counted'
    BY <1>1, <1>3 DEF Expire, goroutines
<1>4. ASSUME NEW n \in Nodes, Answered(n) PROVE Counted'
    BY <1>1, <1>4 DEF Answered
<1>5. ASSUME NEW n \in Nodes, Denied(n) PROVE Counted'
    BY <1>1, <1>5 DEF Denied, Failed
<1>6. ASSUME NEW n \in Nodes, Fault(n) PROVE Counted'
    BY <1>1, <1>6 DEF Fault, Failed
<1>7. ASSUME NEW n \in Nodes, Cancelled(n) PROVE Counted'
    BY <1>1, <1>7 DEF Cancelled, Failed
<1>8. ASSUME NEW n \in Nodes, Deliver(n) PROVE Counted'
  <2>1. local[n] # NoSnap
    BY DEF Built, BuiltAt, NoSnap, Nodes
  <2>2. n \notin Delivered /\ Delivered' = Delivered \cup {n}
    BY <1>8, <2>1 DEF Deliver, Delivered, Types
  <2>3. IsFiniteSet(Delivered)
    BY NodesFinite, FS_Subset DEF Delivered
  <2>4. Cardinality(Delivered') = Cardinality(Delivered) + 1
    BY <2>2, <2>3, FS_AddElement
  <2>5. Len(done') = Len(done) + 1 /\ Len(done) \in Nat
    BY <1>8 DEF Deliver, Types
  <2>6. received' = received /\ pc = "collect" /\ pc' = pc /\ received \in Nat
    BY <1>8 DEF Deliver, Types
  <2>7. QED
    BY <2>4, <2>5, <2>6 DEF Counted
<1>9. CASE Receive
  <2>1. Len(done') = Len(done) - 1 /\ Len(done) \in Nat /\ Len(done) > 0
    BY <1>9 DEF Receive, Types
  <2>2. /\ received' = received + 1 /\ received \in Nat /\ pc = "collect" /\ pc' = pc
        /\ Delivered' = Delivered
    BY <1>9 DEF Receive, Types, Delivered
  <2>3. IsFiniteSet(Delivered) /\ Cardinality(Delivered) <= N /\ Cardinality(Delivered) \in Nat
    BY NodesFinite, FS_Subset, FS_CardinalityType DEF Delivered
  <2>4. QED
    BY <2>1, <2>2, <2>3 DEF Counted
<1>10. CASE Return
  <2>1. received = N /\ pc = "collect" /\ pc' # "collect" /\ UNCHANGED <<snaps, received>>
    BY <1>10 DEF Return, Awaited, goroutines
  <2>2. Len(done) \in Nat /\ N + Len(done) = Cardinality(Delivered)
    BY <2>1 DEF Counted, Types
  <2>3. Delivered \subseteq Nodes
    BY DEF Delivered
  <2>4. Cardinality(Delivered) <= N /\ (Cardinality(Delivered) = N => Delivered = Nodes)
    BY <2>3, NodesFinite, FS_Subset
  <2>5. Cardinality(Delivered) \in Nat
    BY <2>3, NodesFinite, FS_Subset, FS_CardinalityType
  <2>6. Delivered = Nodes
    BY <2>2, <2>4, <2>5
  <2>7. QED
    BY <2>1, <2>6 DEF Counted, Delivered
<1>11. CASE AskedBackup
    BY <1>1, <1>11 DEF AskedBackup, goroutines
<1>12. CASE RefusedBackup
    BY <1>1, <1>12 DEF RefusedBackup, BackupFailed, goroutines
<1>13. CASE Audit
    BY <1>1, <1>13 DEF Audit, goroutines
<1>14. CASE UNCHANGED vars
    BY <1>1, <1>14 DEF vars
<1>15. QED
    BY <1>2, <1>3, <1>4, <1>5, <1>6, <1>7, <1>8, <1>9, <1>10, <1>11, <1>12, <1>13, <1>14
       DEF Next, Terminating

-----------------------------------------------------------------------------
(***************************************************************************)
(* The backup record: the nodes before the one asked gave no answer.       *)
(***************************************************************************)
Asked ==
    /\ pc = "collect" => refused = {} /\ ~backup.made
    /\ pc = "backup" => refused = 1..(asking - 1)
    /\ BackupFromFirst

LEMMA AskedStep == Types /\ Asked /\ [Next]_vars => Asked'
<1> SUFFICES ASSUME Types, Asked, [Next]_vars PROVE Asked'
    OBVIOUS
<1>1. ASSUME UNCHANGED <<pc, asking, backup, refused>> PROVE Asked'
    BY <1>1 DEF Asked, BackupFromFirst
<1>2. CASE Tick
    BY <1>1, <1>2 DEF Tick
<1>3. ASSUME NEW n \in Nodes, Expire(n) PROVE Asked'
    BY <1>1, <1>3 DEF Expire
<1>4. ASSUME NEW n \in Nodes, \/ Answered(n) \/ Denied(n) \/ Fault(n) \/ Cancelled(n) \/ Deliver(n)
      PROVE  Asked'
    BY <1>1, <1>4 DEF Answered, Denied, Fault, Cancelled, Deliver, Failed, history
<1>5. CASE Receive
    BY <1>1, <1>5 DEF Receive, history
<1>6. CASE Return
  <2>1. /\ refused' = {} /\ ~backup'.made
        /\ pc' = "audit" \/ (pc' = "backup" /\ asking' = 1)
    BY <1>6 DEF Return, Ask, Asked, history
  <2>2. QED
    BY <2>1 DEF Asked, BackupFromFirst
<1>7. CASE AskedBackup
  <2>1. /\ pc' = "audit" /\ refused' = refused /\ refused = 1..(asking - 1)
        /\ backup'.node = asking /\ backup'.kind \in BackupKinds
    BY <1>7 DEF AskedBackup, Asked, history
  <2>2. backup'.kind # "error"
    BY <2>1 DEF BackupKinds
  <2>3. QED
    BY <2>1, <2>2 DEF Asked, BackupFromFirst
<1>8. CASE RefusedBackup
  <2>1. /\ refused' = 1..(asking - 1) \cup {asking} /\ asking \in 1..N
        /\ backup'.kind = "error" /\ pc = "backup"
    BY <1>8 DEF RefusedBackup, BackupFailed, Asked, Types, Nodes
  <2>2. refused' = 1..asking
    BY <2>1
  <2>3. CASE asking < N
    <3>1. pc' = "backup" /\ asking' = asking + 1 /\ (asking + 1) - 1 = asking
      BY <1>8, <2>1, <2>3 DEF RefusedBackup, BackupFailed, Ask
    <3>2. QED
      BY <2>2, <3>1 DEF Asked, BackupFromFirst
  <2>4. CASE ~(asking < N)
    <3>1. pc' = "audit" /\ asking = N
      BY <1>8, <2>1, <2>4 DEF RefusedBackup, BackupFailed
    <3>2. QED
      BY <2>1, <2>2, <3>1 DEF Asked, BackupFromFirst, Nodes
  <2>5. QED
    BY <2>3, <2>4
<1>9. CASE Audit
    BY <1>9 DEF Audit, Asked, BackupFromFirst, history
<1>10. CASE UNCHANGED vars
    BY <1>1, <1>10 DEF vars
<1>11. QED
    BY <1>2, <1>3, <1>4, <1>5, <1>6, <1>7, <1>8, <1>9, <1>10 DEF Next, Terminating

-----------------------------------------------------------------------------
(***************************************************************************)
(* Coverage is made of the slice as it is at the end of the pass.          *)
(***************************************************************************)
Covered == coverage.made => pc = "end" /\ coverage.gaps = GapsOf

LEMMA EndIsEnd == pc = "end" /\ [Next]_vars => UNCHANGED vars
<1> SUFFICES ASSUME pc = "end", [Next]_vars PROVE UNCHANGED vars
    OBVIOUS
<1>1. Waiting = {}
    BY WaitingIs
<1>2. ~Tick /\ \A n \in Nodes : ~Expire(n)
    BY <1>1 DEF Tick, Expire
<1>3. \A n \in Nodes : ~(\/ Answered(n) \/ Denied(n) \/ Fault(n) \/ Cancelled(n) \/ Deliver(n))
    BY DEF Answered, Denied, Fault, Cancelled, Deliver, Outstanding
<1>4. ~(Receive \/ Return \/ AskedBackup \/ RefusedBackup \/ Audit)
    BY DEF Receive, Return, AskedBackup, RefusedBackup, Audit
<1>5. QED
    BY <1>2, <1>3, <1>4 DEF Next, Terminating

LEMMA CoveredStep == Types /\ Covered /\ [Next]_vars => Covered'
<1> SUFFICES ASSUME Types, Covered, [Next]_vars PROVE Covered'
    OBVIOUS
<1>1. CASE pc = "end"
    BY <1>1, EndIsEnd DEF vars, Covered, GapsOf, Read, Live
<1>2. CASE pc # "end" /\ Audit
  <2>1. /\ pc' = "end" /\ snaps' = snaps /\ foreign' = foreign
        /\ coverage' = [made |-> Live # {}, gaps |-> IF Live # {} THEN GapsOf ELSE {}]
    BY <1>2 DEF Audit, goroutines, servers
  <2>2. coverage'.made => coverage'.gaps = GapsOf
    BY <2>1
  <2>3. GapsOf' = GapsOf
    BY <2>1 DEF GapsOf, Read, Live
  <2>4. QED
    BY <2>1, <2>2, <2>3 DEF Covered
<1>3. CASE pc # "end" /\ ~Audit
  <2>1. coverage' = coverage
    BY <1>3 DEF Next, Terminating, vars, Tick, Expire, Answered, Denied, Fault, Cancelled, Failed,
                Deliver, Receive, Return, AskedBackup, RefusedBackup
  <2>2. QED
    BY <1>3, <2>1 DEF Covered
<1>4. QED
    BY <1>1, <1>2, <1>3

-----------------------------------------------------------------------------
IInv == Types /\ Built /\ Timed /\ Counted /\ Asked /\ Covered

LEMMA InvInit == Init => IInv
<1> SUFFICES ASSUME Init PROVE IInv
    OBVIOUS
<1>1. Types /\ Built
    BY TypesInit, BuiltInit
<1>2. Timed
    BY DEF Init, Timed
<1>3. Counted
  <2>1. Delivered = {}
    BY DEF Init, Delivered
  <2>2. QED
    BY <2>1, FS_EmptySet DEF Init, Counted
<1>4. Asked /\ Covered
    BY DEF Init, Asked, BackupFromFirst, Covered, NoBackup, NoCoverage
<1>5. QED
    BY <1>1, <1>2, <1>3, <1>4 DEF IInv

LEMMA InvStep == IInv /\ [Next]_vars => IInv'
BY TypesStep, BuiltStep, TimedStep, CountedStep, AskedStep, CoveredStep DEF IInv

LEMMA Invariant == Spec => []IInv
<1>1. Init => IInv
    BY InvInit
<1>2. IInv /\ [Next]_vars => IInv'
    BY InvStep
<1>3. QED
    BY <1>1, <1>2, PTL DEF Spec

-----------------------------------------------------------------------------
(***************************************************************************)
(* Every variable keeps to its type: no place beyond the queries, no time  *)
(* left below zero, no completion beyond the nodes, no node to ask beyond  *)
(* the last.                                                               *)
(***************************************************************************)
THEOREM TypeCorrect == Spec => []TypeOK
<1>1. IInv => TypeOK
  <2> SUFFICES ASSUME IInv PROVE TypeOK
    OBVIOUS
  <2>1. Types /\ received \in 0..N
    BY DEF IInv, Types, Counted
  <2>2. \A n \in Nodes : IsSnap(local[n]) /\ IsSnap(snaps[n])
    BY <2>1 DEF Types, Snaps, IsSnap
  <2>3. Range(done) \subseteq Nodes
    BY <2>1 DEF Types, Range
  <2>4. backup.node \in 0..N /\ backup.kind \in BackupKinds \cup {"error"}
    BY <2>1 DEF Types, Records
  <2>5. QED
    BY <2>1, <2>2, <2>3, <2>4 DEF Types, TypeOK
<1>2. QED
    BY Invariant, <1>1, PTL

LEMMA HereIsAll == IInv => AllHere
<1> SUFFICES ASSUME IInv, pc # "collect", NEW n \in Nodes
             PROVE  /\ snaps[n].node = n /\ snaps[n] = local[n] /\ at[n] = Finished
                    /\ n \notin hurt => ~snaps[n].err /\ snaps[n].got = Range(Queries)
    BY DEF AllHere
<1>1. snaps[n] # NoSnap
    BY DEF IInv, Counted, Delivered
<1>2. snaps[n] = local[n] /\ at[n] = Finished /\ BuiltAt(n)
    BY <1>1 DEF IInv, Built, BuiltAt
<1>3. QED
    BY <1>2, UptoFacts DEF BuiltAt

(***************************************************************************)
(* When CollectAll returns every snapshot is there, at the place of its    *)
(* node, and nobody is left to write to it; and a node that refused        *)
(* nothing within its own time is read in full, whatever the others do.    *)
(***************************************************************************)
THEOREM CollectedAll == Spec => []AllHere
BY Invariant, HereIsAll, PTL

(***************************************************************************)
(* The collection takes no longer than one node is given, however many     *)
(* nodes there are and however many of them hang.                          *)
(***************************************************************************)
THEOREM CollectedOnTime == Spec => []OnTime
<1>1. IInv => OnTime
    BY DEF IInv, Timed, OnTime
<1>2. QED
    BY Invariant, <1>1, PTL

(***************************************************************************)
(* A node is given up only for a query it cannot do without.               *)
(***************************************************************************)
THEOREM PartialKept == Spec => []PartialIsKept
<1>1. IInv => PartialIsKept
  <2> SUFFICES ASSUME IInv, NEW n \in Nodes, snaps[n].err
               PROVE  ~(Mandatory \subseteq snaps[n].got)
    BY DEF PartialIsKept
  <2>1. snaps[n] # NoSnap
    BY DEF NoSnap
  <2>2. QED
    BY <2>1 DEF IInv, Built, BuiltAt
<1>2. QED
    BY Invariant, <1>1, PTL

(***************************************************************************)
(* A clean coverage line means that every node was read and gave all that  *)
(* coverage speaks of; and a gap is named only of a node that kept         *)
(* something back.                                                         *)
(***************************************************************************)
THEOREM CoverageIsHonest == Spec => []CoverageHonest
<1>1. IInv => CoverageHonest
  <2> SUFFICES ASSUME IInv, coverage.made
               PROVE  /\ coverage.gaps = {} =>
                           /\ \A n \in Nodes : ~snaps[n].err
                           /\ \A n \in Nodes \ foreign :
                                 {"Clock", "SysTables", "AppTables", "DataBytes"}
                                     \subseteq snaps[n].got
                      /\ (~SkipSysTables /\ ~SkipSchema) =>
                            \A gap \in coverage.gaps : gap[2] \in hurt
    BY DEF CoverageHonest
  <2>1. coverage.gaps = GapsOf /\ pc = "end"
    BY DEF IInv, Covered
  <2>2. ASSUME GapsOf = {}, NEW n \in Nodes PROVE ~snaps[n].err
    <3>1. <<"node", n>> \notin GapsOf
      BY <2>2
    <3>2. QED
      BY <3>1 DEF GapsOf, Read
  <2>3. ASSUME GapsOf = {}, NEW n \in Nodes \ foreign,
               NEW q \in {"Clock", "SysTables", "AppTables", "DataBytes"}
        PROVE  q \in snaps[n].got
    <3>1. n \in Live
      BY <2>2, <2>3 DEF Live, Read
    <3>2. <<q, n>> \in {"SysTables", "AppTables", "Clock", "DataBytes"} \X Live
      BY <3>1
    <3>3. QED
      BY <2>3, <3>2 DEF GapsOf
  <2>4. ASSUME ~SkipSysTables, ~SkipSchema, NEW gap \in GapsOf PROVE gap[2] \in hurt
    <3>1. \A n \in Nodes : n \notin hurt => n \in Read /\ snaps[n].got = Elems(Queries)
      BY <2>1, HereIsAll, QueriesFacts DEF AllHere, Read
    <3>2. {"Clock", "SysTables", "AppTables", "DataBytes", "Replicas", "ReplicaHosts"}
              \subseteq Elems(Queries)
      BY <2>4, QueriesOnce
    <3>3. CASE gap \in {<<"node", n>> : n \in Nodes \ Read}
      BY <3>1, <3>3
    <3>4. CASE gap \in {g \in {"SysTables", "AppTables", "Clock", "DataBytes"} \X Live :
                           g[1] \notin snaps[g[2]].got}
      BY <3>1, <3>2, <3>4 DEF Live, Read
    <3>5. CASE gap \in {<<"replication", n>> : n \in {m \in Live :
                           snaps[m].got \cap {"Replicas", "ReplicaHosts"} = {}}}
      BY <3>1, <3>2, <3>5 DEF Live, Read
    <3>6. QED
      BY <3>3, <3>4, <3>5 DEF GapsOf
  <2>5. QED
    BY <2>1, <2>2, <2>3, <2>4
<1>2. QED
    BY Invariant, <1>1, PTL

(***************************************************************************)
(* The backup record is the first answer: all the nodes before the one     *)
(* that gave it were asked and gave none, and it is an error only where    *)
(* all of them gave none.                                                  *)
(***************************************************************************)
THEOREM BackupOfFirst == Spec => []BackupFromFirst
<1>1. IInv => BackupFromFirst
    BY DEF IInv, Asked
<1>2. QED
    BY Invariant, <1>1, PTL

-----------------------------------------------------------------------------
(***************************************************************************)
(* Why the pass ends.  What it has yet to spend: the phases ahead, the     *)
(* completions to take, the nodes to ask about the backup, the queries     *)
(* without an outcome, the snapshots to deliver, and, for the collection   *)
(* (0) and each node that may be asked, the timers and their ticks.        *)
(***************************************************************************)
Ahead == CASE pc = "collect" -> 3
           [] pc = "backup"  -> 2
           [] pc = "audit"   -> 1
           [] OTHER          -> 0

Unanswered == {t \in Nodes \X (1..Len(Queries)) : at[t[1]] <= t[2]}
Undelivered == {n \in Nodes : snaps[n] = NoSnap}
Rounds == (0..N) \X Nodes
Timers == {t \in Rounds : t[1] > asking \/ (t[1] = asking /\ t[2] \in alive)}
Ticks == {t \in Rounds \X (1..Timeout) : \/ t[1][1] > asking
                                         \/ t[1][1] = asking /\ t[2] <= left[t[1][2]]}

Work == Ahead + (N - received) + (N - asking)
              + Cardinality(Unanswered) + Cardinality(Undelivered)
              + Cardinality(Timers) + Cardinality(Ticks)

LEMMA WorkFinite ==
    /\ IsFiniteSet(Nodes \X (1..Len(Queries)))
    /\ IsFiniteSet(Rounds)
    /\ IsFiniteSet(Rounds \X (1..Timeout))
<1>1. 0 \in Int /\ 1 \in Int /\ N \in Int /\ Timeout \in Int /\ Len(Queries) \in Int
    BY QueriesFacts
<1>2. IsFiniteSet(1..Len(Queries))
    BY <1>1, FS_Interval
<1>3. IsFiniteSet(1..Timeout)
    BY <1>1, FS_Interval
<1>4. IsFiniteSet(0..N)
    BY <1>1, FS_Interval
<1>5. IsFiniteSet(Rounds)
    BY <1>4, NodesFinite, FS_Product DEF Rounds
<1>6. QED
    BY <1>2, <1>3, <1>5, NodesFinite, FS_Product

LEMMA SmallerOrSame ==
    ASSUME NEW S, NEW T, IsFiniteSet(T), S \subseteq T
    PROVE  /\ Cardinality(S) \in Nat /\ Cardinality(T) \in Nat
           /\ Cardinality(S) <= Cardinality(T)
           /\ S # T => Cardinality(S) < Cardinality(T)
<1>1. IsFiniteSet(S) /\ Cardinality(S) <= Cardinality(T) /\ (Cardinality(S) = Cardinality(T) => S = T)
    BY FS_Subset
<1>2. Cardinality(S) \in Nat /\ Cardinality(T) \in Nat
    BY <1>1, FS_CardinalityType
<1>3. QED
    BY <1>1, <1>2

LEMMA SumLess ==
    ASSUME NEW a \in Nat, NEW b \in Nat, NEW p \in Nat, NEW q \in Nat, p <= a, q <= b
    PROVE  /\ a + b \in Nat /\ p + q \in Nat /\ p + q <= a + b
           /\ p < a \/ q < b => p + q < a + b
OBVIOUS

LEMMA AheadOf ==
    ASSUME NEW k \in 0..N, NEW l \in 0..N, k <= l
    PROVE  /\ N - k \in Nat /\ N - l \in Nat /\ N - l <= N - k
           /\ k < l => N - l < N - k
OBVIOUS

\* No part of the work may grow, and one has to shrink.
LEMMA LessWork ==
    ASSUME IInv, IInv',
           Ahead' <= Ahead, received <= received', asking <= asking',
           Unanswered' \subseteq Unanswered, Undelivered' \subseteq Undelivered,
           Timers' \subseteq Timers, Ticks' \subseteq Ticks,
           \/ Ahead' < Ahead
           \/ received < received'
           \/ asking < asking'
           \/ Unanswered' # Unanswered
           \/ Undelivered' # Undelivered
           \/ Timers' # Timers
           \/ Ticks' # Ticks
    PROVE  Work' \in Nat /\ Work' < Work
<1> DEFINE c1 == Cardinality(Unanswered)
           c2 == Cardinality(Undelivered)
           c3 == Cardinality(Timers)
           c4 == Cardinality(Ticks)
           r1 == N - received
           r2 == N - asking
<1>1. /\ IsFiniteSet(Unanswered) /\ IsFiniteSet(Undelivered)
      /\ IsFiniteSet(Timers) /\ IsFiniteSet(Ticks)
    BY WorkFinite, NodesFinite, FS_Subset DEF Unanswered, Undelivered, Timers, Ticks
<1>2. c1 \in Nat /\ c1' \in Nat /\ c1' <= c1 /\ (Unanswered' # Unanswered => c1' < c1)
    BY <1>1, SmallerOrSame
<1>3. c2 \in Nat /\ c2' \in Nat /\ c2' <= c2 /\ (Undelivered' # Undelivered => c2' < c2)
    BY <1>1, SmallerOrSame
<1>4. c3 \in Nat /\ c3' \in Nat /\ c3' <= c3 /\ (Timers' # Timers => c3' < c3)
    BY <1>1, SmallerOrSame
<1>5. c4 \in Nat /\ c4' \in Nat /\ c4' <= c4 /\ (Ticks' # Ticks => c4' < c4)
    BY <1>1, SmallerOrSame
<1>6. Ahead \in Nat /\ Ahead' \in Nat
    BY DEF Ahead
<1>7. received \in 0..N /\ received' \in 0..N /\ asking \in 0..N /\ asking' \in 0..N
    BY DEF IInv, Types, Counted
<1>8. r1 \in Nat /\ r1' \in Nat /\ r1' <= r1 /\ (received < received' => r1' < r1)
    BY <1>7, AheadOf
<1>9. r2 \in Nat /\ r2' \in Nat /\ r2' <= r2 /\ (asking < asking' => r2' < r2)
    BY <1>7, AheadOf
<1>10. Work = Ahead + r1 + r2 + c1 + c2 + c3 + c4
    BY DEF Work
<1>11. Work' = Ahead' + r1' + r2' + c1' + c2' + c3' + c4'
    BY DEF Work
<1>12. \/ Ahead' < Ahead \/ r1' < r1 \/ r2' < r2
       \/ c1' < c1 \/ c2' < c2 \/ c3' < c3 \/ c4' < c4
    BY <1>2, <1>3, <1>4, <1>5, <1>8, <1>9
<1> HIDE DEF c1, c2, c3, c4, r1, r2
<1> DEFINE s1 == Ahead + r1
           s2 == s1 + r2
           s3 == s2 + c1
           s4 == s3 + c2
           s5 == s4 + c3
<1>13. s1 \in Nat /\ s1' \in Nat /\ s1' <= s1 /\ (Ahead' < Ahead \/ r1' < r1 => s1' < s1)
    BY <1>6, <1>8, SumLess
<1> HIDE DEF s1
<1>14. s2 \in Nat /\ s2' \in Nat /\ s2' <= s2 /\ (s1' < s1 \/ r2' < r2 => s2' < s2)
    BY <1>9, <1>13, SumLess
<1> HIDE DEF s2
<1>15. s3 \in Nat /\ s3' \in Nat /\ s3' <= s3 /\ (s2' < s2 \/ c1' < c1 => s3' < s3)
    BY <1>2, <1>14, SumLess
<1> HIDE DEF s3
<1>16. s4 \in Nat /\ s4' \in Nat /\ s4' <= s4 /\ (s3' < s3 \/ c2' < c2 => s4' < s4)
    BY <1>3, <1>15, SumLess
<1> HIDE DEF s4
<1>17. s5 \in Nat /\ s5' \in Nat /\ s5' <= s5 /\ (s4' < s4 \/ c3' < c3 => s5' < s5)
    BY <1>4, <1>16, SumLess
<1> HIDE DEF s5
<1>18. s5' + c4' \in Nat /\ (s5' < s5 \/ c4' < c4 => s5' + c4' < s5 + c4)
    BY <1>5, <1>17, SumLess
<1>19. Work = s5 + c4 /\ Work' = s5' + c4'
    BY <1>10, <1>11 DEF s1, s2, s3, s4, s5
<1>20. QED
    BY <1>12, <1>13, <1>14, <1>15, <1>16, <1>17, <1>18, <1>19

\* The rounds begin with the collection.
Early == pc = "collect" => asking = 0

LEMMA EarlyStep == Early /\ [Next]_vars => Early'
BY DEF Early, Next, Terminating, vars, Tick, Expire, Answered, Denied, Fault, Cancelled, Failed,
       Deliver, Receive, Return, AskedBackup, RefusedBackup, BackupFailed, Audit

\* A query that was answered, or failed, is behind the node.
LEMMA QuerySpent ==
    ASSUME IInv, IInv', NEW n \in Nodes, Outstanding(n),
           at' = [at EXCEPT ![n] = @ + 1] \/ at' = [at EXCEPT ![n] = Finished],
           UNCHANGED <<alive, left, snaps, pc, received, asking>>
    PROVE  Work' \in Nat /\ Work' < Work
<1>1. at \in [Nodes -> 1..Finished] /\ at[n] \in 1..Len(Queries) /\ Finished \in Nat
    BY QueriesFacts DEF IInv, Types, Outstanding
<1>2. at'[n] > at[n] /\ \A m \in Nodes : at'[m] >= at[m]
    BY <1>1, QueriesFacts
<1>3. Unanswered' \subseteq Unanswered
  <2>1. at' \in [Nodes -> 1..Finished]
    BY DEF IInv, Types
  <2>2. \A m \in Nodes : \A k \in 1..Len(Queries) : at'[m] <= k => at[m] <= k
    BY <1>1, <1>2, <2>1, QueriesFacts
  <2>3. QED
    BY <2>2 DEF Unanswered
<1>4. <<n, at[n]>> \in Unanswered /\ <<n, at[n]>> \notin Unanswered'
    BY <1>1, <1>2 DEF Unanswered
<1>5. /\ Ahead' = Ahead /\ received' = received /\ Undelivered' = Undelivered
      /\ Timers' = Timers /\ Ticks' = Ticks
    BY DEF Ahead, Undelivered, Timers, Ticks
<1>6. Ahead' <= Ahead /\ received <= received' /\ asking <= asking'
    BY <1>5 DEF IInv, Types, Ahead
<1>7. QED
    BY <1>3, <1>4, <1>5, <1>6, LessWork

\* A new round begins: the timers and ticks of the one before are behind it.
LEMMA RoundSpent ==
    ASSUME IInv, IInv', NEW n \in Nodes, n > asking, Ask(n),
           Ahead' <= Ahead, UNCHANGED <<at, snaps, received>>
    PROVE  Work' \in Nat /\ Work' < Work
<1>1. asking \in 0..N /\ asking' = n /\ n \in Int
    BY DEF IInv, Types, Ask, Nodes
<1>2. received <= received' /\ asking < asking' /\ Unanswered' = Unanswered /\ Undelivered' = Undelivered
    BY <1>1 DEF Unanswered, Undelivered, IInv, Types
<1>3. Timers' \subseteq Timers
  <2>1. \A s \in 0..N : s >= n => s > asking
    BY <1>1
  <2>2. \A s \in 0..N : s > n \/ s = n => s >= n
    BY <1>1
  <2>3. QED
    BY <1>1, <2>1, <2>2 DEF Timers, Rounds
<1>4. Ticks' \subseteq Ticks
  <2>1. \A s \in 0..N : s > n \/ s = n => s > asking
    BY <1>1
  <2>2. QED
    BY <1>1, <2>1 DEF Ticks, Rounds
<1>5. asking <= asking'
    BY <1>1 DEF Nodes
<1>6. QED
    BY <1>2, <1>3, <1>4, <1>5, LessWork

(***************************************************************************)
(* No step is taken for nothing: each leaves less to do, also the one that *)
(* starts a timeout anew for the next node.                                *)
(***************************************************************************)
EachStepSpends == [][Work' \in Nat /\ Work' < Work]_vars

LEMMA StepSpends ==
    ASSUME IInv, Early, Next, vars' # vars
    PROVE  Work' \in Nat /\ Work' < Work
<1>1. IInv'
    BY InvStep
<1>2. Ahead \in Nat /\ received \in Nat /\ asking \in 0..N /\ at \in [Nodes -> 1..Finished]
    BY DEF Ahead, IInv, Types
<1>3. CASE Tick
  <2>1. PICK n \in Waiting : n \in Nodes /\ left[n] # 0 /\ (pc = "collect" => asking = 0)
                             /\ (pc = "backup" => asking = n)
    BY <1>3, WaitingIs DEF Tick, Busy, Early, IInv, Types
  <2>2. \A m \in Waiting : left[m] # 0
    BY <1>3 DEF Tick, Busy
  <2>3. left \in [Nodes -> 0..Timeout] /\ left' \in [Nodes -> 0..Timeout]
    BY <1>1 DEF IInv, Types
  <2>4. \A m \in Nodes : left'[m] <= left[m] /\ left'[n] < left[n]
    BY <1>3, <2>1, <2>2, <2>3 DEF Tick
  <2>5. /\ received' = received /\ asking' = asking /\ Ahead' = Ahead
        /\ Unanswered' = Unanswered /\ Undelivered' = Undelivered /\ Timers' = Timers
    BY <1>3 DEF Tick, goroutines, Ahead, Unanswered, Undelivered, Timers
  <2>6. Ticks' \subseteq Ticks
    <3>1. \A m \in Nodes : \A k \in 1..Timeout : k <= left'[m] => k <= left[m]
      BY <2>3, <2>4
    <3>2. QED
      BY <2>5, <3>1 DEF Ticks, Rounds
  <2>7. <<<<asking, n>>, left[n]>> \in Ticks /\ <<<<asking, n>>, left[n]>> \notin Ticks'
    <3>1. left[n] \in 1..Timeout /\ ~(left[n] <= left'[n]) /\ ~(asking > asking)
      BY <1>2, <2>1, <2>3, <2>4
    <3>2. <<asking, n>> \in Rounds
      BY <1>2, <2>1 DEF Rounds
    <3>3. QED
      BY <2>5, <3>1, <3>2 DEF Ticks
  <2>8. QED
    BY <1>1, <1>2, <2>5, <2>6, <2>7, LessWork
<1>4. ASSUME NEW n \in Nodes, Expire(n) PROVE Work' \in Nat /\ Work' < Work
  <2>1. n \in alive /\ alive' = alive \ {n} /\ asking' = asking
    BY <1>4 DEF Expire
  <2>2. /\ received' = received /\ Ahead' = Ahead
        /\ Unanswered' = Unanswered /\ Undelivered' = Undelivered /\ Ticks' = Ticks
    BY <1>4 DEF Expire, goroutines, Ahead, Unanswered, Undelivered, Ticks
  <2>3. Timers' \subseteq Timers
    BY <2>1 DEF Timers
  <2>4. <<asking, n>> \in Timers /\ <<asking, n>> \notin Timers'
    <3>1. <<asking, n>> \in Rounds /\ ~(asking > asking)
      BY <1>2 DEF Rounds
    <3>2. QED
      BY <2>1, <3>1 DEF Timers
  <2>5. QED
    BY <1>1, <1>2, <2>1, <2>2, <2>3, <2>4, LessWork
<1>5. ASSUME NEW n \in Nodes, Answered(n) PROVE Work' \in Nat /\ Work' < Work
    BY <1>1, <1>5, QuerySpent DEF Answered
<1>6. ASSUME NEW n \in Nodes, Denied(n) \/ Fault(n) \/ Cancelled(n)
      PROVE  Work' \in Nat /\ Work' < Work
  <2>1. Outstanding(n) /\ Failed(n)
    BY <1>6 DEF Denied, Fault, Cancelled
  <2>2. QED
    BY <1>1, <2>1, QuerySpent DEF Failed
<1>7. ASSUME NEW n \in Nodes, Deliver(n) PROVE Work' \in Nat /\ Work' < Work
  <2>1. local[n] # NoSnap
    BY DEF IInv, Built, BuiltAt, NoSnap, Nodes
  <2>2. Undelivered' \subseteq Undelivered /\ n \in Undelivered /\ n \notin Undelivered'
    BY <1>7, <2>1 DEF Deliver, Undelivered, IInv, Types
  <2>3. /\ received' = received /\ asking' = asking /\ Ahead' = Ahead
        /\ Unanswered' = Unanswered /\ Timers' = Timers /\ Ticks' = Ticks
    BY <1>7 DEF Deliver, Ahead, Unanswered, Timers, Ticks
  <2>4. QED
    BY <1>1, <1>2, <2>2, <2>3, LessWork
<1>8. CASE Receive
  <2>1. /\ received' = received + 1 /\ asking' = asking /\ Ahead' = Ahead
        /\ Unanswered' = Unanswered /\ Undelivered' = Undelivered
        /\ Timers' = Timers /\ Ticks' = Ticks
    BY <1>8 DEF Receive, Ahead, Unanswered, Undelivered, Timers, Ticks
  <2>2. QED
    BY <1>1, <1>2, <2>1, LessWork
\* A phase ends and no round begins.
<1>9. ASSUME Ahead' < Ahead, UNCHANGED <<at, alive, left, snaps, received, asking>>
      PROVE  Work' \in Nat /\ Work' < Work
  <2>1. /\ Unanswered' = Unanswered /\ Undelivered' = Undelivered
        /\ Timers' = Timers /\ Ticks' = Ticks
    BY <1>9 DEF Unanswered, Undelivered, Timers, Ticks
  <2>2. Ahead' <= Ahead /\ received <= received' /\ asking <= asking'
    BY <1>2, <1>9 DEF Ahead
  <2>3. QED
    BY <1>1, <1>9, <2>1, <2>2, LessWork
<1>10. CASE Return
  <2>1. pc = "collect" /\ asking = 0 /\ UNCHANGED <<at, snaps, received>>
    BY <1>10 DEF Return, Early, goroutines
  <2>2. CASE pc' = "backup" /\ Ask(1)
    <3>1. 1 \in Nodes /\ 1 > asking /\ Ahead' <= Ahead
      BY <2>1, <2>2 DEF Nodes, Ahead
    <3>2. QED
      BY <1>1, <2>1, <2>2, <3>1, RoundSpent
  <2>3. CASE pc' = "audit" /\ UNCHANGED <<asking, alive, left>>
    <3>1. Ahead' < Ahead
      BY <2>1, <2>3 DEF Ahead
    <3>2. QED
      BY <1>9, <2>1, <2>3, <3>1
  <2>4. QED
    BY <1>10, <2>2, <2>3 DEF Return
<1>11. CASE AskedBackup
  <2>1. Ahead' < Ahead
    BY <1>11 DEF AskedBackup, Ahead
  <2>2. QED
    BY <1>9, <1>11, <2>1 DEF AskedBackup, goroutines
<1>12. CASE RefusedBackup
  <2>1. pc = "backup" /\ UNCHANGED <<at, snaps, received>>
    BY <1>12 DEF RefusedBackup, goroutines
  <2>2. CASE asking < N
    <3>1. Ask(asking + 1) /\ pc' = pc
      BY <1>12, <2>2 DEF RefusedBackup, BackupFailed
    <3>2. asking + 1 \in Nodes /\ asking + 1 > asking
      BY <1>2, <2>2 DEF Nodes
    <3>3. Ahead' <= Ahead
      BY <1>2, <3>1 DEF Ahead
    <3>4. QED
      BY <1>1, <2>1, <3>1, <3>2, <3>3, RoundSpent
  <2>3. CASE ~(asking < N)
    <3>1. pc' = "audit" /\ UNCHANGED <<asking, alive, left>>
      BY <1>12, <2>3 DEF RefusedBackup, BackupFailed
    <3>2. Ahead' < Ahead
      BY <2>1, <3>1 DEF Ahead
    <3>3. QED
      BY <1>9, <2>1, <3>1, <3>2
  <2>4. QED
    BY <2>2, <2>3
<1>13. CASE Audit
  <2>1. Ahead' < Ahead
    BY <1>13 DEF Audit, Ahead
  <2>2. QED
    BY <1>9, <1>13, <2>1 DEF Audit, goroutines
<1>14. QED
    BY <1>3, <1>4, <1>5, <1>6, <1>7, <1>8, <1>10, <1>11, <1>12, <1>13 DEF Next, Terminating

(***************************************************************************)
(* Every step of the pass leaves less to do.  The work at the start is a   *)
(* number the constants determine, so no pass goes on for ever, in         *)
(* whatever order the servers answer and the timers run out.               *)
(***************************************************************************)
THEOREM StepsAreSpent == Spec => EachStepSpends
<1>1. Init => Early
    BY DEF Init, Early
<1>2. IInv /\ Early /\ [Next]_vars => [Work' \in Nat /\ Work' < Work]_vars
    BY StepSpends
<1>3. QED
    BY <1>1, <1>2, Invariant, EarlyStep, PTL DEF Spec, EachStepSpends

(***************************************************************************)
(* Until the end something is due that no server has a say in: the clock   *)
(* can move, a timer has run out, a goroutine has something to hand over   *)
(* or to take, or the main goroutine can go on.                            *)
(***************************************************************************)
Due ==
    \/ Waiting # {} /\ ~Busy
    \/ \E n \in Nodes : \/ n \in Waiting \cap alive /\ left[n] = 0
                        \/ Outstanding(n) /\ n \notin alive
                        \/ pc = "collect" /\ at[n] = Finished /\ snaps[n] = NoSnap
    \/ pc = "collect" /\ (done # <<>> \/ received = Awaited)
    \/ pc = "backup" /\ asking \notin alive
    \/ pc = "audit"

NeverIdle == pc # "end" => Due

(***************************************************************************)
(* At any moment before the end a step is due that needs no server.  With  *)
(* StepsAreSpent and the fairness of Spec this is why Returns holds: the   *)
(* pass has finitely many steps, and cannot stop short of the end.         *)
(***************************************************************************)
THEOREM AlwaysDue == Spec => []NeverIdle
<1>1. IInv => NeverIdle
  <2> SUFFICES ASSUME IInv, pc # "end", ~Due PROVE FALSE
    BY DEF NeverIdle
  <2>1. Waiting \subseteq Nodes
    BY WaitingIs DEF IInv, Types
  <2>2. pc \in {"collect", "backup"}
    BY DEF Due, IInv, Types
  <2>3. Busy \/ Waiting = {}
    BY DEF Due
  <2>4. CASE pc = "backup"
    <3>1. Waiting = {asking} /\ asking \in alive /\ left[asking] # 0
      BY <2>1, <2>4, WaitingIs DEF Due
    <3>2. ~Busy
      BY <2>4, <3>1 DEF Busy
    <3>3. QED
      BY <2>3, <3>1, <3>2
  <2>5. CASE pc = "collect"
    <3>1. \A n \in Waiting : n \in alive /\ left[n] # 0
      BY <2>1, <2>5, WaitingIs DEF Due, Outstanding
    <3>2. done = <<>> /\ received # N /\ \A n \in Nodes : at[n] = Finished => snaps[n] # NoSnap
      BY <2>5 DEF Due, Awaited
    <3>3. Waiting = {}
      BY <2>3, <2>5, <3>1, <3>2 DEF Busy
    <3>4. \A n \in Nodes : at[n] = Finished
      <4>1. \A n \in Nodes : at[n] \in 1..Finished /\ ~(at[n] < Finished)
        BY <2>5, <3>3, WaitingIs DEF IInv, Types
      <4>2. QED
        BY <4>1, QueriesFacts
    <3>5. Delivered = Nodes
      BY <3>2, <3>4 DEF Delivered
    <3>6. received + Len(done) = N /\ Len(done) = 0 /\ received \in Nat
      BY <2>5, <3>2, <3>5, NodesFinite DEF IInv, Counted, Types
    <3>7. QED
      BY <3>2, <3>6
  <2>6. QED
    BY <2>2, <2>4, <2>5
<1>2. QED
    BY <1>1, Invariant, PTL
=============================================================================
