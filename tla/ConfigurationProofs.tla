------------------------- MODULE ConfigurationProofs ------------------------
(***************************************************************************)
(* What is said of what the nodes were set up with.                        *)
(*                                                                         *)
(* Of the definitions of the tables (Drift), for any nodes and tables, any *)
(* number of changes that are replicated, fail or are made on one node,    *)
(* before the pass and during it, and any reads denied.                    *)
(*                                                                         *)
(* Of the settings (Settings), for any number of voters and any weights,   *)
(* peers, switches and ids they may have, and any sequence of splits,      *)
(* crashes, shutdowns and restarts.                                        *)
(***************************************************************************)
EXTENDS Drift, Settings, FiniteSetTheorems, SequenceTheorems, TLAPS

USE DriftAssumption

-----------------------------------------------------------------------------
(***************************************************************************)
(* Sequences in increasing order.                                          *)
(***************************************************************************)
Increasing(s) == \A p, q \in DOMAIN s : p < q => s[p] < s[q]

(***************************************************************************)
(* One of finitely many numbers is the least.  A smallest set without a    *)
(* least number would lose one element and have one.                       *)
(***************************************************************************)
LEMMA LeastExists ==
    ASSUME NEW S \in SUBSET Nat, IsFiniteSet(S), S # {}
    PROVE  \E x \in S : \A y \in S : x <= y
<1> DEFINE Least(X) == \E x \in X : \A y \in X : x <= y
           T == {X \in FiniteSubsetsOf(S) : X # {} /\ ~Least(X)}
           R == StrictSubsetOrdering(S)
<1>1. SUFFICES ASSUME ~Least(S) PROVE FALSE
    OBVIOUS
<1>2. S \in T /\ T \subseteq FiniteSubsetsOf(S)
    BY <1>1 DEF FiniteSubsetsOf
<1>3. \E X \in T : \A Y \in T : <<Y, X>> \notin R
  <2>1. IsWellFoundedOn(R, FiniteSubsetsOf(S))
    BY FS_StrictSubsetOrderingWellFounded
  <2> HIDE DEF T, R
  <2>2. QED
    BY <1>2, <2>1, WFMin
<1>4. PICK X \in T : \A Y \in T : <<Y, X>> \notin R
    BY <1>3
<1>5. X \subseteq S /\ IsFiniteSet(X) /\ X # {} /\ ~Least(X)
    BY <1>4 DEF FiniteSubsetsOf
<1>6. PICK x \in X : TRUE
    BY <1>5
<1> DEFINE Y == X \ {x}
<1>7. Y \in FiniteSubsetsOf(S)
    BY <1>5, FS_Subset DEF FiniteSubsetsOf
<1>8. <<Y, X>> \in R
    BY <1>5, <1>6 DEF StrictSubsetOrdering
<1>9. Y # {}
    BY <1>5, <1>6
<1>10. PICK m \in Y : \A y \in Y : m <= y
    BY <1>4, <1>7, <1>8, <1>9
<1>11. m \in Nat /\ x \in Nat /\ m \in X /\ \A y \in X : y \in Y \/ y = x
    BY <1>5, <1>6, <1>10
<1>12. CASE m <= x
    BY <1>5, <1>10, <1>11, <1>12
<1>13. CASE x < m
  <2>1. \A y \in X : x <= y
    BY <1>5, <1>10, <1>11, <1>13
  <2>2. QED
    BY <1>5, <1>6, <2>1
<1>14. QED
    BY <1>11, <1>12, <1>13

LEMMA MinIsLeast ==
    ASSUME NEW S \in SUBSET Nat, IsFiniteSet(S), S # {}
    PROVE  Min(S) \in S /\ \A y \in S : Min(S) <= y
<1>1. \E x \in S : \A y \in S : x =< y
    BY LeastExists
<1>2. QED
    BY <1>1 DEF Min

\* What is appended stands at the end, and everything else where it stood.
LEMMA Appended ==
    ASSUME NEW S, NEW s \in Seq(S), NEW x \in S
    PROVE  /\ Append(s, x) \in Seq(S)
           /\ Len(Append(s, x)) = Len(s) + 1
           /\ Range(Append(s, x)) = Range(s) \cup {x}
           /\ \A p \in DOMAIN s : p \in DOMAIN Append(s, x) /\ Append(s, x)[p] = s[p]
<1>1. /\ Append(s, x) \in Seq(S) /\ Len(Append(s, x)) = Len(s) + 1
      /\ Len(s) \in Nat /\ DOMAIN s = 1..Len(s) /\ DOMAIN Append(s, x) = 1..(Len(s) + 1)
      /\ \A p \in 1..Len(s) : Append(s, x)[p] = s[p]
      /\ Append(s, x)[Len(s) + 1] = x
    OBVIOUS
<1>2. Range(Append(s, x)) = Range(s) \cup {x}
    BY <1>1 DEF Range
<1>3. QED
    BY <1>1, <1>2

\* An increasing sequence stays one where what is appended is larger than all of it.
LEMMA IncreasingAppend ==
    ASSUME NEW s \in Seq(Nat), NEW x \in Nat, Increasing(s), \A y \in Range(s) : y < x
    PROVE  Increasing(Append(s, x))
<1>1. /\ Len(s) \in Nat /\ DOMAIN s = 1..Len(s) /\ DOMAIN Append(s, x) = 1..(Len(s) + 1)
      /\ \A p \in 1..Len(s) : Append(s, x)[p] = s[p] /\ s[p] < x
      /\ Append(s, x)[Len(s) + 1] = x
    BY DEF Range
<1>2. QED
    BY <1>1 DEF Increasing

\* Up to where two of them agree, the same elements leave the same one to come.
LEMMA FirstDifference ==
    ASSUME NEW a \in Seq(Nat), NEW b \in Seq(Nat), Increasing(a), Increasing(b),
           Range(a) = Range(b), NEW p \in Nat, p \in DOMAIN a,
           \A q \in 1..(p - 1) : q \in DOMAIN a /\ q \in DOMAIN b /\ a[q] = b[q]
    PROVE  p \in DOMAIN b /\ b[p] <= a[p]
<1>1. /\ DOMAIN a = 1..Len(a) /\ \A q \in DOMAIN a : a[q] \in Nat
      /\ DOMAIN b = 1..Len(b) /\ \A q \in DOMAIN b : b[q] \in Nat
      /\ Len(b) \in Nat /\ Len(a) \in Nat
    OBVIOUS
<1>2. PICK q \in DOMAIN b : b[q] = a[p]
  <2>1. a[p] \in Range(a)
    BY DEF Range
  <2>2. a[p] \in Range(b)
    BY <2>1
  <2>3. QED
    BY <2>2 DEF Range
<1>3. ~(q < p)
  <2>1. SUFFICES ASSUME q < p PROVE FALSE
    OBVIOUS
  <2>2. q \in 1..(p - 1)
    BY <1>1, <2>1
  <2>3. q \in DOMAIN a /\ a[q] = a[p]
    BY <1>2, <2>2
  <2>4. a[q] < a[p]
    BY <2>1, <2>3 DEF Increasing
  <2>5. QED
    BY <1>1, <2>3, <2>4
<1>4. p \in DOMAIN b
    BY <1>1, <1>3
<1>5. p = q \/ p < q
    BY <1>1, <1>3
<1>6. CASE p < q
  <2>1. b[p] < b[q]
    BY <1>4, <1>6 DEF Increasing
  <2>2. QED
    BY <1>1, <1>2, <1>4, <2>1
<1>7. QED
    BY <1>1, <1>2, <1>4, <1>5, <1>6

LEMMA SameBound ==
    ASSUME NEW a \in Nat, NEW b \in Nat, 1..a = 1..b
    PROVE  a = b
<1>1. \A x \in Nat : x \in 1..a <=> x \in 1..b
    OBVIOUS
<1>2. QED
    BY <1>1

\* The elements of an increasing sequence say which sequence it is.
LEMMA SameOrder ==
    ASSUME NEW s \in Seq(Nat), NEW u \in Seq(Nat),
           Increasing(s), Increasing(u), Range(s) = Range(u)
    PROVE  s = u
<1> DEFINE D == {p \in (DOMAIN s) \cup (DOMAIN u) :
                    ~(p \in DOMAIN s /\ p \in DOMAIN u /\ s[p] = u[p])}
<1>1. /\ Len(s) \in Nat /\ DOMAIN s = 1..Len(s) /\ \A p \in DOMAIN s : s[p] \in Nat
      /\ Len(u) \in Nat /\ DOMAIN u = 1..Len(u) /\ \A p \in DOMAIN u : u[p] \in Nat
    OBVIOUS
<1>2. CASE D = {}
  <2>1. DOMAIN s = DOMAIN u /\ \A p \in DOMAIN s : s[p] = u[p]
    BY <1>2
  <2> HIDE DEF D
  <2>2. 1..Len(s) = 1..Len(u)
    BY <1>1, <2>1
  <2>3. Len(s) = Len(u)
    BY <2>2, LenProperties, SameBound
  <2>4. \A p \in 1..Len(s) : s[p] = u[p]
    BY <1>1, <2>1
  <2>5. QED
    BY <2>3, <2>4, SeqEqual
<1>3. CASE D # {}
  <2>1. D \in SUBSET (1..(Len(s) + Len(u)))
    BY <1>1
  <2>2. D \in SUBSET Nat /\ IsFiniteSet(D)
    <3>1. IsFiniteSet(1..(Len(s) + Len(u)))
        BY <1>1, FS_Interval
    <3> HIDE DEF D
    <3>2. IsFiniteSet(D)
        BY <2>1, <3>1, FS_Subset
    <3>3. QED
        BY <1>1, <2>1, <3>2
  <2>3. PICK p \in D : \A q \in D : p <= q
    <3> HIDE DEF D
    <3>1. QED
        BY <1>3, <2>2, LeastExists
  <2>4. p \in 1..(Len(s) + Len(u))
    BY <2>1, <2>3
  <2>5. \A q \in 1..(p - 1) : q \in DOMAIN s /\ q \in DOMAIN u /\ s[q] = u[q]
    <3>1. \A q \in 1..(p - 1) : q \notin D
        BY <2>2, <2>3
    <3>2. p \in DOMAIN s \/ p \in DOMAIN u
        BY <2>3
    <3>3. \A q \in 1..(p - 1) : q \in DOMAIN s \/ q \in DOMAIN u
        BY <1>1, <2>4, <3>2
    <3>4. QED
        BY <3>1, <3>3
  <2>6. p \in DOMAIN s => p \in DOMAIN u /\ u[p] <= s[p]
    <3> HIDE DEF D
    <3>1. p \in Nat /\ \A q \in 1..(p - 1) : q \in DOMAIN s /\ q \in DOMAIN u /\ s[q] = u[q]
        BY <1>1, <2>4, <2>5
    <3>2. QED
        BY <3>1, FirstDifference
  <2>7. p \in DOMAIN u => p \in DOMAIN s /\ s[p] <= u[p]
    <3> HIDE DEF D
    <3>1. p \in Nat /\ \A q \in 1..(p - 1) : q \in DOMAIN u /\ q \in DOMAIN s /\ u[q] = s[q]
        BY <1>1, <2>4, <2>5
    <3>2. QED
        BY <3>1, FirstDifference
  <2>8. QED
    BY <1>1, <2>3, <2>6, <2>7
<1>4. QED
    BY <1>2, <1>3

-----------------------------------------------------------------------------
(***************************************************************************)
(* Counting.                                                               *)
(***************************************************************************)
\* More than one means two that differ.
LEMMA MoreThanOne ==
    ASSUME NEW S, IsFiniteSet(S)
    PROVE  Cardinality(S) > 1 <=> \E x, y \in S : x # y
<1>1. Cardinality(S) \in Nat /\ (Cardinality(S) = 0 <=> S = {})
    BY FS_CardinalityType, FS_EmptySet
<1>2. ASSUME Cardinality(S) > 1 PROVE \E x, y \in S : x # y
  <2>1. PICK x \in S : TRUE
    BY <1>1, <1>2
  <2>2. S # {x}
    BY <1>2, FS_Singleton
  <2>3. QED
    BY <2>1, <2>2
<1>3. ASSUME NEW x \in S, NEW y \in S, x # y PROVE Cardinality(S) > 1
  <2>1. Cardinality(S) # 1
    BY <1>3, FS_Singleton
  <2>2. QED
    BY <1>1, <1>3, <2>1
<1>4. QED
    BY <1>2, <1>3

\* A node's values are finitely many.
LEMMA ImageFinite ==
    ASSUME NEW S, IsFiniteSet(S), NEW f, DOMAIN f = S
    PROVE  IsFiniteSet({f[n] : n \in S})
<1> DEFINE g == [n \in S |-> f[n]]
           T == {f[n] : n \in S}
<1>1. g \in Surjection(S, T)
    BY DEF Surjection
<1> HIDE DEF g
<1>2. QED
    BY <1>1, FS_Surjection

-----------------------------------------------------------------------------
(***************************************************************************)
(* The inductive invariant.                                                *)
(***************************************************************************)
Change == [table : Tables, alone : BOOLEAN]
Defs == [Nodes -> [Tables -> Seq(Nat)]]

Types ==
    /\ changes \in Seq(Change)
    /\ settled \in [Nodes -> SUBSET DOMAIN changes]
    /\ broken \subseteq DOMAIN changes
    /\ def \in Defs /\ atStart \in Defs
    /\ stage \in [Nodes -> {"idle", "sys", "app", "read", "failed"}]
    /\ DOMAIN sys = Nodes /\ DOMAIN app = Nodes

\* The changes of table t, and what its definition began with.
Of(t) == {i \in DOMAIN changes : changes[i].table = t}
Base(t) == IF t \in Existing THEN {0} ELSE {}

\* The changes of t have one order: no node makes one of them in a place of its own.
OneOrder(t) == \A i \in Of(t) : changes[i].alone => Of(t) = {i}

\* A node goes through the replicated changes in their order.
InTurn ==
    \A n \in Nodes : \A i \in settled[n] :
        ~changes[i].alone => \A j \in 1..(i - 1) : changes[j].alone \/ j \in settled[n]

\* A definition is made of the changes the node applied, and of none that it did not.
Made ==
    \A n \in Nodes, t \in Tables :
        /\ Range(def[n][t]) \subseteq Base(t) \cup (settled[n] \cap Of(t))
        /\ Base(t) \cup ((settled[n] \cap Of(t)) \ broken) \subseteq Range(def[n][t])
        /\ OneOrder(t) => Increasing(def[n][t])

\* y is x, or what became of it.
Became(x, y) == x = y \/ Len(x) < Len(y)

\* The fingerprint that is compared; the set of nodes is of no account to it.
PrintOf(snap, n, t) == Fingerprint(snap, {}, t, n)

\* What was read lies between the beginning of the pass and now.
Between(snap, n, t) ==
    /\ PrintOf(snap, n, t) \in Seq(Nat)
    /\ Became(atStart[n][t], PrintOf(snap, n, t))
    /\ Became(PrintOf(snap, n, t), def[n][t])

Grown ==
    \A n \in Nodes, t \in Tables :
        /\ Became(atStart[n][t], def[n][t])
        /\ Of(t) = {} => atStart[n][t] = def[n][t]
        /\ t \in SysTables /\ sys[n].read => Between(sys, n, t)
        /\ t \in AppTables /\ app[n].read => Between(app, n, t)

ReadSoFar ==
    \A n \in Nodes :
        /\ sys[n] = Unread \/ (sys[n].read /\ stage[n] \in {"app", "read"})
        /\ app[n] = Unread \/ (app[n].read /\ stage[n] = "read")
        /\ DOMAIN sys[n].prints \subseteq SysTables
        /\ DOMAIN app[n].prints \subseteq AppTables

Reported ==
    /\ Ended => \A n \in Nodes : stage[n] \in {"read", "failed"}
    /\ StandingDriftIsFound
    /\ DriftIsExplained

Facts == Types /\ InTurn /\ Made /\ Grown /\ ReadSoFar
IInv == Facts /\ Reported
-----------------------------------------------------------------------------
(***************************************************************************)
(* The servers.                                                            *)
(***************************************************************************)
\* The changes are only ever more.
Longer ==
    /\ changes' \in Seq(Change)
    /\ \A j \in DOMAIN changes : j \in DOMAIN changes' /\ changes'[j] = changes[j]

LEMMA ChangesDomain ==
    ASSUME Types
    PROVE  /\ Len(changes) \in Nat /\ DOMAIN changes = 1..Len(changes)
           /\ DOMAIN changes \subseteq Nat
           /\ IsFiniteSet(DOMAIN changes)
<1>1. Len(changes) \in Nat /\ DOMAIN changes = 1..Len(changes)
    BY DEF Types
<1>2. IsFiniteSet(1..Len(changes)) /\ 1..Len(changes) \subseteq Nat
    BY <1>1, FS_Interval
<1>3. QED
    BY <1>1, <1>2

LEMMA ChangeType ==
    ASSUME Types, NEW i \in DOMAIN changes
    PROVE  changes \in Seq(Change) /\ changes[i].table \in Tables
<1>1. changes \in Seq(Change) /\ i \in 1..Len(changes)
    BY ChangesDomain DEF Types
<1>2. changes[i] \in Change
    BY <1>1, ElementOfSeq
<1>3. QED
    BY <1>1, <1>2 DEF Change

LEMMA OfGrows ==
    ASSUME Types, Longer, NEW t \in Tables
    PROVE  /\ Of(t) \subseteq Of(t)'
           /\ \A n \in Nodes : settled[n] \cap Of(t)' = settled[n] \cap Of(t)
           /\ OneOrder(t)' => OneOrder(t)
<1>1. Of(t) \subseteq Of(t)'
    BY DEF Longer, Of
<1>2. \A n \in Nodes : settled[n] \cap Of(t)' = settled[n] \cap Of(t)
    BY DEF Types, Longer, Of
<1>3. ASSUME OneOrder(t)', NEW i \in Of(t), changes[i].alone PROVE Of(t) = {i}
  <2>1. changes'[i].alone /\ i \in Of(t)'
    BY <1>1, <1>3 DEF Longer, Of
  <2>2. Of(t)' = {i}
    BY <1>3, <2>1 DEF OneOrder
  <2>3. QED
    BY <1>1, <1>3, <2>2
<1>4. OneOrder(t)' => OneOrder(t)
    BY <1>3 DEF OneOrder
<1>5. QED
    BY <1>1, <1>2, <1>4

\* A definition to which a change is appended.
LEMMA DefAppend ==
    ASSUME def \in Defs, NEW n \in Nodes, NEW t \in Tables, NEW i \in Nat,
           def' = [def EXCEPT ![n][t] = Append(@, i)]
    PROVE  /\ def' \in Defs
           /\ def'[n][t] = Append(def[n][t], i)
           /\ \A m \in Nodes, u \in Tables : m # n \/ u # t => def'[m][u] = def[m][u]
<1>1. def[n] \in [Tables -> Seq(Nat)] /\ def[n][t] \in Seq(Nat)
    BY DEF Defs
<1>2. Append(def[n][t], i) \in Seq(Nat)
    BY <1>1, Appended
<1> DEFINE d == Append(def[n][t], i)
           row == [def[n] EXCEPT ![t] = d]
<1>3. def' = [def EXCEPT ![n] = row]
    BY <1>1
<1> HIDE DEF d
<1>4. row \in [Tables -> Seq(Nat)] /\ row[t] = d /\ \A u \in Tables : u # t => row[u] = def[n][u]
    BY <1>1, <1>2 DEF d
<1> HIDE DEF row
<1>5. def' \in Defs /\ def'[n] = row /\ \A m \in Nodes : m # n => def'[m] = def[m]
    BY <1>3, <1>4 DEF Defs
<1>6. QED
    BY <1>4, <1>5 DEF d

LEMMA BecameAppend ==
    ASSUME NEW x \in Seq(Nat), NEW y \in Seq(Nat), NEW k \in Nat, Became(x, y)
    PROVE  Became(x, Append(y, k))
<1>1. Len(Append(y, k)) = Len(y) + 1 /\ Len(x) \in Nat /\ Len(y) \in Nat
    BY Appended
<1>2. Len(x) <= Len(y)
    BY <1>1 DEF Became
<1>3. QED
    BY <1>1, <1>2 DEF Became

\* What a node did not change became what it is, and so did what it added to.
LEMMA GrownKept ==
    ASSUME Types, Grown, Longer, UNCHANGED <<sys, app, atStart>>,
           \A n \in Nodes, t \in Tables :
              \/ def'[n][t] = def[n][t]
              \/ Of(t)' # {} /\ \E k \in Nat : def'[n][t] = Append(def[n][t], k)
    PROVE  Grown'
<1> SUFFICES ASSUME NEW n \in Nodes, NEW t \in Tables
             PROVE  /\ Became(atStart[n][t], def'[n][t])
                    /\ Of(t)' = {} => atStart[n][t] = def'[n][t]
                    /\ t \in SysTables /\ sys[n].read => Between(sys, n, t)'
                    /\ t \in AppTables /\ app[n].read => Between(app, n, t)'
    BY DEF Grown
<1>1. def[n][t] \in Seq(Nat) /\ atStart[n][t] \in Seq(Nat)
    BY DEF Types, Defs
<1>2. ASSUME NEW x \in Seq(Nat), Became(x, def[n][t]) PROVE Became(x, def'[n][t])
    BY <1>1, <1>2, BecameAppend
<1>3. Became(atStart[n][t], def'[n][t])
    BY <1>1, <1>2 DEF Grown
<1>4. Of(t)' = {} => atStart[n][t] = def'[n][t]
  <2>1. Of(t) \subseteq Of(t)'
    BY OfGrows
  <2>2. QED
    BY <2>1 DEF Grown
<1>5. PrintOf(sys, n, t)' = PrintOf(sys, n, t) /\ PrintOf(app, n, t)' = PrintOf(app, n, t)
    BY DEF PrintOf, Fingerprint
<1>6. t \in SysTables /\ sys[n].read => Between(sys, n, t)'
    BY <1>2, <1>5 DEF Grown, Between
<1>7. t \in AppTables /\ app[n].read => Between(app, n, t)'
    BY <1>2, <1>5 DEF Grown, Between
<1>8. QED
    BY <1>3, <1>4, <1>6, <1>7

\* A statement that nobody has applied yet changes no definition.
LEMMA AlterKeeps ==
    ASSUME Facts, NEW t \in AppTables, Alter(t)
    PROVE  Facts'
<1> DEFINE r == [table |-> t, alone |-> FALSE]
<1>1. Longer
  <2>1. r \in Change /\ changes \in Seq(Change) /\ changes' = Append(changes, r)
    BY DEF Facts, Types, Change, Alter, Tables
  <2> HIDE DEF r
  <2>2. QED
    BY <2>1, Appended DEF Longer
<1>2. Types /\ UNCHANGED <<settled, def, stage, sys, app, broken, atStart>>
    BY DEF Facts, Alter
<1>3. Types'
    BY <1>1, <1>2 DEF Types, Longer
<1>4. InTurn'
  <2> SUFFICES ASSUME NEW n \in Nodes, NEW i \in settled[n], ~changes'[i].alone,
                      NEW j \in 1..(i - 1)
               PROVE  changes'[j].alone \/ j \in settled[n]
    BY <1>2 DEF InTurn
  <2>1. i \in DOMAIN changes /\ j \in DOMAIN changes
    BY <1>2, ChangesDomain DEF Types
  <2>2. changes'[i] = changes[i] /\ changes'[j] = changes[j]
    BY <1>1, <2>1 DEF Longer
  <2>3. QED
    BY <2>2 DEF Facts, InTurn
<1>5. Made'
  <2> SUFFICES ASSUME NEW n \in Nodes, NEW u \in Tables
               PROVE  /\ Range(def[n][u]) \subseteq Base(u) \cup (settled[n] \cap Of(u)')
                      /\ Base(u) \cup ((settled[n] \cap Of(u)') \ broken) \subseteq Range(def[n][u])
                      /\ OneOrder(u)' => Increasing(def[n][u])
    BY <1>2 DEF Made, Base
  <2>1. QED
    BY <1>1, <1>2, OfGrows DEF Facts, Made
<1>6. Grown'
    BY <1>1, <1>2, GrownKept DEF Facts
<1>7. ReadSoFar'
    BY <1>2 DEF Facts, ReadSoFar
<1>8. QED
    BY <1>3, <1>4, <1>5, <1>6, <1>7 DEF Facts

\* Node n settles change i of table t, in the place that is its own.
LEMMA SettleKeeps ==
    ASSUME Facts, Longer, UNCHANGED <<stage, sys, app, atStart>>,
           NEW n \in Nodes, NEW t \in Tables, NEW i \in DOMAIN changes',
           changes'[i].table = t, i \notin settled[n],
           settled' = [settled EXCEPT ![n] = @ \cup {i}],
           \/ def' = [def EXCEPT ![n][t] = Append(@, i)] /\ broken' = broken
           \/ def' = def /\ broken' = broken \cup {i},
           ~changes'[i].alone => \A j \in 1..(i - 1) : changes'[j].alone \/ j \in settled[n],
           OneOrder(t)' => \A j \in settled[n] \cap Of(t) : j < i
    PROVE  Facts'
<1>1. Types
    BY DEF Facts
<1>2. i \in Nat /\ DOMAIN changes \subseteq DOMAIN changes'
  <2>1. DOMAIN changes' = 1..Len(changes') /\ Len(changes') \in Nat
    BY DEF Longer
  <2>2. QED
    BY <2>1 DEF Longer
<1>3. \A m \in Nodes, u \in Tables :
         def[m][u] \in Seq(Nat) /\ (m # n \/ u # t => def'[m][u] = def[m][u])
    BY <1>1, <1>2, DefAppend DEF Types, Defs
<1>4. def' \in Defs
    BY <1>1, <1>2, DefAppend DEF Types
<1>5. \A m \in Nodes : settled'[m] = IF m = n THEN settled[m] \cup {i} ELSE settled[m]
    BY <1>1 DEF Types
<1>6. \/ def'[n][t] = Append(def[n][t], i) /\ broken' = broken
      \/ def'[n][t] = def[n][t] /\ broken' = broken \cup {i}
    BY <1>1, <1>2, DefAppend DEF Types
<1>7. Types'
  <2>1. settled' \in [Nodes -> SUBSET DOMAIN changes']
    BY <1>1, <1>2 DEF Types
  <2>2. broken' \subseteq DOMAIN changes'
    BY <1>1, <1>2 DEF Types
  <2>3. QED
    BY <1>1, <1>4, <2>1, <2>2 DEF Types, Longer
<1>8. InTurn'
  <2> SUFFICES ASSUME NEW m \in Nodes, NEW k \in settled'[m], ~changes'[k].alone,
                      NEW j \in 1..(k - 1)
               PROVE  changes'[j].alone \/ j \in settled'[m]
    BY DEF InTurn
  <2>1. CASE k \in settled[m]
    <3>1. k \in DOMAIN changes /\ j \in DOMAIN changes
        BY <1>1, <2>1, ChangesDomain DEF Types
    <3>2. changes'[k] = changes[k] /\ changes'[j] = changes[j]
        BY <3>1 DEF Longer
    <3>3. changes[j].alone \/ j \in settled[m]
        BY <2>1, <3>2 DEF Facts, InTurn
    <3>4. QED
        BY <1>5, <3>2, <3>3
  <2>2. CASE k \notin settled[m]
    BY <1>5, <2>2
  <2>3. QED
    BY <2>1, <2>2
<1>9. i \in Of(t)' /\ \A u \in Tables : u # t => i \notin Of(u)'
    BY DEF Of
<1>10. Made'
  <2> SUFFICES ASSUME NEW m \in Nodes, NEW u \in Tables
               PROVE  /\ Range(def'[m][u]) \subseteq Base(u) \cup (settled'[m] \cap Of(u)')
                      /\ Base(u) \cup ((settled'[m] \cap Of(u)') \ broken') \subseteq Range(def'[m][u])
                      /\ OneOrder(u)' => Increasing(def'[m][u])
    BY DEF Made, Base
  <2>1. /\ settled[m] \cap Of(u)' = settled[m] \cap Of(u)
        /\ OneOrder(u)' => OneOrder(u)
        /\ Of(u) \subseteq Of(u)'
    BY <1>1, OfGrows
  <2>2. /\ Range(def[m][u]) \subseteq Base(u) \cup (settled[m] \cap Of(u))
        /\ Base(u) \cup ((settled[m] \cap Of(u)) \ broken) \subseteq Range(def[m][u])
        /\ OneOrder(u) => Increasing(def[m][u])
    BY DEF Facts, Made
  <2>3. CASE m # n \/ u # t
    <3>1. settled'[m] \cap Of(u)' = settled[m] \cap Of(u) /\ def'[m][u] = def[m][u]
        BY <1>3, <1>5, <1>9, <2>1, <2>3
    <3>2. broken \subseteq broken'
        OBVIOUS
    <3>3. QED
        BY <2>1, <2>2, <3>1, <3>2
  <2>4. CASE m = n /\ u = t
    <3>1. settled'[m] \cap Of(u)' = (settled[m] \cap Of(u)) \cup {i}
      <4>1. settled'[m] = settled[m] \cup {i} /\ i \in Of(u)'
        BY <1>5, <1>9, <2>4
      <4>2. settled[m] \cap Of(u)' = settled[m] \cap Of(u)
        BY <2>1
      <4>3. QED
        BY <4>1, <4>2
    <3>2. CASE def'[n][t] = def[n][t] /\ broken' = broken \cup {i}
        BY <2>1, <2>2, <2>4, <3>1, <3>2
    <3>3. CASE def'[n][t] = Append(def[n][t], i) /\ broken' = broken
      <4>1. def[n][t] \in Seq(Nat) /\ Range(def'[n][t]) = Range(def[n][t]) \cup {i}
        <5>1. def[n][t] \in Seq(Nat) /\ i \in Nat
            BY <1>2, <1>3
        <5>2. Range(Append(def[n][t], i)) = Range(def[n][t]) \cup {i}
            BY <5>1, Appended
        <5>3. QED
            BY <3>3, <5>1, <5>2
      <4>2. ASSUME OneOrder(t)' PROVE Increasing(def'[n][t])
        <5>1. \A y \in Range(def[n][t]) : y < i
          <6>1. \A j \in settled[n] \cap Of(t) : j < i
            BY <4>2
          <6>2. \A y \in Base(t) : y < i
            <7>1. i > 0
                BY <1>2 DEF Longer
            <7>2. QED
                BY <7>1 DEF Base
          <6>3. QED
            BY <2>2, <2>4, <6>1, <6>2
        <5>2. Increasing(def[n][t])
            BY <2>1, <2>2, <2>4, <4>2
        <5>3. QED
            BY <1>2, <3>3, <4>1, <5>1, <5>2, IncreasingAppend
      <4>3. QED
        BY <2>2, <2>4, <3>1, <3>3, <4>1, <4>2
    <3>4. QED
        BY <1>6, <3>2, <3>3
  <2>5. QED
    BY <2>3, <2>4
<1>11. Grown'
  <2>1. \A m \in Nodes, u \in Tables :
           \/ def'[m][u] = def[m][u]
           \/ Of(u)' # {} /\ \E k \in Nat : def'[m][u] = Append(def[m][u], k)
    BY <1>2, <1>3, <1>6, <1>9
  <2>2. QED
    BY <1>1, <2>1, GrownKept DEF Facts
<1>12. ReadSoFar'
    BY DEF Facts, ReadSoFar
<1>13. QED
    BY <1>7, <1>8, <1>10, <1>11, <1>12 DEF Facts

LEMMA ApplyKeeps ==
    ASSUME Facts, NEW n \in Nodes, Apply(n)
    PROVE  Facts'
<1>1. Types /\ Pending(n) # {} /\ UNCHANGED <<changes, stage, sys, app, atStart>>
    BY DEF Facts, Apply
<1>2. Min(Pending(n)) \in Pending(n) /\ \A j \in Pending(n) : Min(Pending(n)) <= j
  <2>1. Pending(n) \in SUBSET DOMAIN changes
    BY DEF Pending
  <2>2. Pending(n) \in SUBSET Nat /\ IsFiniteSet(Pending(n))
    BY <1>1, <2>1, ChangesDomain, FS_Subset
  <2>3. QED
    BY <1>1, <2>2, MinIsLeast
<1>3. PICK i \in DOMAIN changes : i = Min(Pending(n))
    BY <1>2 DEF Pending
<1>4. PICK t \in Tables : t = changes[i].table
    BY <1>1, ChangeType
<1>5. /\ settled' = [settled EXCEPT ![n] = @ \cup {i}]
      /\ \/ def' = [def EXCEPT ![n][t] = Append(@, i)] /\ broken' = broken
         \/ def' = def /\ broken' = broken \cup {i}
    BY <1>3, <1>4 DEF Apply
<1>6. ~changes[i].alone /\ i \notin settled[n] /\ i \in Nat
    BY <1>1, <1>2, <1>3, ChangesDomain DEF Pending
<1>7. Longer
    BY <1>1 DEF Longer, Types
<1>8. \A j \in 1..(i - 1) : changes[j].alone \/ j \in settled[n]
  <2>1. ASSUME NEW j \in 1..(i - 1), ~changes[j].alone, j \notin settled[n] PROVE FALSE
    <3>1. j \in DOMAIN changes
        BY <1>1, <1>6, ChangesDomain
    <3>2. j \in Pending(n)
        BY <2>1, <3>1 DEF Pending
    <3>3. QED
        BY <1>2, <1>3, <1>6, <3>2
  <2>2. QED
    BY <2>1
<1>9. ASSUME OneOrder(t), NEW j \in settled[n] \cap Of(t) PROVE j < i
  <2>1. i \in Of(t) /\ j # i /\ j \in Nat
    BY <1>1, <1>4, <1>6, ChangesDomain DEF Of
  <2>2. ~changes[j].alone
    BY <1>9, <2>1 DEF OneOrder
  <2>3. ~(i < j)
    <3>1. SUFFICES ASSUME i < j PROVE FALSE
        OBVIOUS
    <3>2. i \in 1..(j - 1)
        BY <1>1, <1>6, <2>1, <3>1, ChangesDomain
    <3>3. QED
        BY <1>6, <2>2, <3>2 DEF Facts, InTurn
  <2>4. QED
    BY <1>6, <2>1, <2>3
<1>10. OneOrder(t)' => OneOrder(t)
    BY <1>1, <1>7, OfGrows
<1>11. i \in DOMAIN changes' /\ changes'[i].table = t
    BY <1>1, <1>4
<1>12. ~changes'[i].alone => \A j \in 1..(i - 1) : changes'[j].alone \/ j \in settled[n]
    BY <1>1, <1>8
<1>13. UNCHANGED <<stage, sys, app, atStart>>
    BY <1>1
<1>14. QED
    BY <1>5, <1>6, <1>7, <1>9, <1>10, <1>11, <1>12, <1>13, SettleKeeps

LEMMA AlterAloneKeeps ==
    ASSUME Facts, NEW n \in Nodes, NEW t \in Tables, AlterAlone(n, t)
    PROVE  Facts'
<1> DEFINE r == [table |-> t, alone |-> TRUE]
           i == Len(changes) + 1
<1>1. Types /\ UNCHANGED <<stage, sys, app, broken, atStart>>
    BY DEF Facts, AlterAlone
<1>2. r \in Change /\ changes \in Seq(Change) /\ changes' = Append(changes, r)
    BY <1>1 DEF Types, Change, AlterAlone
<1>3. /\ Longer /\ i \in DOMAIN changes' /\ changes'[i] = r
      /\ i \in Nat /\ \A j \in DOMAIN changes : j < i
  <2> HIDE DEF r
  <2>1. Longer
    BY <1>2, Appended DEF Longer
  <2>2. Len(changes) \in Nat /\ DOMAIN changes' = 1..i /\ changes'[i] = r
    BY <1>2
  <2>3. QED
    BY <1>1, <2>1, <2>2, ChangesDomain
<1>4. i \notin settled[n] /\ \A j \in settled[n] : j < i
    BY <1>1, <1>3, ChangesDomain DEF Types
<1>5. /\ settled' = [settled EXCEPT ![n] = @ \cup {i}]
      /\ def' = [def EXCEPT ![n][t] = Append(@, i)]
    BY DEF AlterAlone
<1>6. changes'[i].table = t /\ changes'[i].alone
    BY <1>3
<1> HIDE DEF i, r
<1>7. QED
    BY <1>1, <1>3, <1>4, <1>5, <1>6, SettleKeeps

LEMMA RepeatKeeps ==
    ASSUME Facts, NEW n \in Nodes, NEW i \in DOMAIN changes, Repeat(n, i)
    PROVE  Facts'
<1>1. Types
    BY DEF Facts
<1>2. PICK t \in Tables : t = changes[i].table
    BY <1>1, ChangeType
<1>3. /\ UNCHANGED <<changes, stage, sys, app, broken, atStart>>
      /\ changes[i].alone /\ i \notin settled[n]
      /\ settled' = [settled EXCEPT ![n] = @ \cup {i}]
      /\ def' = [def EXCEPT ![n][t] = Append(@, i)]
    BY <1>2 DEF Repeat
<1>4. Longer
    BY <1>1, <1>3 DEF Longer, Types
<1>5. ASSUME OneOrder(t)', NEW j \in settled[n] \cap Of(t) PROVE j < i
  <2>1. OneOrder(t) /\ i \in Of(t)
    BY <1>1, <1>2, <1>4, <1>5, OfGrows DEF Of
  <2>2. Of(t) = {i}
    BY <1>3, <2>1 DEF OneOrder
  <2>3. QED
    BY <1>3, <1>5, <2>2
<1>6. i \in DOMAIN changes' /\ changes'[i].table = t /\ changes'[i].alone
    BY <1>2, <1>3
<1>7. UNCHANGED <<stage, sys, app, atStart>>
    BY <1>3
<1>8. QED
    BY <1>3, <1>4, <1>5, <1>6, <1>7, SettleKeeps

-----------------------------------------------------------------------------
(***************************************************************************)
(* The pass.                                                               *)
(***************************************************************************)
LEMMA NothingRead == Unread.read = FALSE /\ DOMAIN Unread.prints = {}
BY DEF Unread

LEMMA InitFacts == Init => Facts
<1> SUFFICES ASSUME Init PROVE Facts
    OBVIOUS
<1>1. /\ <<0>> \in Seq(Nat) /\ Range(<<0>>) = {0} /\ Increasing(<<0>>)
      /\ <<>> \in Seq(Nat) /\ Range(<<>>) = {} /\ Increasing(<<>>)
    BY DEF Range, Increasing
<1>2. changes = <<>> /\ changes \in Seq(Change) /\ DOMAIN changes = {}
    BY DEF Init
<1>3. \A n \in Nodes, t \in Tables : def[n][t] = IF t \in Existing THEN <<0>> ELSE <<>>
    BY DEF Init
<1>4. \A t \in Tables : Of(t) = {}
    BY <1>2 DEF Of
<1>5. def \in Defs /\ atStart = def
    BY <1>1 DEF Init, Defs
<1>6. Types
    BY <1>2, <1>5 DEF Init, Types
<1>7. InTurn
    BY DEF Init, InTurn
<1>8. Made
  <2>1. \A n \in Nodes : settled[n] = {}
    BY DEF Init
  <2>2. \A n \in Nodes, t \in Tables : Range(def[n][t]) = Base(t) /\ Increasing(def[n][t])
    BY <1>1, <1>3 DEF Base
  <2>3. QED
    BY <2>1, <2>2 DEF Made
<1>9. \A n \in Nodes : sys[n] = Unread /\ app[n] = Unread
    BY DEF Init
<1>10. Grown
    BY <1>5, <1>9, NothingRead DEF Grown, Became
<1>11. ReadSoFar
    BY <1>9, NothingRead DEF ReadSoFar
<1>12. QED
    BY <1>6, <1>7, <1>8, <1>10, <1>11 DEF Facts

LEMMA BeginKeeps ==
    ASSUME Facts, Begin
    PROVE  Facts'
<1>1. /\ Types /\ UNCHANGED <<changes, settled, def, broken, sys, app>>
      /\ atStart' = def /\ stage' \in [Nodes -> {"sys", "failed"}]
    BY DEF Facts, Begin, servers
<1>2. \A n \in Nodes : sys[n] = Unread /\ app[n] = Unread
    BY DEF Facts, ReadSoFar, Begin
<1>3. Types'
    BY <1>1 DEF Types
<1>4. InTurn'
    BY <1>1 DEF Facts, InTurn
<1>5. Made'
    BY <1>1 DEF Facts, Made, OneOrder, Of, Base
<1>6. Grown'
    BY <1>1, <1>2, NothingRead DEF Grown, Became
<1>7. ReadSoFar'
    BY <1>1, <1>2, NothingRead DEF ReadSoFar
<1>8. QED
    BY <1>3, <1>4, <1>5, <1>6, <1>7 DEF Facts

\* What is read of a table is the definition it has; that there is none is a value.
LEMMA ReadSysKeeps ==
    ASSUME Facts, NEW n \in Nodes, ReadSys(n)
    PROVE  Facts'
<1>1. /\ Types /\ UNCHANGED <<changes, settled, def, broken, app, atStart>>
      /\ stage[n] = "sys" /\ stage' = [stage EXCEPT ![n] = "app"]
      /\ sys' = [sys EXCEPT ![n] = Fingerprints(n, SysTables)] \/ sys' = sys
    BY DEF Facts, ReadSys, servers
<1>2. \A m \in Nodes : m # n => sys'[m] = sys[m] /\ stage'[m] = stage[m]
    BY <1>1 DEF Types
<1>3. stage'[n] = "app" /\ (sys'[n] = Fingerprints(n, SysTables) \/ sys'[n] = sys[n])
    BY <1>1 DEF Types
<1>4. Types'
    BY <1>1 DEF Types
<1>5. InTurn' /\ Made'
    BY <1>1 DEF Facts, InTurn, Made, OneOrder, Of, Base
<1>6. Grown'
  <2> SUFFICES ASSUME NEW m \in Nodes, NEW t \in SysTables, sys'[m].read
               PROVE  Between(sys, m, t)'
    BY <1>1 DEF Facts, Grown, Of, Between, PrintOf, Fingerprint
  <2>1. t \in Tables /\ def[m][t] \in Seq(Nat) /\ Became(atStart[m][t], def[m][t])
    BY <1>1 DEF Tables, Types, Defs, Facts, Grown
  <2>2. CASE sys'[m] = sys[m]
    BY <1>1, <2>1, <2>2 DEF Facts, Grown, Between, PrintOf, Fingerprint
  <2>3. CASE m = n /\ sys'[n] = Fingerprints(n, SysTables)
    <3>1. PrintOf(sys', n, t) = def[n][t]
      <4>1. sys'[n] = Fingerprints(n, SysTables) /\ t \in Tables
        BY <2>1, <2>3
      <4>2. CASE def[n][t] = <<>>
        BY <4>1, <4>2 DEF PrintOf, Fingerprint, Fingerprints
      <4>3. CASE def[n][t] # <<>>
        BY <4>1, <4>3 DEF PrintOf, Fingerprint, Fingerprints
      <4>4. QED
        BY <4>2, <4>3
    <3>2. PrintOf(sys, n, t)' = PrintOf(sys', n, t)
        BY DEF PrintOf, Fingerprint
    <3>3. QED
        BY <1>1, <2>1, <2>3, <3>1, <3>2 DEF Between, Became
  <2>4. QED
    BY <1>2, <1>3, <2>2, <2>3
<1>7. ReadSoFar'
  <2>1. ASSUME sys'[n] = Fingerprints(n, SysTables)
        PROVE  sys'[n].read /\ DOMAIN sys'[n].prints \subseteq SysTables
    BY <2>1 DEF Fingerprints
  <2>2. app[n] = Unread /\ sys[n] = Unread
    BY <1>1 DEF Facts, ReadSoFar
  <2>3. QED
    BY <1>1, <1>2, <1>3, <2>1, <2>2, NothingRead DEF Facts, ReadSoFar
<1>8. QED
    BY <1>4, <1>5, <1>6, <1>7 DEF Facts

LEMMA ReadAppKeeps ==
    ASSUME Facts, NEW n \in Nodes, ReadApp(n)
    PROVE  Facts'
<1>1. /\ Types /\ UNCHANGED <<changes, settled, def, broken, sys, atStart>>
      /\ stage[n] = "app" /\ stage' = [stage EXCEPT ![n] = "read"]
      /\ app' = [app EXCEPT ![n] = Fingerprints(n, AppTables)] \/ app' = app
    BY DEF Facts, ReadApp, servers
<1>2. \A m \in Nodes : m # n => app'[m] = app[m] /\ stage'[m] = stage[m]
    BY <1>1 DEF Types
<1>3. stage'[n] = "read" /\ (app'[n] = Fingerprints(n, AppTables) \/ app'[n] = app[n])
    BY <1>1 DEF Types
<1>4. Types'
    BY <1>1 DEF Types
<1>5. InTurn' /\ Made'
    BY <1>1 DEF Facts, InTurn, Made, OneOrder, Of, Base
<1>6. Grown'
  <2> SUFFICES ASSUME NEW m \in Nodes, NEW t \in AppTables, app'[m].read
               PROVE  Between(app, m, t)'
    BY <1>1 DEF Facts, Grown, Of, Between, PrintOf, Fingerprint
  <2>1. t \in Tables /\ def[m][t] \in Seq(Nat) /\ Became(atStart[m][t], def[m][t])
    BY <1>1 DEF Tables, Types, Defs, Facts, Grown
  <2>2. CASE app'[m] = app[m]
    BY <1>1, <2>1, <2>2 DEF Facts, Grown, Between, PrintOf, Fingerprint
  <2>3. CASE m = n /\ app'[n] = Fingerprints(n, AppTables)
    <3>1. PrintOf(app', n, t) = def[n][t]
      <4>1. app'[n] = Fingerprints(n, AppTables) /\ t \in Tables
        BY <2>1, <2>3
      <4>2. CASE def[n][t] = <<>>
        BY <4>1, <4>2 DEF PrintOf, Fingerprint, Fingerprints
      <4>3. CASE def[n][t] # <<>>
        BY <4>1, <4>3 DEF PrintOf, Fingerprint, Fingerprints
      <4>4. QED
        BY <4>2, <4>3
    <3>2. PrintOf(app, n, t)' = PrintOf(app', n, t)
        BY DEF PrintOf, Fingerprint
    <3>3. QED
        BY <1>1, <2>1, <2>3, <3>1, <3>2 DEF Between, Became
  <2>4. QED
    BY <1>2, <1>3, <2>2, <2>3
<1>7. ReadSoFar'
  <2>1. ASSUME app'[n] = Fingerprints(n, AppTables)
        PROVE  app'[n].read /\ DOMAIN app'[n].prints \subseteq AppTables
    BY <2>1 DEF Fingerprints
  <2>2. app[n] = Unread
    BY <1>1 DEF Facts, ReadSoFar
  <2>3. QED
    BY <1>1, <1>2, <1>3, <2>1, <2>2, NothingRead DEF Facts, ReadSoFar
<1>8. QED
    BY <1>4, <1>5, <1>6, <1>7 DEF Facts

-----------------------------------------------------------------------------
(***************************************************************************)
(* The report.                                                             *)
(***************************************************************************)
\* A table has drifted where two of the nodes that are compared differ on it.
LEMMA DriftedMeans ==
    ASSUME NEW snap, NEW nodes \in SUBSET Nodes, NEW t
    PROVE  t \in Drifted(snap, nodes) <=>
              \E n, m \in nodes : PrintOf(snap, n, t) # PrintOf(snap, m, t)
<1> DEFINE f == [n \in nodes |-> PrintOf(snap, n, t)]
           V == {f[n] : n \in nodes}
<1>1. {Fingerprint(snap, nodes, t, n) : n \in nodes} = V
    BY DEF PrintOf, Fingerprint
<1>2. IsFiniteSet(nodes)
    BY FS_Subset
<1>3. DOMAIN f = nodes /\ \A n \in nodes : f[n] = PrintOf(snap, n, t)
    OBVIOUS
<1> HIDE DEF f
<1>4. IsFiniteSet(V)
    BY <1>2, <1>3, ImageFinite
<1>5. Cardinality(V) > 1 <=> \E x, y \in V : x # y
    BY <1>4, MoreThanOne
<1>6. Cardinality(V) > 1 <=> \E n, m \in nodes : PrintOf(snap, n, t) # PrintOf(snap, m, t)
    BY <1>3, <1>5
<1>7. ASSUME NEW n \in nodes, NEW m \in nodes, PrintOf(snap, n, t) # PrintOf(snap, m, t)
      PROVE  t \in UNION {DOMAIN snap[k].prints : k \in nodes}
    BY <1>7 DEF PrintOf, Fingerprint
<1>8. QED
    BY <1>1, <1>6, <1>7 DEF Drifted

\* Of a table that nobody has touched since the pass began, the fingerprints are the
\* definitions.
LEMMA UntouchedIsRead ==
    ASSUME Facts, NEW t \in Tables, Untouched(t), NEW n \in Nodes
    PROVE  /\ t \in SysTables /\ sys[n].read => PrintOf(sys, n, t) = def[n][t]
           /\ t \in AppTables /\ app[n].read => PrintOf(app, n, t) = def[n][t]
<1>1. ASSUME NEW x \in Seq(Nat), Became(atStart[n][t], x), Became(x, def[n][t])
      PROVE  x = def[n][t]
  <2>1. atStart[n][t] = def[n][t] /\ def[n][t] \in Seq(Nat)
    BY DEF Untouched, Facts, Types, Defs
  <2>2. Len(x) \in Nat /\ Len(def[n][t]) \in Nat
    BY <2>1
  <2>3. QED
    BY <1>1, <2>1, <2>2 DEF Became
<1>2. QED
    BY <1>1 DEF Facts, Grown, Between

LEMMA AuditedRead ==
    ASSUME Facts
    PROVE  /\ SysAudited \subseteq Nodes /\ AppAudited \subseteq Nodes
           /\ \A n \in SysAudited : sys[n].read
           /\ \A n \in AppAudited : app[n].read
           /\ Drifted(sys, SysAudited) \subseteq SysTables
           /\ Drifted(app, AppAudited) \subseteq AppTables
           /\ IsFiniteSet(SysAudited) /\ IsFiniteSet(AppAudited)
           /\ IsFiniteSet(Drifted(app, AppAudited))
<1>1. SysAudited \subseteq Nodes /\ AppAudited \subseteq Nodes
    BY DEF SysAudited, AppAudited, Live
<1>2. /\ \A n \in SysAudited : sys[n].read
      /\ \A n \in AppAudited : app[n].read
    BY NothingRead DEF SysAudited, AppAudited, Live, Facts, ReadSoFar
<1>3. /\ Drifted(sys, SysAudited) \subseteq SysTables
      /\ Drifted(app, AppAudited) \subseteq AppTables
    BY <1>1 DEF Drifted, Facts, ReadSoFar
<1>4. IsFiniteSet(SysAudited) /\ IsFiniteSet(AppAudited)
    BY <1>1, FS_Subset
<1>5. IsFiniteSet(Drifted(app, AppAudited))
  <2>1. Drifted(app, AppAudited) \in SUBSET Tables
    BY <1>3 DEF Tables
  <2>2. QED
    BY <2>1, FS_Subset
<1>6. QED
    BY <1>1, <1>2, <1>3, <1>4, <1>5

\* The lines of the two checks, each with what it names and what it counts.
LEMMA SysLines ==
    ASSUME NEW f \in SysTableDrift
    PROVE  f.count \in {0, 1} /\ f.tables \subseteq Drifted(sys, SysAudited)
BY DEF SysTableDrift, NotRead, Each, Identical, Line

LEMMA AppLines ==
    ASSUME NEW f \in SchemaDrift
    PROVE  /\ f.tables \subseteq Drifted(app, AppAudited)
           /\ f.count \in {0, 1} \/ f.count = Cardinality(Drifted(app, AppAudited))
<1> DEFINE drifted == Drifted(app, AppAudited)
<1>1. \/ f \in NotRead("schema", Live \ AppAudited)
      \/ f \in Identical("schema")
      \/ f \in Each("schema", drifted)
      \/ f = Summary(drifted)
  <2> HIDE DEF drifted
  <2>1. SchemaDrift = NotRead("schema", Live \ AppAudited) \cup
           CASE Cardinality(AppAudited) < 2 -> {}
             [] Cardinality(AppAudited) >= 2 /\ drifted = {} -> Identical("schema")
             [] Cardinality(AppAudited) >= 2 /\ Cardinality(drifted) \in 1..MaxListed ->
                    Each("schema", drifted)
             [] OTHER -> {Summary(drifted)}
    BY DEF SchemaDrift, drifted
  <2>2. QED
    BY <2>1
<1> HIDE DEF drifted
<1>2. CASE f \in NotRead("schema", Live \ AppAudited)
    BY <1>2 DEF NotRead, Line
<1>3. CASE f \in Identical("schema")
    BY <1>3 DEF Identical, Line
<1>4. CASE f \in Each("schema", drifted)
    BY <1>4 DEF Each, Line, drifted
<1>5. CASE f = Summary(drifted)
  <2>1. f.tables = Listed(drifted) /\ f.count = Cardinality(drifted)
    BY <1>5 DEF Summary, Line
  <2>2. Listed(drifted) \subseteq drifted
    BY DEF Listed
  <2>3. QED
    BY <2>1, <2>2 DEF drifted
<1>6. QED
    BY <1>1, <1>2, <1>3, <1>4, <1>5

\* What explains that a table is named.
Explained(t) ==
    \E i \in DOMAIN changes :
        /\ changes[i].table = t
        /\ \/ changes[i].alone /\ (\E n \in Nodes : i \notin settled[n])
           \/ changes[i].alone /\ (\E j \in DOMAIN changes \ {i} : changes[j].table = t)
           \/ i \in broken
           \/ \E n \in Nodes : i \in Pending(n)
           \/ ~Untouched(t)

\* Where nothing explains that t is named, every node has one definition of it: that
\* of all its changes in their order.
LEMMA OneDefinition ==
    ASSUME Facts, NEW t \in Tables, ~Explained(t)
    PROVE  Untouched(t) /\ \A n, m \in Nodes : def[n][t] = def[m][t]
<1>1. \A i \in Of(t) :
         /\ changes[i].alone => \A n \in Nodes : i \in settled[n]
         /\ changes[i].alone => Of(t) = {i}
         /\ i \notin broken
         /\ \A n \in Nodes : i \notin Pending(n)
         /\ Untouched(t)
    BY DEF Explained, Of
<1>2. Untouched(t)
  <2>1. CASE Of(t) = {}
    BY <2>1 DEF Facts, Grown, Untouched
  <2>2. CASE Of(t) # {}
    BY <1>1, <2>2
  <2>3. QED
    BY <2>1, <2>2
<1>3. \A n \in Nodes : Of(t) \subseteq settled[n]
    BY <1>1 DEF Pending, Of
<1>4. OneOrder(t) /\ Of(t) \cap broken = {}
    BY <1>1 DEF OneOrder
<1>5. ASSUME NEW n \in Nodes
      PROVE  /\ def[n][t] \in Seq(Nat)
             /\ Range(def[n][t]) = Base(t) \cup Of(t)
             /\ Increasing(def[n][t])
  <2>1. def[n][t] \in Seq(Nat)
    BY DEF Facts, Types, Defs
  <2>2. /\ Range(def[n][t]) \subseteq Base(t) \cup (settled[n] \cap Of(t))
        /\ Base(t) \cup ((settled[n] \cap Of(t)) \ broken) \subseteq Range(def[n][t])
        /\ Increasing(def[n][t])
    BY <1>4 DEF Facts, Made
  <2>3. settled[n] \cap Of(t) = Of(t) /\ Of(t) \ broken = Of(t)
    BY <1>3, <1>4
  <2>4. QED
    BY <2>1, <2>2, <2>3
<1>6. QED
    BY <1>2, <1>5, SameOrder

\* Two nodes with one definition, untouched, are read alike: what is named is explained.
LEMMA NamedIsExplained ==
    ASSUME Facts, NEW t,
           t \in Drifted(sys, SysAudited) \/ t \in Drifted(app, AppAudited)
    PROVE  Explained(t)
<1>1. SUFFICES ASSUME ~Explained(t) PROVE FALSE
    OBVIOUS
<1>2. t \in Tables
    BY AuditedRead DEF Tables
<1>3. Untouched(t) /\ \A n, m \in Nodes : def[n][t] = def[m][t]
    BY <1>1, <1>2, OneDefinition
<1>4. CASE t \in Drifted(sys, SysAudited)
  <2>1. PICK n \in SysAudited, m \in SysAudited : PrintOf(sys, n, t) # PrintOf(sys, m, t)
    BY <1>4, AuditedRead, DriftedMeans
  <2>2. t \in SysTables /\ sys[n].read /\ sys[m].read /\ n \in Nodes /\ m \in Nodes
    BY <1>4, AuditedRead
  <2>3. QED
    BY <1>2, <1>3, <2>1, <2>2, UntouchedIsRead
<1>5. CASE t \in Drifted(app, AppAudited)
  <2>1. PICK n \in AppAudited, m \in AppAudited : PrintOf(app, n, t) # PrintOf(app, m, t)
    BY <1>5, AuditedRead, DriftedMeans
  <2>2. t \in AppTables /\ app[n].read /\ app[m].read /\ n \in Nodes /\ m \in Nodes
    BY <1>5, AuditedRead
  <2>3. QED
    BY <1>2, <1>3, <2>1, <2>2, UntouchedIsRead
<1>6. QED
    BY <1>4, <1>5

\* Two compared nodes that differ on an untouched table make it drift.
LEMMA DifferenceDrifts ==
    ASSUME Facts, NEW t \in Tables, Untouched(t)
    PROVE  /\ t \in SysTables =>
                 (t \in Drifted(sys, SysAudited) <=>
                     \E n, m \in Compared(t) : def[n][t] # def[m][t])
           /\ t \in AppTables =>
                 (t \in Drifted(app, AppAudited) <=>
                     \E n, m \in Compared(t) : def[n][t] # def[m][t])
<1>1. CASE t \in SysTables
  <2>1. Compared(t) = SysAudited /\ t \notin AppTables
    BY <1>1 DEF Compared
  <2>2. \A n \in SysAudited : PrintOf(sys, n, t) = def[n][t]
    BY <1>1, AuditedRead, UntouchedIsRead
  <2>3. t \in Drifted(sys, SysAudited) <=>
           \E n, m \in SysAudited : PrintOf(sys, n, t) # PrintOf(sys, m, t)
    BY AuditedRead, DriftedMeans
  <2>4. QED
    BY <2>1, <2>2, <2>3
<1>2. CASE t \in AppTables
  <2>1. Compared(t) = AppAudited /\ t \notin SysTables
    BY <1>2 DEF Compared
  <2>2. \A n \in AppAudited : PrintOf(app, n, t) = def[n][t]
    BY <1>2, AuditedRead, UntouchedIsRead
  <2>3. t \in Drifted(app, AppAudited) <=>
           \E n, m \in AppAudited : PrintOf(app, n, t) # PrintOf(app, m, t)
    BY AuditedRead, DriftedMeans
  <2>4. QED
    BY <2>1, <2>2, <2>3
<1>3. QED
    BY <1>1, <1>2 DEF Tables

\* A drifted table of the mysql schema has a line.
LEMMA SysDriftListed ==
    ASSUME Facts, NEW t \in Drifted(sys, SysAudited)
    PROVE  \E f \in SysTableDrift :
              f.check = "systables" /\ f.status = "BAD" /\ t \in f.tables
<1> DEFINE f == Line("systables", "BAD", {}, {t}, 1)
<1>1. PICK n \in SysAudited, m \in SysAudited : PrintOf(sys, n, t) # PrintOf(sys, m, t)
    BY AuditedRead, DriftedMeans
<1>2. Cardinality(SysAudited) > 1 /\ Cardinality(SysAudited) \in Nat
    BY <1>1, AuditedRead, MoreThanOne, FS_CardinalityType
<1>3. Each("systables", Drifted(sys, SysAudited)) \subseteq SysTableDrift
    BY <1>2 DEF SysTableDrift
<1>4. f \in Each("systables", Drifted(sys, SysAudited))
    BY DEF Each
<1>5. f.check = "systables" /\ f.status = "BAD" /\ t \in f.tables
    BY DEF Line
<1>6. QED
    BY <1>3, <1>4, <1>5

\* A drifted application table has a line, or is counted by the one there is.
LEMMA AppDriftCounted ==
    ASSUME Facts, NEW t \in Drifted(app, AppAudited)
    PROVE  \E f \in SchemaDrift :
              /\ f.check = "schema" /\ f.status = "BAD"
              /\ t \in f.tables \/ f.count > Cardinality(f.tables)
<1> DEFINE drifted == Drifted(app, AppAudited)
           one == Line("schema", "BAD", {}, {t}, 1)
           all == Summary(drifted)
<1>1. PICK n \in AppAudited, m \in AppAudited : PrintOf(app, n, t) # PrintOf(app, m, t)
    BY AuditedRead, DriftedMeans
<1>2. Cardinality(AppAudited) > 1 /\ Cardinality(AppAudited) \in Nat
    BY <1>1, AuditedRead, MoreThanOne, FS_CardinalityType
<1>3. CASE Cardinality(drifted) \in 1..MaxListed
  <2>1. Each("schema", drifted) \subseteq SchemaDrift
    BY <1>2, <1>3 DEF SchemaDrift
  <2>2. one \in Each("schema", drifted)
    BY DEF Each
  <2>3. one.check = "schema" /\ one.status = "BAD" /\ t \in one.tables
    BY DEF Line
  <2>4. QED
    BY <2>1, <2>2, <2>3
<1>4. CASE Cardinality(drifted) \notin 1..MaxListed
  <2>1. all \in SchemaDrift
    BY <1>2, <1>4 DEF SchemaDrift
  <2>2. all.check = "schema" /\ all.status = "BAD" /\ all.tables = Listed(drifted)
           /\ all.count = Cardinality(drifted)
    BY DEF Summary, Line
  <2>3. CASE t \in Listed(drifted)
    BY <2>1, <2>2, <2>3
  <2>4. CASE t \notin Listed(drifted)
    <3>1. Listed(drifted) \in SUBSET drifted /\ Listed(drifted) # drifted
        BY <2>4 DEF Listed
    <3>2. IsFiniteSet(drifted)
        BY AuditedRead
    <3> HIDE DEF drifted
    <3>3. /\ Cardinality(Listed(drifted)) <= Cardinality(drifted)
          /\ Cardinality(Listed(drifted)) # Cardinality(drifted)
          /\ IsFiniteSet(Listed(drifted))
        BY <3>1, <3>2, FS_Subset
    <3>4. Cardinality(drifted) \in Nat /\ Cardinality(Listed(drifted)) \in Nat
        BY <3>2, <3>3, FS_CardinalityType
    <3>5. all.count > Cardinality(all.tables)
        BY <2>2, <3>3, <3>4
    <3>6. QED
        BY <2>1, <2>2, <3>5 DEF drifted
  <2>5. QED
    BY <2>3, <2>4
<1>5. QED
    BY <1>3, <1>4

LEMMA AuditKeeps ==
    ASSUME Facts, Audit
    PROVE  Facts' /\ Reported'
<1>1. /\ UNCHANGED <<changes, settled, def, broken, stage, sys, app, atStart>>
      /\ findings' = SysTableDrift \cup SchemaDrift \cup {Line("coverage", "OK", {}, {}, 0)}
      /\ \A n \in Nodes : stage[n] \in {"read", "failed"}
    BY DEF Audit, servers
<1>2. Facts'
  <2>1. Types'
    BY <1>1 DEF Facts, Types
  <2>2. InTurn'
    BY <1>1 DEF Facts, InTurn
  <2>3. Made'
    BY <1>1 DEF Facts, Made, OneOrder, Of, Base
  <2>4. Grown'
    BY <1>1 DEF Facts, Grown, Of, Between, PrintOf, Fingerprint
  <2>5. ReadSoFar'
    BY <1>1 DEF Facts, ReadSoFar
  <2>6. QED
    BY <2>1, <2>2, <2>3, <2>4, <2>5 DEF Facts
<1>3. \A f \in findings' :
         \/ f \in SysTableDrift
         \/ f \in SchemaDrift
         \/ f.tables = {} /\ f.count = 0
    BY <1>1 DEF Line
<1>4. \A t \in Tables : /\ Untouched(t)' <=> Untouched(t)
                        /\ Compared(t)' = Compared(t)
    BY <1>1 DEF Untouched, Compared, SysAudited, AppAudited, Live
<1>5. ASSUME NEW t \in Tables, Untouched(t), NEW n \in Compared(t), NEW m \in Compared(t),
             def[n][t] # def[m][t]
      PROVE  \E f \in findings' :
                /\ f.check = CheckOf(t) /\ f.status = "BAD"
                /\ t \in f.tables \/ f.count > Cardinality(f.tables)
  <2>1. CASE t \in SysTables
    <3>1. t \in Drifted(sys, SysAudited) /\ CheckOf(t) = "systables"
        BY <1>5, <2>1, DifferenceDrifts DEF CheckOf
    <3>2. QED
        BY <1>1, <3>1, SysDriftListed
  <2>2. CASE t \in AppTables
    <3>1. t \in Drifted(app, AppAudited) /\ CheckOf(t) = "schema"
        BY <1>5, <2>2, DifferenceDrifts DEF CheckOf
    <3>2. QED
        BY <1>1, <3>1, AppDriftCounted
  <2>3. QED
    BY <2>1, <2>2 DEF Tables
<1>6. ASSUME NEW f \in findings', f.count > 1, \A t \in AppTables : Untouched(t)
      PROVE  f.count = Cardinality({t \in AppTables :
                           \E n, m \in Compared(t) : def[n][t] # def[m][t]})
  <2>1. f.count = Cardinality(Drifted(app, AppAudited))
    <3>1. ~(f.count \in {0, 1})
        BY <1>6
    <3>2. QED
        BY <1>3, <3>1, SysLines, AppLines
  <2>2. Drifted(app, AppAudited) =
           {t \in AppTables : \E n, m \in Compared(t) : def[n][t] # def[m][t]}
    <3>1. \A t \in AppTables : t \in Drifted(app, AppAudited) <=>
             \E n, m \in Compared(t) : def[n][t] # def[m][t]
        BY <1>6, DifferenceDrifts DEF Tables
    <3>2. Drifted(app, AppAudited) \subseteq AppTables
        BY AuditedRead
    <3>3. QED
        BY <3>1, <3>2
  <2>3. QED
    BY <2>1, <2>2
<1>7. StandingDriftIsFound'
  <2>1. AppTables \subseteq Tables
    BY DEF Tables
  <2>2. {t \in AppTables : \E n, m \in Compared(t)' : def'[n][t] # def'[m][t]} =
        {t \in AppTables : \E n, m \in Compared(t) : def[n][t] # def[m][t]}
    BY <1>1, <1>4, <2>1
  <2>3. \A f \in findings' :
           f.count > 1 /\ (\A t \in AppTables : Untouched(t)') =>
               f.count = Cardinality({t \in AppTables :
                   \E n, m \in Compared(t)' : def'[n][t] # def'[m][t]})
    BY <1>4, <1>6, <2>1, <2>2
  <2>4. \A t \in Tables :
           Untouched(t)' /\ (\E n, m \in Compared(t)' : def'[n][t] # def'[m][t]) =>
               \E f \in findings' :
                   /\ f.check = CheckOf(t) /\ f.status = "BAD"
                   /\ t \in f.tables \/ f.count > Cardinality(f.tables)
    BY <1>1, <1>4, <1>5
  <2>5. \A t \in Tables : CheckOf(t)' = CheckOf(t)
    BY DEF CheckOf
  <2>6. QED
    BY <2>3, <2>4, <2>5 DEF StandingDriftIsFound
<1>8. DriftIsExplained'
  <2>1. \A f \in findings' : \A t \in f.tables : Explained(t)
    BY <1>3, SysLines, AppLines, NamedIsExplained
  <2>2. \A t : Explained(t)' <=> Explained(t)
    BY <1>1 DEF Explained, Pending, Untouched
  <2>3. QED
    BY <2>1, <2>2 DEF DriftIsExplained, Explained
<1>9. QED
    BY <1>1, <1>2, <1>7, <1>8 DEF Reported

-----------------------------------------------------------------------------
(***************************************************************************)
(* The theorems.                                                           *)
(***************************************************************************)
\* A report that is not made yet says nothing wrong.
LEMMA NotYetReported ==
    ASSUME ~Ended'
    PROVE  Reported'
BY DEF Reported, Ended, StandingDriftIsFound, DriftIsExplained

LEMMA InvInit == Init => IInv
<1>1. Init => Reported
    BY DEF Init, Reported, Ended, StandingDriftIsFound, DriftIsExplained
<1>2. QED
    BY <1>1, InitFacts DEF IInv

LEMMA InvStep == IInv /\ [Next]_vars => IInv'
<1> SUFFICES ASSUME IInv, [Next]_vars PROVE Facts' /\ Reported'
    BY DEF IInv
<1>1. Facts /\ Reported
    BY DEF IInv
<1>2. ASSUME NEW t \in AppTables, Alter(t) PROVE Facts' /\ ~Ended'
    BY <1>1, <1>2, AlterKeeps DEF Alter, Ended
<1>3. ASSUME NEW n \in Nodes, Apply(n) PROVE Facts' /\ ~Ended'
    BY <1>1, <1>3, ApplyKeeps DEF Apply, Ended
<1>4. ASSUME NEW n \in Nodes, NEW t \in Tables, AlterAlone(n, t) PROVE Facts' /\ ~Ended'
    BY <1>1, <1>4, AlterAloneKeeps DEF AlterAlone, Ended
<1>5. ASSUME NEW n \in Nodes, NEW i \in DOMAIN changes, Repeat(n, i) PROVE Facts' /\ ~Ended'
    BY <1>1, <1>5, RepeatKeeps DEF Repeat, Ended
<1>6. ASSUME NEW n \in Nodes, ReadSys(n) PROVE Facts' /\ ~Ended'
    BY <1>1, <1>6, ReadSysKeeps DEF ReadSys, Reported, Ended
<1>7. ASSUME NEW n \in Nodes, ReadApp(n) PROVE Facts' /\ ~Ended'
    BY <1>1, <1>7, ReadAppKeeps DEF ReadApp, Reported, Ended
<1>8. ASSUME Begin PROVE Facts' /\ ~Ended'
    BY <1>1, <1>8, BeginKeeps DEF Begin, Reported, Ended
<1>9. ASSUME Audit PROVE Facts' /\ Reported'
    BY <1>1, <1>9, AuditKeeps
<1>10. ASSUME UNCHANGED vars PROVE Facts' /\ Reported'
  <2>1. UNCHANGED <<changes, settled, def, stage, sys, app, findings, broken, atStart>>
    BY <1>10 DEF vars
  <2>2. Facts'
    BY <1>1, <2>1 DEF Facts, Types, InTurn, Made, OneOrder, Of, Base, Grown, Between, PrintOf,
                      Fingerprint, ReadSoFar
  <2>3. Reported'
    BY <1>1, <2>1 DEF Reported, Ended, StandingDriftIsFound, DriftIsExplained, Untouched,
                      Compared, CheckOf, SysAudited, AppAudited, Live, Pending
  <2>4. QED
    BY <2>2, <2>3
<1>11. QED
    BY <1>2, <1>3, <1>4, <1>5, <1>6, <1>7, <1>8, <1>9, <1>10, NotYetReported
       DEF Next, Done

\* What the nodes hold and what was read of it, in every behaviour.
THEOREM Invariant == Spec => []IInv
BY InvInit, InvStep, PTL DEF Spec

\* The state has its type, and nothing is read but of nodes that are being read.
THEOREM TypeCorrect == Spec => []TypeOK
<1>1. IInv => TypeOK
  <2> SUFFICES ASSUME IInv PROVE TypeOK
    OBVIOUS
  <2>1. Types /\ Made /\ ReadSoFar
    BY DEF IInv, Facts
  <2>2. \A n \in Nodes, t \in Tables : Range(def[n][t]) \subseteq settled[n] \cup {0}
    BY <2>1 DEF Made, Base
  <2>3. \A n \in Nodes : /\ app[n].read => stage[n] = "read"
                         /\ sys[n].read => stage[n] \in {"app", "read"}
    BY <2>1, NothingRead DEF ReadSoFar
  <2>4. QED
    BY <2>1, <2>2, <2>3 DEF TypeOK, Types, ReadSoFar, Change
<1>2. QED
    BY <1>1, Invariant, PTL

\* A difference between the compared nodes that stands while they are read is in the
\* report, and a count counts such tables and no other.
THEOREM DriftFound == Spec => []StandingDriftIsFound
<1>1. IInv => StandingDriftIsFound
    BY DEF IInv, Reported
<1>2. QED
    BY <1>1, Invariant, PTL

\* What the report names has a cause among the changes.
THEOREM DriftHasCause == Spec => []DriftIsExplained
<1>1. IInv => DriftIsExplained
    BY DEF IInv, Reported
<1>2. QED
    BY <1>1, Invariant, PTL

-----------------------------------------------------------------------------
HIDE DriftAssumption

(***************************************************************************)
(* Settings: the votes.                                                    *)
(***************************************************************************)
Weights == [Voters -> Nat]

LEMMA VotesFinite ==
    ASSUME weight \in Weights, NEW s \in SUBSET Voters
    PROVE  IsFiniteSet(Votes(s)) /\ WeightOf(s) \in Nat
<1> DEFINE f == [n \in s |-> {n} \X (1..weight[n])]
<1>1. IsFiniteSet(s)
    BY SettingsAssumption, FS_Subset
<1>2. \A n \in s : IsFiniteSet(f[n])
  <2> SUFFICES ASSUME NEW n \in s PROVE IsFiniteSet({n} \X (1..weight[n]))
    OBVIOUS
  <2>1. weight[n] \in Nat
    BY DEF Weights
  <2>2. IsFiniteSet(1..weight[n])
    BY <2>1, FS_Interval
  <2>3. IsFiniteSet({n})
    BY FS_Singleton
  <2>4. QED
    BY <2>2, <2>3, FS_Product
<1>3. Votes(s) = UNION {f[n] : n \in s}
    BY DEF Votes
<1>4. DOMAIN f = s
    OBVIOUS
<1> HIDE DEF f
<1>5. IsFiniteSet({f[n] : n \in s})
    BY <1>1, <1>4, ImageFinite
<1>6. IsFiniteSet(Votes(s))
    BY <1>2, <1>3, <1>5, FS_UNION
<1>7. QED
    BY <1>6, FS_CardinalityType DEF WeightOf

\* More nodes have no fewer votes.
LEMMA WeightGrows ==
    ASSUME weight \in Weights, NEW b \in SUBSET Voters, NEW a \in SUBSET b
    PROVE  WeightOf(a) <= WeightOf(b)
<1>1. Votes(a) \in SUBSET Votes(b)
    BY DEF Votes
<1>2. QED
    BY <1>1, VotesFinite, FS_Subset DEF WeightOf

\* Nobody votes in two parts of a component.
LEMMA WeightsAdd ==
    ASSUME weight \in Weights, NEW a \in SUBSET Voters, NEW b \in SUBSET Voters, a \cap b = {}
    PROVE  WeightOf(a \cup b) = WeightOf(a) + WeightOf(b)
<1>1. Votes(a \cup b) = Votes(a) \cup Votes(b)
    BY DEF Votes
<1>2. Votes(a) \cap Votes(b) = {}
    BY DEF Votes
<1>3. IsFiniteSet(Votes(a)) /\ IsFiniteSet(Votes(b)) /\ WeightOf(a) \in Nat /\ WeightOf(b) \in Nat
    BY VotesFinite
<1>4. Cardinality(Votes(a) \cup Votes(b)) =
          Cardinality(Votes(a)) + Cardinality(Votes(b)) - Cardinality(Votes(a) \cap Votes(b))
    BY <1>3, FS_Union
<1>5. Cardinality(Votes(a) \cap Votes(b)) = 0
    BY <1>2, FS_EmptySet
<1>6. /\ WeightOf(a \cup b) = Cardinality(Votes(a) \cup Votes(b))
      /\ WeightOf(a) = Cardinality(Votes(a)) /\ WeightOf(b) = Cardinality(Votes(b))
    BY <1>1 DEF WeightOf
<1>7. QED
    BY <1>3, <1>4, <1>5, <1>6

LEMMA OwnWeight ==
    ASSUME weight \in Weights, NEW n \in Voters
    PROVE  WeightOf({n}) = weight[n]
<1>1. weight[n] \in Nat
    BY DEF Weights
<1>2. Votes({n}) = {n} \X (1..weight[n])
    BY DEF Votes
<1>3. /\ IsFiniteSet({n}) /\ Cardinality({n}) = 1
      /\ IsFiniteSet(1..weight[n]) /\ Cardinality(1..weight[n]) = weight[n]
  <2>1. IsFiniteSet({n}) /\ Cardinality({n}) = 1
    BY FS_Singleton
  <2>2. IsFiniteSet(1..weight[n])
        /\ Cardinality(1..weight[n]) = IF 1 > weight[n] THEN 0 ELSE weight[n] - 1 + 1
    BY <1>1, FS_Interval
  <2>3. QED
    BY <1>1, <2>1, <2>2
<1>4. Cardinality({n} \X (1..weight[n])) = Cardinality({n}) * Cardinality(1..weight[n])
    BY <1>3, FS_Product
<1>5. Cardinality({n} \X (1..weight[n])) = 1 * weight[n]
    BY <1>3, <1>4
<1>6. WeightOf({n}) = Cardinality({n} \X (1..weight[n]))
    BY <1>2 DEF WeightOf
<1>7. QED
    BY <1>1, <1>5, <1>6

\* Of the two sides of a split at most one has more than half of the votes.
LEMMA OneSide ==
    ASSUME weight \in Weights, NEW m \in SUBSET Voters, NEW s \in SUBSET m
    PROVE  ~(2 * WeightOf(s) > WeightOf(m) /\ 2 * WeightOf(m \ s) > WeightOf(m))
<1>1. /\ m \ s \in SUBSET Voters /\ s \in SUBSET Voters /\ s \cap (m \ s) = {}
      /\ s \cup (m \ s) = m
    OBVIOUS
<1>2. WeightOf(m) = WeightOf(s) + WeightOf(m \ s)
    BY <1>1, WeightsAdd
<1>3. WeightOf(s) \in Nat /\ WeightOf(m \ s) \in Nat
    BY <1>1, VotesFinite
<1>4. QED
    BY <1>2, <1>3

\* A node that has more than half of all votes has more than half of those of any part
\* it is in.
Decisive(n) == 2 * weight[n] > WeightOf(Voters)

LEMMA DecisiveSide ==
    ASSUME weight \in Weights, NEW m \in SUBSET Voters, NEW s \in SUBSET m, NEW n \in s,
           Decisive(n)
    PROVE  2 * WeightOf(s) > WeightOf(m)
<1>1. s \in SUBSET Voters /\ {n} \in SUBSET s /\ n \in Voters
    OBVIOUS
<1>2. WeightOf({n}) <= WeightOf(s) /\ WeightOf(m) <= WeightOf(Voters)
    BY <1>1, WeightGrows
<1>3. WeightOf({n}) = weight[n]
    BY <1>1, OwnWeight
<1>4. /\ WeightOf(s) \in Nat /\ WeightOf(m) \in Nat /\ WeightOf(Voters) \in Nat
      /\ weight[n] \in Nat
    BY <1>1, VotesFinite DEF Weights
<1>5. QED
    BY <1>2, <1>3, <1>4 DEF Decisive

-----------------------------------------------------------------------------
(***************************************************************************)
(* Settings: the inductive invariant.                                      *)
(***************************************************************************)
IdSetting == [control : BOOLEAN, offset : Nat \ {0}, step : Nat \ {0}]

Given ==
    /\ weight \in Weights
    /\ live \in SUBSET Voters /\ live # {}
    /\ ignoreSb \subseteq Voters /\ bootstrap \subseteq Voters
    /\ peers \in [Voters -> SUBSET (Voters \cup {Gone})]
    /\ ids \in [Voters -> IdSetting]

Parts ==
    /\ \A c \in components : /\ c = [members |-> c.members, primary |-> c.primary]
                             /\ c.members \subseteq Voters /\ c.members # {}
                             /\ c.primary \in BOOLEAN
    /\ \A c, d \in components : c # d => c.members \cap d.members = {}
    /\ stopped \subseteq Voters /\ Down \subseteq stopped

\* What is said, once anything is.
Advice == QuorumSettings \cup PeerList \cup AutoIncrement
Told == said = {} \/ said = Advice

\* No node takes writes without a quorum, and none is the first of a new cluster.
Sound == ignoreSb = {} /\ bootstrap = {} /\ \A n \in Voters : peers[n] # {}

OnePrimary ==
    Sound => \A c, d \in components : c.primary /\ d.primary => c = d

MajorityKept ==
    \A n \in Voters \ stopped :
        Decisive(n) => \A c \in components : n \in c.members => c.primary

SettingsInv == Given /\ Parts /\ Told /\ OnePrimary /\ MajorityKept

\* The one form of every change of the cluster: the components in old become those in new.
Regroup(old, new) ==
    /\ components' = {c \in (components \ old) \cup new : c.members # {}}
    /\ UNCHANGED <<weight, ignoreSb, bootstrap, peers, ids, live, said>>

LEMMA GivenKept ==
    ASSUME Given, Told, UNCHANGED <<weight, ignoreSb, bootstrap, peers, ids, live, said>>
    PROVE  /\ Given' /\ Told' /\ Sound' = Sound
           /\ \A n \in Voters : Decisive(n)' <=> Decisive(n)
<1>1. Given' /\ Sound' = Sound
    BY DEF Given, Sound
<1>2. Advice' = Advice
    BY DEF Advice, QuorumSettings, PeerList, AutoIncrement, Bootstrapping, PerNode, Finding,
           Majorities, WeightOf, Votes, Equal, Present, Uncontrolled, SharedOffset
<1>3. Told'
    BY <1>2 DEF Told
<1>4. \A n \in Voters : Decisive(n)' <=> Decisive(n)
    BY DEF Decisive, WeightOf, Votes
<1>5. QED
    BY <1>1, <1>3, <1>4

(***************************************************************************)
(* What a change of the cluster must be to keep the invariant: it makes    *)
(* components, disjoint ones and of all who were not stopped; where the    *)
(* settings are sound it makes no Primary one but from a Primary one, and  *)
(* not two; and it leaves no node with a majority in one that is not       *)
(* Primary.                                                                *)
(***************************************************************************)
Fits(old, new) ==
    /\ \A d \in new : /\ d = [members |-> d.members, primary |-> d.primary]
                      /\ d.members \subseteq Voters /\ d.primary \in BOOLEAN
    /\ \A d, e \in new : d # e => d.members \cap e.members = {}
    /\ \A d \in new : \A c \in components \ old : d.members \cap c.members = {}

Keeps(old, new) ==
    /\ stopped \subseteq stopped' /\ stopped' \subseteq Voters
    /\ \A c \in old : \A n \in c.members : n \in stopped' \/ \E d \in new : n \in d.members

Inherits(old, new) ==
    Sound =>
        /\ \A d \in new : d.primary /\ d.members # {} =>
               \E c \in old : c.primary /\ c.members \cap d.members # {}
        /\ \A d, e \in new : d.primary /\ d.members # {} /\ e.primary /\ e.members # {}
                                 => d = e

Decides(new) ==
    \A d \in new : \A n \in d.members \ stopped' : Decisive(n) => d.primary

Lawful(old, new) ==
    /\ Regroup(old, new) /\ Fits(old, new) /\ Keeps(old, new)
    /\ Inherits(old, new) /\ Decides(new)

LawfulChange == \E old \in SUBSET components : \E new : Lawful(old, new)

\* Whatever brings about such a change, the invariant is kept.
LEMMA LawfulKeeps ==
    ASSUME SettingsInv, NEW old \in SUBSET components, NEW new, Lawful(old, new)
    PROVE  SettingsInv'
<1> USE DEF Lawful
<1>1. /\ Given' /\ Told' /\ Sound' = Sound
      /\ \A n \in Voters : Decisive(n)' <=> Decisive(n)
    BY GivenKept DEF SettingsInv, Regroup
<1>2. \A d : d \in components' <=>
                 ((d \in components /\ d \notin old) \/ d \in new) /\ d.members # {}
    BY DEF Regroup
<1>3. Parts'
  <2>1. \A d \in components' : /\ d = [members |-> d.members, primary |-> d.primary]
                               /\ d.members \subseteq Voters /\ d.members # {}
                               /\ d.primary \in BOOLEAN
    BY <1>2 DEF SettingsInv, Parts, Fits
  <2>2. \A d, e \in components' : d # e => d.members \cap e.members = {}
    BY <1>2 DEF SettingsInv, Parts, Fits
  <2>3. Down' \subseteq stopped'
    <3> SUFFICES ASSUME NEW n \in Voters, n \notin stopped'
                 PROVE  \E d \in components' : n \in d.members
        BY DEF Down
    <3>1. PICK c \in components : n \in c.members
        BY DEF SettingsInv, Parts, Keeps, Down
    <3>2. CASE c \in old
        BY <1>2, <3>1, <3>2 DEF Keeps
    <3>3. CASE c \notin old
        BY <1>2, <3>1, <3>3
    <3>4. QED
        BY <3>2, <3>3
  <2>4. QED
    BY <2>1, <2>2, <2>3 DEF Parts, Keeps
<1>4. OnePrimary'
    BY <1>1, <1>2 DEF SettingsInv, OnePrimary, Inherits
<1>5. MajorityKept'
    BY <1>1, <1>2 DEF SettingsInv, MajorityKept, Decides, Keeps
<1>6. QED
    BY <1>1, <1>3, <1>4, <1>5 DEF SettingsInv

\* What the actions share.
LEMMA ReplaceRegroups ==
    ASSUME NEW old, NEW new, Replace(old, new)
    PROVE  Regroup(old, new)
BY DEF Replace, Regroup, settings

\* A component, and what is left of it when some of its members are gone.
LEMMA PartFits ==
    ASSUME Given, Parts, NEW c \in components, NEW s \in SUBSET c.members
    PROVE  /\ Part(c, s) = [members |-> Part(c, s).members, primary |-> Part(c, s).primary]
           /\ Part(c, s).members = s /\ s \subseteq Voters
           /\ Part(c, s).primary \in BOOLEAN
           /\ Part(c, s).primary <=> c.primary /\ 2 * WeightOf(s) > WeightOf(c.members)
BY DEF Part, Parts

\* A node that holds a majority makes any part of a Primary component Primary.
LEMMA PartDecides ==
    ASSUME SettingsInv, NEW c \in components, NEW s \in SUBSET c.members,
           NEW n \in s, n \notin stopped, Decisive(n)
    PROVE  Part(c, s).primary
<1>1. weight \in Weights /\ c.members \in SUBSET Voters /\ c.primary
    BY DEF SettingsInv, Given, Parts, MajorityKept
<1>2. 2 * WeightOf(s) > WeightOf(c.members)
    BY <1>1, DecisiveSide
<1>3. QED
    BY <1>1, <1>2 DEF Part

\* Each action of the cluster is such a change.
LEMMA SplitLawful == SettingsInv /\ Split => LawfulChange
<1> SUFFICES ASSUME SettingsInv, Split PROVE LawfulChange
    OBVIOUS
<1>1. PICK c \in components :
          \E s \in (SUBSET c.members) \ {{}, c.members} :
              Replace({c}, {Part(c, s), Part(c, c.members \ s)}) /\ UNCHANGED stopped
    BY Zenon DEF Split
<1>2. PICK s \in (SUBSET c.members) \ {{}, c.members} :
              Replace({c}, {Part(c, s), Part(c, c.members \ s)}) /\ UNCHANGED stopped
    BY <1>1, Zenon
<1> DEFINE r == c.members \ s
           old == {c}
           new == {Part(c, s), Part(c, r)}
<1>3. Given /\ Parts /\ s \in SUBSET c.members /\ r \in SUBSET c.members /\ s # {}
    BY <1>2 DEF SettingsInv
<1>4. /\ Part(c, s).members = s /\ Part(c, r).members = r /\ s \cap r = {} /\ s \cup r = c.members
      /\ Part(c, s).primary => c.primary
      /\ Part(c, r).primary => c.primary
    BY <1>3, PartFits
<1>4a. c \in old /\ \A d \in new : d = Part(c, s) \/ d = Part(c, r)
    OBVIOUS
<1>5. Fits(old, new)
  <2>1. \A d \in new : /\ d = [members |-> d.members, primary |-> d.primary]
                       /\ d.members \subseteq Voters /\ d.primary \in BOOLEAN
    BY <1>3, PartFits
  <2>2. \A d \in new : d.members \subseteq c.members
    BY <1>4
  <2>3. QED
    BY <1>3, <1>4, <2>1, <2>2 DEF Fits, Parts
<1>6. Keeps(old, new)
    BY <1>2, <1>3, <1>4 DEF Keeps, Parts
<1>7. Inherits(old, new)
  <2>1. ~(Part(c, s).primary /\ Part(c, r).primary)
    <3>1. weight \in Weights /\ c.members \in SUBSET Voters
        BY <1>3 DEF Given, Parts
    <3>2. ~(2 * WeightOf(s) > WeightOf(c.members) /\ 2 * WeightOf(r) > WeightOf(c.members))
        BY <1>3, <3>1, OneSide
    <3>3. QED
        BY <1>3, <3>2, PartFits
  <2>2. \A d, e \in new : d.primary /\ e.primary => d = e
    BY <1>4a, <2>1
  <2>3. \A d \in new : d.primary => c.primary /\ c.members \cap d.members = d.members
    BY <1>3, <1>4, <1>4a
  <2>4. QED
    BY <1>4a, <2>2, <2>3 DEF Inherits
<1>8. Decides(new)
  <2>1. \A n \in s \ stopped : Decisive(n) => Part(c, s).primary
    BY <1>3, PartDecides
  <2>2. \A n \in r \ stopped : Decisive(n) => Part(c, r).primary
    BY <1>3, PartDecides
  <2>3. QED
    BY <1>2, <1>4, <1>4a, <2>1, <2>2 DEF Decides
<1>9. Regroup(old, new)
    BY <1>2, ReplaceRegroups
<1>10. QED
    BY <1>5, <1>6, <1>7, <1>8, <1>9 DEF LawfulChange, Lawful

LEMMA HealLawful == SettingsInv /\ Heal => LawfulChange
<1> SUFFICES ASSUME SettingsInv, Heal PROVE LawfulChange
    OBVIOUS
<1>1. PICK c \in components, d \in components :
          /\ c # d
          /\ Replace({c, d}, {[members |-> c.members \cup d.members,
                              primary |-> c.primary \/ d.primary]})
          /\ UNCHANGED stopped
    BY Zenon DEF Heal
<1> DEFINE e == [members |-> c.members \cup d.members, primary |-> c.primary \/ d.primary]
           old == {c, d}
           new == {e}
<1>2. Given /\ Parts /\ e.members = c.members \cup d.members
      /\ e.primary = (c.primary \/ d.primary)
    BY DEF SettingsInv
<1>3. Fits(old, new)
    BY <1>2 DEF Fits, Parts
<1>4. Keeps(old, new)
    BY <1>1, <1>2 DEF Keeps, Parts
<1>5. Inherits(old, new)
    BY <1>2 DEF Inherits, Parts
<1>6. Decides(new)
    BY <1>1, <1>2 DEF Decides, SettingsInv, MajorityKept, Parts
<1>7. Regroup(old, new)
    BY <1>1, ReplaceRegroups
<1>8. QED
    BY <1>3, <1>4, <1>5, <1>6, <1>7 DEF LawfulChange, Lawful

LEMMA CrashLawful == SettingsInv /\ Crash => LawfulChange
<1> SUFFICES ASSUME SettingsInv, Crash PROVE LawfulChange
    OBVIOUS
<1>1. PICK c \in components :
          \E n \in c.members :
              Replace({c}, {Part(c, c.members \ {n})}) /\ stopped' = stopped \cup {n}
    BY Zenon DEF Crash
<1>2. PICK n \in c.members :
              Replace({c}, {Part(c, c.members \ {n})}) /\ stopped' = stopped \cup {n}
    BY <1>1, Zenon
<1> DEFINE s == c.members \ {n}
           old == {c}
           new == {Part(c, s)}
<1>3. Given /\ Parts /\ s \in SUBSET c.members /\ n \in Voters
    BY DEF SettingsInv, Parts
<1>4. /\ Part(c, s).members = s
      /\ Part(c, s).primary => c.primary
      /\ Part(c, s) = [members |-> Part(c, s).members, primary |-> Part(c, s).primary]
      /\ s \subseteq Voters /\ Part(c, s).primary \in BOOLEAN
    BY <1>3, PartFits
<1> HIDE DEF s
<1>4a. c \in old /\ \A d \in new : d = Part(c, s)
    OBVIOUS
<1>5. Fits(old, new)
    BY <1>3, <1>4, <1>4a DEF Fits, Parts
<1>6. Keeps(old, new)
    BY <1>2, <1>3, <1>4, <1>4a DEF Keeps, Parts, s
<1>7. Inherits(old, new)
    BY <1>3, <1>4, <1>4a DEF Inherits
<1>8. Decides(new)
  <2>1. \A m \in s \ stopped : Decisive(m) => Part(c, s).primary
    BY <1>3, PartDecides
  <2>2. QED
    BY <1>2, <1>4, <1>4a, <2>1 DEF Decides
<1>9. Regroup(old, new)
    BY <1>2, ReplaceRegroups DEF s
<1>10. QED
    BY <1>5, <1>6, <1>7, <1>8, <1>9 DEF LawfulChange, Lawful

LEMMA LeaveLawful == SettingsInv /\ Leave => LawfulChange
<1> SUFFICES ASSUME SettingsInv, Leave PROVE LawfulChange
    OBVIOUS
<1>1. PICK c \in components :
          \E n \in c.members :
              Replace({c}, {[c EXCEPT !.members = @ \ {n}]}) /\ stopped' = stopped \cup {n}
    BY Zenon DEF Leave
<1>2. PICK n \in c.members :
              Replace({c}, {[c EXCEPT !.members = @ \ {n}]}) /\ stopped' = stopped \cup {n}
    BY <1>1, Zenon
<1> DEFINE d == [c EXCEPT !.members = @ \ {n}]
           old == {c}
           new == {d}
<1>3. Given /\ Parts /\ n \in Voters
    BY DEF SettingsInv, Parts
<1>4. /\ d.members = c.members \ {n} /\ d.primary = c.primary
      /\ d = [members |-> d.members, primary |-> d.primary]
      /\ d.members \subseteq Voters /\ d.primary \in BOOLEAN
  <2>1. c = [members |-> c.members, primary |-> c.primary]
        /\ c.members \subseteq Voters /\ c.primary \in BOOLEAN
    BY <1>3 DEF Parts
  <2>2. d = [members |-> c.members \ {n}, primary |-> c.primary]
    BY <2>1
  <2>3. QED
    BY <2>1, <2>2
<1> HIDE DEF d
<1>5. Fits(old, new)
    BY <1>3, <1>4 DEF Fits, Parts
<1>6. Keeps(old, new)
    BY <1>2, <1>3, <1>4 DEF Keeps, Parts
<1>7. Inherits(old, new)
    BY <1>4 DEF Inherits
<1>8. Decides(new)
    BY <1>2, <1>3, <1>4 DEF Decides, SettingsInv, MajorityKept
<1>9. Regroup(old, new)
    BY <1>2, ReplaceRegroups DEF d
<1>10. QED
    BY <1>5, <1>6, <1>7, <1>8, <1>9 DEF LawfulChange, Lawful

LEMMA JoinLawful == SettingsInv /\ Join => LawfulChange
<1> SUFFICES ASSUME SettingsInv, Join PROVE LawfulChange
    OBVIOUS
<1> DEFINE Starts(n, c) ==
               Replace({c}, {[c EXCEPT !.members = @ \cup {n}]}) /\ UNCHANGED stopped
<1>0. PICK n \in Down : \E c \in Answering(n) : Starts(n, c)
    BY Zenon DEF Join
<1>1. PICK c \in Answering(n) : Starts(n, c)
    BY <1>0, Zenon
<1> DEFINE d == [c EXCEPT !.members = @ \cup {n}]
           old == {c}
           new == {d}
<1>2. /\ Given /\ Parts /\ n \in Voters /\ c \in components /\ n \in stopped
      /\ \A e \in components : n \notin e.members
    BY DEF SettingsInv, Parts, Down, Answering
<1>3. /\ d.members = c.members \cup {n} /\ d.primary = c.primary
      /\ d = [members |-> d.members, primary |-> d.primary]
      /\ d.members \subseteq Voters /\ d.primary \in BOOLEAN
  <2>1. c = [members |-> c.members, primary |-> c.primary]
        /\ c.members \subseteq Voters /\ c.primary \in BOOLEAN
    BY <1>2 DEF Parts
  <2>2. d = [members |-> c.members \cup {n}, primary |-> c.primary]
    BY <2>1
  <2>3. QED
    BY <1>2, <2>1, <2>2
<1> HIDE DEF d
<1>4. Fits(old, new)
    BY <1>2, <1>3 DEF Fits, Parts
<1>5. Keeps(old, new)
    BY <1>1, <1>2, <1>3 DEF Keeps, Parts
<1>6. Inherits(old, new)
    BY <1>2, <1>3 DEF Inherits, Parts
<1>7. Decides(new)
    BY <1>1, <1>2, <1>3 DEF Decides, SettingsInv, MajorityKept
<1>8. Regroup(old, new)
    BY <1>1, ReplaceRegroups DEF d
<1>9. QED
    BY <1>2, <1>4, <1>5, <1>6, <1>7, <1>8 DEF LawfulChange, Lawful

\* A node on its own is Primary; it only comes to that where the settings are not sound.
LEMMA FormLawful == SettingsInv /\ Form => LawfulChange
<1> SUFFICES ASSUME SettingsInv, Form PROVE LawfulChange
    OBVIOUS
<1>1. PICK n \in Down :
          /\ peers[n] = {} \/ (n \in bootstrap /\ Answering(n) = {})
          /\ Replace({}, {[members |-> {n}, primary |-> TRUE]})
          /\ UNCHANGED stopped
    BY Zenon DEF Form
<1> DEFINE d == [members |-> {n}, primary |-> TRUE]
           old == {}
           new == {d}
<1>2. /\ Given /\ Parts /\ n \in Voters /\ ~Sound
      /\ \A c \in components : n \notin c.members
    BY <1>1 DEF SettingsInv, Down, Sound
<1>3. Fits(old, new)
    BY <1>2 DEF Fits
<1>4. Keeps(old, new)
    BY <1>1, <1>2 DEF Keeps, Parts
<1>5. Inherits(old, new)
    BY <1>2 DEF Inherits
<1>6. Decides(new)
    BY DEF Decides
<1>7. Regroup(old, new)
    BY <1>1, ReplaceRegroups
<1>8. QED
    BY <1>3, <1>4, <1>5, <1>6, <1>7 DEF LawfulChange, Lawful

LEMMA AdviceKept ==
    ASSUME UNCHANGED settings
    PROVE  Advice' = Advice
BY DEF settings, Advice, QuorumSettings, PeerList, AutoIncrement, Bootstrapping, PerNode,
       Finding, Majorities, WeightOf, Votes, Equal, Present, Uncontrolled, SharedOffset

LEMMA AuditKeepsSettings == SettingsInv /\ AuditSettings => SettingsInv'
<1> SUFFICES ASSUME SettingsInv, AuditSettings PROVE SettingsInv'
    OBVIOUS
<1>1. /\ UNCHANGED <<weight, ignoreSb, bootstrap, peers, ids, live, components, stopped>>
      /\ said' = Advice
    BY DEF AuditSettings, Advice, settings
<1>2. Told'
    BY <1>1, AdviceKept DEF settings, Told
<1>3. Given' /\ Parts' /\ OnePrimary'
    BY <1>1 DEF SettingsInv, Given, Parts, Down, OnePrimary, Sound
<1>4. MajorityKept'
    BY <1>1 DEF SettingsInv, MajorityKept, Decisive, WeightOf, Votes
<1>5. QED
    BY <1>2, <1>3, <1>4 DEF SettingsInv

LEMMA SettingsInvInit == SettingsInit => SettingsInv
<1> SUFFICES ASSUME SettingsInit PROVE SettingsInv
    OBVIOUS
<1>1. Given
  <2>1. CASE /\ weight \in Weightings
             /\ ignoreSb \in SUBSET Odd
             /\ bootstrap \in SUBSET Odd
             /\ \E lists \in [Odd -> PeerLists] :
                    peers = [n \in Voters |-> IF n \in Odd THEN lists[n] ELSE Voters]
             /\ ids = [n \in Voters |-> Managed]
    <3>1. weight \in Weights /\ ignoreSb \subseteq Voters /\ bootstrap \subseteq Voters
        BY <2>1, SettingsAssumption DEF Weights
    <3>2. peers \in [Voters -> SUBSET (Voters \cup {Gone})]
        BY <2>1, SettingsAssumption
    <3>3. Managed \in IdSetting
        BY DEF Managed, IdSetting
    <3>4. QED
        BY <2>1, <3>1, <3>2, <3>3 DEF Given, SettingsInit
  <2>2. CASE /\ weight = [n \in Voters |-> 1]
             /\ ignoreSb = {} /\ bootstrap = {}
             /\ peers = [n \in Voters |-> Voters]
             /\ ids \in [Voters -> IdSettings]
    <3>1. weight \in Weights
        BY <2>2 DEF Weights
    <3>2. ids \in [Voters -> IdSetting]
        BY <2>2, SettingsAssumption DEF IdSetting
    <3>3. QED
        BY <2>2, <3>1, <3>2 DEF Given, SettingsInit
  <2>3. QED
    BY <2>1, <2>2 DEF SettingsInit
<1>2. /\ said = {} /\ stopped = {} /\ Voters # {}
      /\ components = {[members |-> Voters, primary |-> TRUE]}
    BY DEF SettingsInit
<1>3. Parts
    BY <1>2 DEF Parts, Down
<1>4. Told /\ OnePrimary /\ MajorityKept
    BY <1>2 DEF Told, OnePrimary, MajorityKept
<1>5. QED
    BY <1>1, <1>3, <1>4 DEF SettingsInv

LEMMA SettingsInvStep == SettingsInv /\ [SettingsNext]_settingsVars => SettingsInv'
<1> SUFFICES ASSUME SettingsInv, [SettingsNext]_settingsVars PROVE SettingsInv'
    OBVIOUS
<1>1. CASE Split \/ Heal \/ Crash \/ Leave \/ Join \/ Form
  <2>1. LawfulChange
    BY <1>1, SplitLawful, HealLawful, CrashLawful, LeaveLawful, JoinLawful, FormLawful
  <2>2. QED
    BY <2>1, LawfulKeeps DEF LawfulChange
<1>2. CASE AuditSettings
    BY <1>2, AuditKeepsSettings
<1>3. CASE UNCHANGED settingsVars
  <2>1. UNCHANGED <<weight, ignoreSb, bootstrap, peers, ids, live, said, components, stopped>>
    BY <1>3 DEF settingsVars
  <2>2. Told'
    BY <2>1, AdviceKept DEF SettingsInv, Told, settings
  <2>3. Given' /\ Parts' /\ OnePrimary'
    BY <2>1 DEF SettingsInv, Given, Parts, Down, OnePrimary, Sound
  <2>4. MajorityKept'
    BY <2>1 DEF SettingsInv, MajorityKept, Decisive, WeightOf, Votes
  <2>5. QED
    BY <2>2, <2>3, <2>4 DEF SettingsInv
<1>4. QED
    BY <1>1, <1>2, <1>3 DEF SettingsNext

\* The advice and the cluster, in every behaviour.
THEOREM SettingsInvariant == SettingsSpec => []SettingsInv
BY SettingsInvInit, SettingsInvStep, PTL DEF SettingsSpec

-----------------------------------------------------------------------------
(***************************************************************************)
(* Settings: what the advice is worth.                                     *)
(***************************************************************************)
\* A finding names nodes that were read, and the one that warns of weights names those
\* with a majority.
LEMMA AdviceNames ==
    ASSUME NEW f \in Advice
    PROVE  /\ f.nodes \subseteq live
           /\ f.check = "weight" /\ f.status = "WARN" => f.nodes = Majorities
<1>1. \A check, st, nodes : \A g \in PerNode(check, st, nodes) :
          g.check = check /\ g.status = st /\ \E n \in nodes : g.nodes = {n}
    BY DEF PerNode, Finding
<1>2. CASE f \in QuorumSettings
  <2>1. \/ f \in PerNode("ignore-sb", "BAD", live \cap ignoreSb)
        \/ f \in PerNode("bootstrap", "WARN", live \cap bootstrap)
        \/ f \in PerNode("weight", "BAD", {n \in live : weight[n] = 0})
        \/ f = Finding("weight", "WARN", Majorities)
        \/ f = Finding("weight", "OK", live)
    BY <1>2 DEF QuorumSettings, Bootstrapping
  <2>2. Majorities \subseteq live
    BY DEF Majorities
  <2>3. CASE f = Finding("weight", "WARN", Majorities) \/ f = Finding("weight", "OK", live)
    BY <2>2, <2>3 DEF Finding
  <2>4. CASE f \in PerNode("ignore-sb", "BAD", live \cap ignoreSb)
    BY <1>1, <2>4
  <2>5. CASE f \in PerNode("bootstrap", "WARN", live \cap bootstrap)
    BY <1>1, <2>5
  <2>6. CASE f \in PerNode("weight", "BAD", {n \in live : weight[n] = 0})
    BY <1>1, <2>6
  <2>7. QED
    BY <2>1, <2>3, <2>4, <2>5, <2>6
<1>3. CASE f \in PeerList
  <2>1. \E st : \E nodes \in SUBSET live : f \in PerNode("peers", st, nodes)
    BY <1>3 DEF PeerList
  <2>2. QED
    BY <1>1, <2>1
<1>4. CASE f \in AutoIncrement
  <2>1. \E st : \E nodes \in SUBSET live : f = Finding("ids", st, nodes)
    BY <1>4 DEF AutoIncrement, Uncontrolled
  <2>2. QED
    BY <2>1 DEF Finding
<1>5. QED
    BY <1>2, <1>3, <1>4 DEF Advice

\* Where the checks of the quorum and of the peers are silent, the settings are sound.
LEMMA SilenceIsSound ==
    ASSUME SettingsInv, Silent
    PROVE  Sound
<1>1. live = Voters /\ said = Advice /\ QuorumSettings \subseteq said /\ PeerList \subseteq said
    BY DEF Silent, Audited, SettingsInv, Told, Advice
<1>2. \A f \in said : /\ ~(f.check = "ignore-sb" /\ f.status = "BAD")
                      /\ ~(f.check = "bootstrap" /\ f.status = "WARN")
                      /\ ~(f.check = "peers" /\ f.status = "BAD")
    BY DEF Silent, Complains
<1>3. ignoreSb = {}
  <2> SUFFICES ASSUME NEW n \in ignoreSb PROVE FALSE
    OBVIOUS
  <2>1. n \in live \cap ignoreSb
    BY <1>1 DEF SettingsInv, Given
  <2>2. Finding("ignore-sb", "BAD", {n}) \in said
    BY <1>1, <2>1 DEF QuorumSettings, PerNode
  <2>3. QED
    BY <1>2, <2>2 DEF Finding
<1>4. bootstrap = {}
  <2> SUFFICES ASSUME NEW n \in bootstrap PROVE FALSE
    OBVIOUS
  <2>1. n \in live \cap bootstrap
    BY <1>1 DEF SettingsInv, Given
  <2>2. Finding("bootstrap", "WARN", {n}) \in said
    BY <1>1, <2>1 DEF QuorumSettings, Bootstrapping, PerNode
  <2>3. QED
    BY <1>2, <2>2 DEF Finding
<1>5. \A n \in Voters : peers[n] # {}
  <2> SUFFICES ASSUME NEW n \in Voters, peers[n] = {} PROVE FALSE
    OBVIOUS
  <2>1. n \in live /\ Present(n) = {}
    BY <1>1 DEF Present
  <2>2. Finding("peers", "BAD", {n}) \in said
    BY <1>1, <2>1 DEF PeerList, PerNode
  <2>3. QED
    BY <1>2, <2>2 DEF Finding
<1>6. QED
    BY <1>3, <1>4, <1>5 DEF Sound

LEMMA AtMostOne ==
    ASSUME NEW S, \A x, y \in S : x = y
    PROVE  Cardinality(S) <= 1
<1>1. CASE S = {}
    BY <1>1, FS_EmptySet
<1>2. CASE S # {}
  <2>1. PICK x \in S : TRUE
    BY <1>2
  <2>2. S = {x}
    BY <2>1
  <2>3. Cardinality({x}) = 1
    BY FS_Singleton
  <2>4. QED
    BY <2>2, <2>3
<1>3. QED
    BY <1>1, <1>2

(***************************************************************************)
(* Two sequences of one step that begin at different places within it      *)
(* never meet.                                                             *)
(***************************************************************************)
LEMMA NeverBehind ==
    ASSUME NEW s \in Nat \ {0}, NEW a \in 1..s, NEW b \in 1..s,
           NEW j \in Nat, NEW k \in Nat, j < k
    PROVE  a + j * s < b + k * s
<1>1. PICK d \in Nat : k = j + 1 + d
  <2>1. k - j - 1 \in Nat /\ k = j + 1 + (k - j - 1)
    OBVIOUS
  <2>2. QED
    BY <2>1
<1>2. k * s = j * s + s + d * s /\ d * s \in Nat /\ j * s \in Nat
    BY <1>1
<1>3. QED
    BY <1>2

LEMMA NeverMeet ==
    ASSUME NEW s \in Nat \ {0}, NEW a \in 1..s, NEW b \in 1..s, a # b,
           NEW j \in Nat, NEW k \in Nat
    PROVE  a + j * s # b + k * s
<1>1. CASE j = k
  <2>1. j * s \in Nat
    OBVIOUS
  <2>2. QED
    BY <1>1, <2>1
<1>2. CASE j < k
  <2>1. a + j * s < b + k * s /\ j * s \in Nat /\ k * s \in Nat
    BY <1>2, NeverBehind
  <2>2. QED
    BY <2>1
<1>3. CASE k < j
  <2>1. b + k * s < a + j * s /\ j * s \in Nat /\ k * s \in Nat
    BY <1>3, NeverBehind
  <2>2. QED
    BY <2>1
<1>4. QED
    BY <1>1, <1>2, <1>3

\* The components are disjoint parts of the cluster, only nodes that were stopped are in
\* none, and no finding is about a node that was not read (Replace, the actions on the
\* components, and every check of the audit).
THEOREM SettingsTypeCorrect == SettingsSpec => []SettingsTypeOK
<1>1. SettingsInv => SettingsTypeOK
  <2> SUFFICES ASSUME SettingsInv PROVE SettingsTypeOK
    OBVIOUS
  <2>1. components \subseteq [members : (SUBSET Voters) \ {{}}, primary : BOOLEAN]
    BY DEF SettingsInv, Parts
  <2>2. \A f \in said : f.nodes \subseteq live
    BY AdviceNames DEF SettingsInv, Told
  <2>3. QED
    BY <2>1, <2>2 DEF SettingsTypeOK, SettingsInv, Parts
<1>2. QED
    BY <1>1, SettingsInvariant, PTL

\* Where quorum/ignore-sb, quorum/bootstrap and cluster/peers have nothing to say of a
\* cluster all of whose nodes were read, no sequence of splits, crashes, shutdowns and
\* restarts leaves two components that take writes, whatever the weights are.
THEOREM NoSecondWritable == SettingsSpec => []NoSplitBrain
<1>1. SettingsInv => NoSplitBrain
  <2> SUFFICES ASSUME SettingsInv, Silent PROVE Cardinality(Writable) <= 1
    BY DEF NoSplitBrain
  <2>1. Sound
    BY SilenceIsSound
  <2>2. \A c, d \in Writable : c = d
    BY <2>1 DEF Writable, Sound, SettingsInv, OnePrimary
  <2>3. QED
    BY <2>2, AtMostOne
<1>2. QED
    BY <1>1, SettingsInvariant, PTL

\* The node of which quorum/weight says that it alone holds a majority is in the Primary
\* component as long as it runs, whoever else is gone (quorumSettings).
THEOREM MajorityIsKept == SettingsSpec => []MajoritySurvives
<1>1. SettingsInv => MajoritySurvives
  <2> SUFFICES ASSUME SettingsInv, Audited,
                      NEW f \in said, f.check = "weight", f.status = "WARN",
                      NEW n \in f.nodes \ stopped,
                      NEW c \in components, n \in c.members
               PROVE  c.primary
    BY DEF MajoritySurvives
  <2>1. f \in Advice /\ live = Voters
    BY DEF SettingsInv, Told, Audited
  <2>2. n \in Majorities
    BY <2>1, AdviceNames
  <2>3. n \in Voters /\ weight[n] \in Nat /\ 2 * weight[n] = weight[n] * 2
    BY <2>1, <2>2 DEF Majorities, SettingsInv, Given, Weights
  <2>4. Decisive(n)
    BY <2>1, <2>2, <2>3 DEF Majorities, Decisive
  <2>5. QED
    BY <2>3, <2>4 DEF SettingsInv, MajorityKept
<1>2. QED
    BY <1>1, SettingsInvariant, PTL

\* Settings made by hand of which repl/auto-increment has nothing to say have different
\* offsets.
LEMMA SilentOffsets ==
    ASSUME SettingsInv, Audited, Uncontrolled = Voters, ~Complains("ids"),
           NEW n \in Voters, NEW m \in Voters, n # m
    PROVE  ids[n].offset # ids[m].offset
<1>1. CASE ~SharedOffset
    BY <1>1 DEF SharedOffset
<1>2. CASE SharedOffset
  <2>1. Finding("ids", "BAD", Uncontrolled) \in said
    BY <1>2 DEF AutoIncrement, Advice, SettingsInv, Told, Audited
  <2>2. QED
    BY <2>1 DEF Complains, Finding
<1>3. QED
    BY <1>1, <1>2

\* Where repl/auto-increment has nothing to say of settings made by hand, of one step and
\* with no offset beyond it, no two nodes ever give the same id to two rows, however many
\* they insert (autoIncrement).
Distinct ==
    /\ Audited
    /\ Uncontrolled = Voters
    /\ \A n, m \in Voters : ids[n].step = ids[m].step /\ ids[n].offset <= ids[n].step
    /\ ~Complains("ids")
    => \A n, m \in Voters : n # m =>
           \A j, k \in Nat : ids[n].offset + j * ids[n].step # ids[m].offset + k * ids[m].step

THEOREM IdsNeverMeet == SettingsSpec => []Distinct
<1>1. SettingsInv => Distinct
  <2> SUFFICES ASSUME SettingsInv, Audited, Uncontrolled = Voters, ~Complains("ids"),
                      \A n, m \in Voters : /\ ids[n].step = ids[m].step
                                           /\ ids[n].offset <= ids[n].step,
                      NEW n \in Voters, NEW m \in Voters, n # m,
                      NEW j \in Nat, NEW k \in Nat
               PROVE  ids[n].offset + j * ids[n].step # ids[m].offset + k * ids[m].step
    BY DEF Distinct
  <2> DEFINE s == ids[n].step
             a == ids[n].offset
             b == ids[m].offset
  <2>1. a # b
    BY SilentOffsets
  <2>2. s \in Nat \ {0} /\ a \in 1..s /\ b \in 1..s /\ ids[m].step = s
    BY DEF SettingsInv, Given, IdSetting
  <2> HIDE DEF s, a, b
  <2>3. a + j * s # b + k * s
    BY <2>1, <2>2, NeverMeet
  <2>4. QED
    BY <2>2, <2>3 DEF s, a, b
<1>2. QED
    BY <1>1, SettingsInvariant, PTL

\* The same of the first rows of each node.
THEOREM FirstIdsNeverMeet == SettingsSpec => []IdsAreDistinct
<1>1. Distinct => IdsAreDistinct
  <2> SUFFICES ASSUME Distinct, Audited, Uncontrolled = Voters, ~Complains("ids"),
                      \A n, m \in Voters : /\ ids[n].step = ids[m].step
                                           /\ ids[n].offset <= ids[n].step,
                      NEW n \in Voters, NEW m \in Voters, n # m,
                      NEW i \in IdsOf(n), i \in IdsOf(m)
               PROVE  FALSE
    BY DEF IdsAreDistinct
  <2>1. PICK j \in 0..10 : i = ids[n].offset + j * ids[n].step
    BY DEF IdsOf
  <2>2. PICK k \in 0..10 : i = ids[m].offset + k * ids[m].step
    BY DEF IdsOf
  <2>3. j \in Nat /\ k \in Nat
    OBVIOUS
  <2>4. QED
    BY <2>1, <2>2, <2>3 DEF Distinct
<1>2. QED
    BY <1>1, IdsNeverMeet, PTL

\* Where those checks are silent a component is only Primary after a step where one of its
\* members was in a Primary one before it: the data of the cluster is handed on.
THEOREM PrimaryHandedOn == SettingsSpec => PrimaryContinues
<1> DEFINE Continues == \A d \in components' : d.primary =>
               \E c \in components : c.primary /\ c.members \cap d.members # {}
<1>1. ASSUME SettingsInv, [SettingsNext]_settingsVars, Silent
      PROVE  Continues
  <2>1. CASE Split \/ Heal \/ Crash \/ Leave \/ Join \/ Form
    <3>1. PICK old \in SUBSET components : \E new : Lawful(old, new)
        BY <1>1, <2>1, SplitLawful, HealLawful, CrashLawful, LeaveLawful, JoinLawful, FormLawful
        DEF LawfulChange
    <3>2. PICK new : Lawful(old, new)
        BY <3>1
    <3>3. SUFFICES ASSUME NEW d \in components', d.primary
                   PROVE  \E c \in components : c.primary /\ c.members \cap d.members # {}
        OBVIOUS
    <3>4. (d \in components \/ d \in new) /\ d.members # {}
        BY <3>2 DEF Lawful, Regroup
    <3>5. CASE d \in components
        BY <3>3, <3>4, <3>5
    <3>6. CASE d \in new
        BY <1>1, <3>1, <3>2, <3>3, <3>4, <3>6, SilenceIsSound DEF Lawful, Inherits
    <3>7. QED
        BY <3>4, <3>5, <3>6
  <2>2. CASE AuditSettings \/ UNCHANGED settingsVars
    <3>1. components' = components
        BY <2>2 DEF AuditSettings, settingsVars
    <3>2. QED
        BY <1>1, <3>1 DEF SettingsInv, Parts
  <2>3. QED
    BY <1>1, <2>1, <2>2 DEF SettingsNext
<1>2. SettingsInv /\ [SettingsNext]_settingsVars => [Silent => Continues]_settingsVars
    BY <1>1
<1>3. QED
    BY <1>2, SettingsInvariant, PTL DEF SettingsSpec, PrimaryContinues

-----------------------------------------------------------------------------
(***************************************************************************)
(* Settings: whom the cluster can lose.                                    *)
(***************************************************************************)
\* A crash takes one node out of one component.
LEMMA CrashTakes ==
    ASSUME SettingsInv, Crash
    PROVE  \E c \in components : \E n \in c.members :
               \A d : d \in components' <=>
                   /\ (d \in components /\ d # c) \/ d = Part(c, c.members \ {n})
                   /\ d.members # {}
<1>1. PICK c \in components :
          \E n \in c.members :
              Replace({c}, {Part(c, c.members \ {n})}) /\ stopped' = stopped \cup {n}
    BY Zenon DEF Crash
<1>2. PICK n \in c.members :
              Replace({c}, {Part(c, c.members \ {n})}) /\ stopped' = stopped \cup {n}
    BY <1>1, Zenon
<1>3. components' = {d \in (components \ {c}) \cup {Part(c, c.members \ {n})} : d.members # {}}
    BY <1>2 DEF Replace
<1>4. QED
    BY <1>3

\* What is left without a node that has more than half of all votes has less than half.
LEMMA WithoutDecisive ==
    ASSUME weight \in Weights, NEW m \in SUBSET Voters, NEW n \in m, Decisive(n)
    PROVE  ~(2 * WeightOf(m \ {n}) > WeightOf(m))
<1>1. /\ n \in Voters /\ m \ {n} \in SUBSET Voters /\ {n} \in SUBSET Voters
      /\ Voters \ {n} \in SUBSET Voters /\ m \ {n} \in SUBSET (Voters \ {n})
      /\ (m \ {n}) \cup {n} = m /\ (m \ {n}) \cap {n} = {}
      /\ (Voters \ {n}) \cup {n} = Voters /\ (Voters \ {n}) \cap {n} = {}
    OBVIOUS
<1>2. WeightOf(m) = WeightOf(m \ {n}) + WeightOf({n})
    BY <1>1, WeightsAdd
<1>3. WeightOf(Voters) = WeightOf(Voters \ {n}) + WeightOf({n})
    BY <1>1, WeightsAdd
<1>4. WeightOf(m \ {n}) <= WeightOf(Voters \ {n})
    BY <1>1, WeightGrows
<1>5. WeightOf({n}) = weight[n]
    BY <1>1, OwnWeight
<1>6. /\ WeightOf(m \ {n}) \in Nat /\ WeightOf(Voters \ {n}) \in Nat /\ weight[n] \in Nat
    BY <1>1, VotesFinite DEF Weights
<1>7. QED
    BY <1>2, <1>3, <1>4, <1>5, <1>6 DEF Decisive

\* Nodes of one weight have as many votes as there are nodes, times the weight.
LEMMA EqualWeights ==
    ASSUME NEW w \in Nat, NEW s \in SUBSET Voters, \A n \in s : weight[n] = w
    PROVE  WeightOf(s) = Cardinality(s) * w
<1>1. IsFiniteSet(s)
    BY SettingsAssumption, FS_Subset
<1>2. IsFiniteSet(1..w) /\ Cardinality(1..w) = w
  <2>1. IsFiniteSet(1..w) /\ Cardinality(1..w) = IF 1 > w THEN 0 ELSE w - 1 + 1
    BY FS_Interval
  <2>2. QED
    BY <2>1
<1>3. Votes(s) = s \X (1..w)
    BY DEF Votes
<1>4. Cardinality(s \X (1..w)) = Cardinality(s) * Cardinality(1..w)
    BY <1>1, <1>2, FS_Product
<1>5. QED
    BY <1>2, <1>3, <1>4 DEF WeightOf

\* Of more than two nodes of one weight all but one have more than half of the votes.
LEMMA AllButOne ==
    ASSUME weight \in Weights, NEW w \in Nat \ {0}, \A n \in Voters : weight[n] = w,
           NEW m \in SUBSET Voters, Cardinality(m) > 2, NEW n \in m
    PROVE  /\ 2 * WeightOf(m \ {n}) > WeightOf(m)
           /\ Cardinality(m \ {n}) = Cardinality(m) - 1
           /\ m \ {n} # {}
<1>1. IsFiniteSet(m) /\ m \ {n} \in SUBSET Voters
    BY SettingsAssumption, FS_Subset
<1>2. Cardinality(m) \in Nat
    BY <1>1, FS_CardinalityType
<1>3. Cardinality(m \ {n}) = Cardinality(m) - 1
    BY <1>1, FS_RemoveElement
<1>4. m \ {n} # {}
    BY <1>2, <1>3, FS_EmptySet
<1>5. PICK k \in Nat : Cardinality(m) = k + 3
  <2>1. Cardinality(m) - 3 \in Nat /\ Cardinality(m) = (Cardinality(m) - 3) + 3
    BY <1>2
  <2>2. QED
    BY <2>1
<1>6. WeightOf(m) = (k + 3) * w
    BY <1>5, EqualWeights
<1>7. WeightOf(m \ {n}) = (k + 2) * w
  <2>1. Cardinality(m \ {n}) = k + 2
    BY <1>3, <1>5
  <2>2. \A v \in m \ {n} : weight[v] = w
    OBVIOUS
  <2>3. QED
    BY <1>1, <2>1, <2>2, EqualWeights
<1>8. (k + 3) * w = k * w + 3 * w /\ (k + 2) * w = k * w + 2 * w /\ k * w \in Nat
    OBVIOUS
<1>9. QED
    BY <1>3, <1>4, <1>6, <1>7, <1>8

\* quorum/weight is OK of equal weights above 0 only.
LEMMA EqualAdvice ==
    ASSUME SettingsInv, Audited, NEW f \in said, f.check = "weight", f.status = "OK"
    PROVE  \E w \in Nat \ {0} : \A n \in Voters : weight[n] = w
<1>1. live = Voters /\ f \in Advice
    BY DEF SettingsInv, Told, Audited
<1>2. \A check, st, nodes : \A g \in PerNode(check, st, nodes) : g.check = check /\ g.status = st
    BY DEF PerNode, Finding
<1>3. f \notin PeerList
    BY <1>2 DEF PeerList
<1>4. f \notin AutoIncrement
    BY DEF AutoIncrement, Finding
<1>5. f \in QuorumSettings
    BY <1>1, <1>3, <1>4 DEF Advice
<1>6. /\ f \notin PerNode("ignore-sb", "BAD", live \cap ignoreSb)
      /\ f \notin Bootstrapping
      /\ f \notin PerNode("weight", "BAD", {n \in live : weight[n] = 0})
      /\ f # Finding("weight", "WARN", Majorities)
    BY <1>2 DEF Bootstrapping, Finding
<1>7. Equal /\ {m \in live : weight[m] > 0} # {}
    BY <1>5, <1>6 DEF QuorumSettings
<1>8. PICK m \in Voters : weight[m] > 0
    BY <1>1, <1>7
<1>9. weight[m] \in Nat \ {0} /\ \A n \in Voters : weight[n] = weight[m]
    BY <1>1, <1>7, <1>8 DEF Equal, SettingsInv, Given, Weights
<1>10. QED
    BY <1>9

\* The node that alone holds a majority takes the cluster with it: where it dies nothing of
\* its component is Primary any more (the hint of quorum/weight in quorumSettings).
THEOREM MajorityTakesAll == SettingsSpec => MajorityIsFatal
<1> DEFINE Fatal == Crash /\ Audited => \A f \in said : f.check = "weight" /\ f.status = "WARN" =>
               \A n \in f.nodes \cap (Down' \ Down) : \A c \in components, d \in components' :
                   n \in c.members /\ d.members \subseteq c.members => ~d.primary
<1>1. SettingsInv => Fatal
  <2> SUFFICES ASSUME SettingsInv, Crash, Audited,
                      NEW f \in said, f.check = "weight", f.status = "WARN",
                      NEW n \in f.nodes, n \in Down', n \notin Down,
                      NEW c \in components, NEW d \in components',
                      n \in c.members, d.members \subseteq c.members
               PROVE  ~d.primary
    OBVIOUS
  <2>1. PICK b \in components : \E v \in b.members :
               \A e : e \in components' <=>
                   /\ (e \in components /\ e # b) \/ e = Part(b, b.members \ {v})
                   /\ e.members # {}
    BY CrashTakes
  <2>2. PICK v \in b.members :
               \A e : e \in components' <=>
                   /\ (e \in components /\ e # b) \/ e = Part(b, b.members \ {v})
                   /\ e.members # {}
    BY <2>1
  <2>3. Given /\ Parts
    BY DEF SettingsInv
  <2>4. /\ Part(b, b.members \ {v}).members = b.members \ {v}
        /\ Part(b, b.members \ {v}).primary <=>
               b.primary /\ 2 * WeightOf(b.members \ {v}) > WeightOf(b.members)
    <3>1. b.members \ {v} \in SUBSET b.members
        OBVIOUS
    <3>2. QED
        BY <2>3, <3>1, PartFits
  <2>5. \A e \in components' : n \notin e.members
    BY DEF Down
  <2>6. c = b
    BY <2>2, <2>3, <2>5 DEF Parts
  <2>7. n = v
    BY <2>2, <2>4, <2>5, <2>6
  <2>8. d = Part(b, b.members \ {v})
    BY <2>2, <2>3, <2>6 DEF Parts
  <2>9. Decisive(n)
    <3>1. f \in Advice /\ live = Voters
        BY DEF SettingsInv, Told, Audited
    <3>2. n \in Majorities
        BY <3>1, AdviceNames
    <3>3. n \in Voters /\ weight[n] \in Nat /\ 2 * weight[n] = weight[n] * 2
        BY <3>1, <3>2 DEF Majorities, SettingsInv, Given, Weights
    <3>4. QED
        BY <3>1, <3>2, <3>3 DEF Majorities, Decisive
  <2>10. ~(2 * WeightOf(b.members \ {v}) > WeightOf(b.members))
    BY <2>3, <2>6, <2>7, <2>9, WithoutDecisive DEF Given, Parts
  <2>11. QED
    BY <2>4, <2>8, <2>10
<1>2. SettingsInv /\ [SettingsNext]_settingsVars => [Fatal]_settingsVars
    BY <1>1
<1>3. QED
    BY <1>2, SettingsInvariant, PTL DEF SettingsSpec, MajorityIsFatal

\* Where quorum/weight is OK of a cluster, any one node of a Primary component of more than
\* two may die and the rest goes on (quorumSettings).
THEOREM EqualLosesOne == SettingsSpec => EqualOutlivesOne
<1> DEFINE Outlives ==
               Crash /\ Audited /\ (\E f \in said : f.check = "weight" /\ f.status = "OK") =>
                   \A c \in components : c.primary /\ Cardinality(c.members) > 2 =>
                       \E d \in components' :
                           /\ d.primary /\ d.members \subseteq c.members
                           /\ Cardinality(d.members) >= Cardinality(c.members) - 1
<1>1. SettingsInv => Outlives
  <2> SUFFICES ASSUME SettingsInv, Crash, Audited,
                      NEW f \in said, f.check = "weight", f.status = "OK",
                      NEW c \in components, c.primary, Cardinality(c.members) > 2
               PROVE  \E d \in components' :
                          /\ d.primary /\ d.members \subseteq c.members
                          /\ Cardinality(d.members) >= Cardinality(c.members) - 1
    OBVIOUS
  <2>1. PICK b \in components : \E v \in b.members :
               \A e : e \in components' <=>
                   /\ (e \in components /\ e # b) \/ e = Part(b, b.members \ {v})
                   /\ e.members # {}
    BY CrashTakes
  <2>2. PICK v \in b.members :
               \A e : e \in components' <=>
                   /\ (e \in components /\ e # b) \/ e = Part(b, b.members \ {v})
                   /\ e.members # {}
    BY <2>1
  <2>3. Given /\ Parts /\ c.members \in SUBSET Voters /\ c.members # {}
        /\ Cardinality(c.members) \in Nat
    <3>1. Given /\ Parts /\ c.members \in SUBSET Voters /\ c.members # {}
        BY DEF SettingsInv, Parts
    <3>2. IsFiniteSet(c.members)
        BY <3>1, SettingsAssumption, FS_Subset
    <3>3. QED
        BY <3>1, <3>2, FS_CardinalityType
  <2>4. CASE c # b
    <3>1. c \in components'
        BY <2>2, <2>3, <2>4
    <3>2. QED
        BY <2>3, <3>1
  <2>5. CASE c = b
    <3> DEFINE r == c.members \ {v}
    <3>1. r \in SUBSET c.members
        OBVIOUS
    <3>2. PICK w \in Nat \ {0} : \A n \in Voters : weight[n] = w
        BY EqualAdvice
    <3>3. /\ 2 * WeightOf(r) > WeightOf(c.members)
          /\ Cardinality(r) = Cardinality(c.members) - 1
          /\ r # {}
        BY <2>2, <2>3, <2>5, <3>2, AllButOne DEF Given
    <3>4. Part(c, r).members = r /\ Part(c, r).primary
        BY <2>3, <3>1, <3>3, PartFits
    <3>5. Part(c, r) \in components'
        BY <2>2, <2>5, <3>3, <3>4
    <3> HIDE DEF r
    <3>6. Cardinality(r) >= Cardinality(c.members) - 1
        BY <2>3, <3>3
    <3>7. QED
        BY <3>1, <3>4, <3>5, <3>6
  <2>6. QED
    BY <2>4, <2>5
<1>2. SettingsInv /\ [SettingsNext]_settingsVars => [Outlives]_settingsVars
    BY <1>1
<1>3. QED
    BY <1>2, SettingsInvariant, PTL DEF SettingsSpec, EqualOutlivesOne
=============================================================================
