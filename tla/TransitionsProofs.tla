-------------------------- MODULE TransitionsProofs --------------------------
(***************************************************************************)
(* What a run and a watch say has moved, for any clusters, checks, targets *)
(* and healths, any number of passes, and a crash at any step.             *)
(***************************************************************************)
EXTENDS Transitions, SequenceTheorems, TLAPS

Words == STRING

LEMMA Named ==
    /\ Keys \subseteq Words
    /\ \A c \in Clusters : PathOf[c] \in Seq(Words) /\ PathOf[c] # <<>>
BY KeysAssumption, PathsAssumption DEF Words

-----------------------------------------------------------------------------
(***************************************************************************)
(* The keys.                                                               *)
(***************************************************************************)
LEMMA FullKeyIs ==
    ASSUME NEW c \in Clusters, NEW k \in Keys
    PROVE  /\ FullKey(c, k) = PathOf[c] \o <<k>>
           /\ FullKey(c, k) = Cache!FileKey(PathOf[c], <<k>>)
           /\ FullKey(c, k) \in Seq(Words)
           /\ Len(FullKey(c, k)) = Len(PathOf[c]) + 1
           /\ FullKey(c, k)[Len(FullKey(c, k))] = k
           /\ SubSeq(FullKey(c, k), Len(PathOf[c]) + 1, Len(FullKey(c, k))) = <<k>>
           /\ \A i \in 1..Len(PathOf[c]) : FullKey(c, k)[i] = PathOf[c][i]
           /\ Len(PathOf[c]) \in Nat \ {0}
<1> DEFINE p == PathOf[c]
           t == <<k>>
<1>1. p \in Seq(Words) /\ p # <<>> /\ t \in Seq(Words) /\ Len(t) = 1 /\ t[1] = k
    BY Named
<1>2. FullKey(c, k) = p \o t /\ FullKey(c, k) = Cache!FileKey(p, t)
    BY DEF FullKey, Cache!FileKey
<1> HIDE DEF p, t
<1> DEFINE q == p \o t
<1>3. /\ q \in Seq(Words) /\ Len(q) = Len(p) + Len(t)
      /\ \A i \in 1..Len(p) + Len(t) : q[i] = IF i <= Len(p) THEN p[i] ELSE t[i - Len(p)]
    BY <1>1, ConcatProperties
<1>4. Len(p) \in Nat /\ Len(p) # 0
    BY <1>1, EmptySeq
<1>5. SubSeq(q, Len(p) + 1, Len(p) + 1) = SubSeq(t, 1, 1)
  <2>1. /\ Len(p) + 1 \in Len(p)+1 .. Len(p)+Len(t)
        /\ (Len(p) + 1) - Len(p) = 1
    BY <1>1, <1>4
  <2>2. SubSeq(q, Len(p) + 1, Len(p) + 1) = SubSeq(t, (Len(p) + 1) - Len(p), (Len(p) + 1) - Len(p))
    BY <1>1, <2>1, SubSeqOfConcat2
  <2>3. QED
    BY <2>1, <2>2
<1>6. SubSeq(t, 1, 1) = t
    BY <1>1, SubSeqFull
<1> HIDE DEF q
<1>7. q[Len(q)] = k /\ \A i \in 1..Len(p) : q[i] = p[i]
    BY <1>1, <1>3, <1>4
<1>8. QED
    BY <1>1, <1>2, <1>3, <1>4, <1>5, <1>6, <1>7 DEF q, p, t

\* Under its prefix a cluster finds its own keys only.
LEMMA PrefixIsOwn ==
    ASSUME NEW c \in Clusters, NEW d \in Clusters, NEW k \in Keys,
           Len(FullKey(d, k)) > Len(PathOf[c]),
           SubSeq(FullKey(d, k), 1, Len(PathOf[c])) = PathOf[c]
    PROVE  c = d
<1> DEFINE p == PathOf[c]
           q == PathOf[d]
           t == <<k>>
<1>1. /\ p \in Seq(Words) /\ q \in Seq(Words) /\ t \in Seq(Words)
      /\ FullKey(d, k) = q \o t /\ Len(FullKey(d, k)) = Len(q) + 1
      /\ Len(p) \in Nat \ {0} /\ Len(q) \in Nat \ {0}
  <2>1. p \in Seq(Words) /\ q \in Seq(Words) /\ t \in Seq(Words)
    BY Named
  <2>2. QED
    BY <2>1, FullKeyIs
<1> HIDE DEF p, q, t
<1>2. Len(p) <= Len(q)
    BY <1>1 DEF p
<1>3. 1 \in 1..Len(q) /\ Len(p) \in 1..Len(q)
    BY <1>1, <1>2
<1>4. SubSeq(q \o t, 1, Len(p)) = SubSeq(q, 1, Len(p))
    BY <1>1, <1>3, SubSeqOfConcat1
<1>5. SubSeq(q, 1, Len(p)) = p
    BY <1>1, <1>4 DEF p
<1>6. QED
    BY <1>2, <1>5, PrefixAssumption DEF p, q

LEMMA OwnPrefix ==
    ASSUME NEW c \in Clusters, NEW k \in Keys
    PROVE  /\ Len(FullKey(c, k)) > Len(PathOf[c])
           /\ SubSeq(FullKey(c, k), 1, Len(PathOf[c])) = PathOf[c]
<1> DEFINE p == PathOf[c]
           t == <<k>>
<1>1. /\ p \in Seq(Words) /\ t \in Seq(Words) /\ FullKey(c, k) = p \o t
      /\ Len(FullKey(c, k)) = Len(p) + 1 /\ Len(p) \in Nat \ {0}
  <2>1. p \in Seq(Words) /\ t \in Seq(Words)
    BY Named
  <2>2. QED
    BY <2>1, FullKeyIs
<1> HIDE DEF p, t
<1>2. 1 \in 1..Len(p) /\ Len(p) \in 1..Len(p)
    BY <1>1
<1>3. SubSeq(p \o t, 1, Len(p)) = SubSeq(p, 1, Len(p))
    BY <1>1, <1>2, SubSeqOfConcat1
<1>4. SubSeq(p, 1, Len(p)) = p
    BY <1>1, SubSeqFull
<1>5. QED
    BY <1>1, <1>3, <1>4 DEF p

\* No two findings are carried under one key.
LEMMA KeysDiffer ==
    ASSUME NEW c \in Clusters, NEW d \in Clusters, NEW k \in Keys, NEW m \in Keys,
           FullKey(c, k) = FullKey(d, m)
    PROVE  c = d /\ k = m
<1>1. k = m
    BY FullKeyIs
<1>2. c = d
    BY OwnPrefix, PrefixIsOwn
<1>3. QED
    BY <1>1, <1>2

LEMMA OnePlace == \A k, m : <<k>> = <<m>> => k = m
OBVIOUS

-----------------------------------------------------------------------------
(***************************************************************************)
(* Statuses and reports.                                                   *)
(***************************************************************************)
Reports == {r \in [Keys -> Seq(Statuses4)] : IsReport(r)}
Final(s) == s[Len(s)]

LEMMA SeverityIs ==
    /\ Severity("OK") = 0 /\ Severity("WARN") = 1 /\ Severity("BAD") = 2 /\ Severity("ERROR") = 3
    /\ \A st \in Statuses4 : Severity(st) \in 0..3
BY DEF Severity, Statuses4

LEMMA SilenceIsReport == Silence \in Reports /\ Quiet \in [Clusters -> Reports]
<1>1. <<>> \in Seq(Statuses4)
    OBVIOUS
<1>2. Silence \in Reports
    BY <1>1 DEF Silence, Reports, IsReport
<1>3. QED
    BY <1>2 DEF Quiet

\* What a report says under a key that it has findings under.
LEMMA Said ==
    ASSUME NEW s \in Seq(Statuses4), s # <<>>
    PROVE  /\ Len(s) \in Nat \ {0} /\ DOMAIN s = 1..Len(s) /\ Final(s) \in Statuses4
           /\ Range(s) \subseteq Statuses4 /\ Final(s) \in Range(s)
           /\ {s[i] : i \in DOMAIN s} = Range(s)
<1>1. Len(s) \in Nat /\ Len(s) # 0 /\ DOMAIN s = 1..Len(s)
    BY EmptySeq
<1>2. Len(s) \in DOMAIN s
    BY <1>1
<1>3. \A i \in DOMAIN s : s[i] \in Statuses4
    OBVIOUS
<1>4. QED
    BY <1>1, <1>2, <1>3 DEF Final, Range

LEMMA LeastIs ==
    ASSUME NEW s \in Seq(Statuses4), s # <<>>
    PROVE  Least(s) \in Range(s)
<1> DEFINE S == {s[i] : i \in DOMAIN s}
<1>1. S \subseteq Statuses4 /\ Final(s) \in S /\ S = Range(s)
    BY Said
<1>2. \A st \in S : (\A i \in DOMAIN s : Severity(st) <= Severity(s[i])) <=>
                        (\A t \in S : Severity(st) <= Severity(t))
    OBVIOUS
<1> HIDE DEF S
<1>3. \E st \in S : \A t \in S : Severity(st) <= Severity(t)
  <2>1. \A t \in S : t \in {"OK", "WARN", "BAD", "ERROR"}
    BY <1>1 DEF Statuses4
  <2>2. CASE "OK" \in S
    BY <2>1, <2>2, SeverityIs
  <2>3. CASE "OK" \notin S /\ "WARN" \in S
    BY <2>1, <2>3, SeverityIs
  <2>4. CASE "OK" \notin S /\ "WARN" \notin S /\ "BAD" \in S
    BY <2>1, <2>4, SeverityIs
  <2>5. CASE "OK" \notin S /\ "WARN" \notin S /\ "BAD" \notin S
    BY <1>1, <2>1, <2>5, SeverityIs
  <2>6. QED
    BY <2>2, <2>3, <2>4, <2>5
<1>4. \E st \in S : \A i \in DOMAIN s : Severity(st) <= Severity(s[i])
    BY <1>2, <1>3
<1>5. Least(s) = CHOOSE st \in S : \A i \in DOMAIN s : Severity(st) <= Severity(s[i])
    BY DEF Least, S
<1>6. QED
    BY <1>1, <1>4, <1>5

\* The map that a watch carries has one status for each key that has findings.
LEMMA StatusesIs ==
    ASSUME NEW reps \in [Clusters -> Reports]
    PROVE  /\ \A key \in DOMAIN Statuses(reps) :
                 \E c \in Clusters, k \in Keys : key = FullKey(c, k) /\ reps[c][k] # <<>>
           /\ \A c \in Clusters, k \in Keys :
                 /\ FullKey(c, k) \in DOMAIN Statuses(reps) <=> reps[c][k] # <<>>
                 /\ reps[c][k] # <<>> => Statuses(reps)[FullKey(c, k)] = Least(reps[c][k])
<1> DEFINE here == {p \in Clusters \X Keys : reps[p[1]][p[2]] # <<>>}
           D == {FullKey(p[1], p[2]) : p \in here}
           Whose(key) == CHOOSE p \in here : key = FullKey(p[1], p[2])
<1>1. Statuses(reps) = [key \in D |-> Least(reps[Whose(key)[1]][Whose(key)[2]])]
    BY DEF Statuses
<1>2. DOMAIN Statuses(reps) = D
    BY <1>1
<1>3. ASSUME NEW c \in Clusters, NEW k \in Keys
      PROVE  /\ FullKey(c, k) \in D <=> reps[c][k] # <<>>
             /\ reps[c][k] # <<>> => Statuses(reps)[FullKey(c, k)] = Least(reps[c][k])
  <2>1. reps[c][k] # <<>> => <<c, k>> \in here /\ FullKey(c, k) \in D
    OBVIOUS
  <2>2. \A p \in here : /\ p[1] \in Clusters /\ p[2] \in Keys /\ reps[p[1]][p[2]] # <<>>
                        /\ FullKey(c, k) = FullKey(p[1], p[2]) => c = p[1] /\ k = p[2]
    BY KeysDiffer
  <2>3. ASSUME reps[c][k] # <<>>
        PROVE  Statuses(reps)[FullKey(c, k)] = Least(reps[c][k])
    <3>1. \E p \in here : FullKey(c, k) = FullKey(p[1], p[2])
      BY <2>1, <2>3
    <3>2. Whose(FullKey(c, k)) \in here
          /\ FullKey(c, k) = FullKey(Whose(FullKey(c, k))[1], Whose(FullKey(c, k))[2])
      BY <3>1
    <3>3. Whose(FullKey(c, k))[1] = c /\ Whose(FullKey(c, k))[2] = k
      BY <2>2, <3>2
    <3>4. QED
      BY <1>1, <2>1, <2>3, <3>3
  <2>4. QED
    BY <2>1, <2>2, <2>3
<1>4. ASSUME NEW key \in D
      PROVE  \E c \in Clusters, k \in Keys : key = FullKey(c, k) /\ reps[c][k] # <<>>
  <2>1. PICK p \in here : key = FullKey(p[1], p[2])
    OBVIOUS
  <2>2. p[1] \in Clusters /\ p[2] \in Keys /\ reps[p[1]][p[2]] # <<>>
    OBVIOUS
  <2>3. QED
    BY <2>1, <2>2
<1>5. QED
    BY <1>2, <1>3, <1>4

LEMMA StatusesIsMap ==
    ASSUME NEW reps \in [Clusters -> Reports]
    PROVE  IsMap(Statuses(reps))
<1> SUFFICES ASSUME NEW key \in DOMAIN Statuses(reps)
             PROVE  key \in FullKeys /\ Statuses(reps)[key] \in Statuses4
    BY DEF IsMap
<1>1. PICK c \in Clusters, k \in Keys : key = FullKey(c, k) /\ reps[c][k] # <<>>
    BY StatusesIs
<1>2. reps[c][k] \in Seq(Statuses4)
    BY DEF Reports
<1>3. Least(reps[c][k]) \in Statuses4
    BY <1>1, <1>2, LeastIs, Said
<1>4. key \in FullKeys
    BY <1>1 DEF FullKeys
<1>5. Statuses(reps)[key] = Least(reps[c][k])
    BY <1>1, StatusesIs
<1>6. QED
    BY <1>3, <1>4, <1>5

LEMMA LinesAre ==
    ASSUME NEW reps \in [Clusters -> Reports], NEW line
    PROVE  line \in Lines(reps) <=>
               \E c \in Clusters, k \in Keys : \E st \in Range(reps[c][k]) :
                   line = [key |-> FullKey(c, k), status |-> st]
<1> DEFINE At(p) == {[key |-> FullKey(p[1], p[2]), status |-> st] : st \in Range(reps[p[1]][p[2]])}
<1>1. line \in Lines(reps) <=> \E p \in Clusters \X Keys : line \in At(p)
    BY DEF Lines
<1>2. ASSUME NEW p \in Clusters \X Keys, line \in At(p)
      PROVE  \E c \in Clusters, k \in Keys : \E st \in Range(reps[c][k]) :
                 line = [key |-> FullKey(c, k), status |-> st]
  <2>1. p[1] \in Clusters /\ p[2] \in Keys
    OBVIOUS
  <2>2. QED
    BY <1>2, <2>1
<1>3. ASSUME NEW c \in Clusters, NEW k \in Keys, NEW st \in Range(reps[c][k]),
             line = [key |-> FullKey(c, k), status |-> st]
      PROVE  \E p \in Clusters \X Keys : line \in At(p)
  <2>1. <<c, k>> \in Clusters \X Keys /\ <<c, k>>[1] = c /\ <<c, k>>[2] = k
    OBVIOUS
  <2>2. line \in At(<<c, k>>)
    BY <1>3, <2>1
  <2>3. QED
    BY <2>1, <2>2
<1>4. QED
    BY <1>1, <1>2, <1>3

-----------------------------------------------------------------------------
(***************************************************************************)
(* The state and the report it was made of.                                *)
(***************************************************************************)
Holds(map, reps) ==
    /\ \A key \in DOMAIN map :
          \E c \in Clusters, k \in AuditKeys : key = FullKey(c, k) /\ reps[c][k] # <<>>
    /\ \A c \in Clusters, k \in AuditKeys :
          reps[c][k] # <<>> => /\ FullKey(c, k) \in DOMAIN map
                               /\ map[FullKey(c, k)] = Final(reps[c][k])

LEMMA NothingHolds == Holds(Cache!EmptyMap, Quiet) /\ Cache!EmptyMap = [x \in {} |-> x]
BY DEF Holds, Cache!EmptyMap, Quiet, Silence, Keys

LEMMA HoldsIsMap ==
    ASSUME NEW reps \in [Clusters -> Reports], NEW map, Holds(map, reps)
    PROVE  IsMap(map)
<1> SUFFICES ASSUME NEW key \in DOMAIN map PROVE key \in FullKeys /\ map[key] \in Statuses4
    BY DEF IsMap
<1>1. PICK c \in Clusters, k \in AuditKeys : key = FullKey(c, k) /\ reps[c][k] # <<>>
    BY DEF Holds
<1>2. k \in Keys
    BY DEF Keys
<1>3. reps[c][k] \in Seq(Statuses4)
    BY <1>2 DEF Reports
<1>4. key \in FullKeys
    BY <1>1, <1>2 DEF FullKeys
<1>5. map[key] = Final(reps[c][k])
    BY <1>1 DEF Holds
<1>6. QED
    BY <1>1, <1>3, <1>4, <1>5, Said

LEMMA CarryIs ==
    ASSUME NEW r \in Reports
    PROVE  /\ \A path \in DOMAIN Carry(r) : \E k \in AuditKeys : path = <<k>> /\ r[k] # <<>>
           /\ \A k \in AuditKeys : /\ <<k>> \in DOMAIN Carry(r) <=> r[k] # <<>>
                                   /\ r[k] # <<>> => Carry(r)[<<k>>] = Final(r[k])
<1> DEFINE kept == {k \in AuditKeys : r[k] # <<>>}
           D == {<<k>> : k \in kept}
<1>1. Carry(r) = [path \in D |-> r[path[1]][Len(r[path[1]])]]
    BY DEF Carry
<1>2. \A k \in AuditKeys : <<k>> \in D <=> r[k] # <<>>
    BY OnePlace
<1>3. \A k \in AuditKeys : <<k>>[1] = k
    OBVIOUS
<1>4. \A path \in D : \E k \in AuditKeys : path = <<k>> /\ r[k] # <<>>
    OBVIOUS
<1> HIDE DEF D
<1>5. QED
    BY <1>1, <1>2, <1>3, <1>4 DEF Final

\* Folding a cluster in adds what its report carries.
LEMMA MergeHolds ==
    ASSUME NEW reps \in [Clusters -> Reports], NEW map, Holds(map, reps),
           NEW c \in Clusters, NEW r \in Reports, reps[c] = Silence
    PROVE  Holds(Cache!Merge(map, PathOf[c], Carry(r)), [reps EXCEPT ![c] = r])
<1> DEFINE from == Carry(r)
           new == Cache!Merge(map, PathOf[c], from)
           now == [reps EXCEPT ![c] = r]
           Mine(key) == \E n \in DOMAIN from : key = Cache!FileKey(PathOf[c], n)
           Name(key) == CHOOSE n \in DOMAIN from : key = Cache!FileKey(PathOf[c], n)
<1>1. /\ DOMAIN new = DOMAIN map \cup {Cache!FileKey(PathOf[c], n) : n \in DOMAIN from}
      /\ \A key \in DOMAIN new : new[key] = IF Mine(key) THEN from[Name(key)] ELSE map[key]
    BY DEF Cache!Merge
<1> HIDE DEF new
<1>2. AuditKeys \subseteq Keys
    BY DEF Keys
<1>3. now[c] = r /\ \A d \in Clusters : d # c => now[d] = reps[d]
    OBVIOUS
<1>4. \A k \in AuditKeys : reps[c][k] = <<>>
    BY <1>2 DEF Silence
<1>5. ASSUME NEW key \in DOMAIN new
      PROVE  \E d \in Clusters, k \in AuditKeys : key = FullKey(d, k) /\ now[d][k] # <<>>
  <2>1. CASE key \in DOMAIN map
    <3>1. PICK d \in Clusters, k \in AuditKeys : key = FullKey(d, k) /\ reps[d][k] # <<>>
      BY <2>1 DEF Holds
    <3>2. d # c
      BY <1>4, <3>1
    <3>3. QED
      BY <1>3, <3>1, <3>2
  <2>2. CASE Mine(key)
    <3>1. PICK n \in DOMAIN from : key = Cache!FileKey(PathOf[c], n)
      BY <2>2
    <3>2. PICK k \in AuditKeys : n = <<k>> /\ r[k] # <<>>
      BY CarryIs
    <3>3. key = FullKey(c, k)
      BY <1>2, <3>1, <3>2, FullKeyIs
    <3>4. QED
      BY <1>3, <3>2, <3>3
  <2>3. QED
    BY <1>1, <2>1, <2>2
<1>6. ASSUME NEW d \in Clusters, NEW k \in AuditKeys, now[d][k] # <<>>
      PROVE  FullKey(d, k) \in DOMAIN new /\ new[FullKey(d, k)] = Final(now[d][k])
  <2>1. CASE d # c
    <3>1. FullKey(d, k) \in DOMAIN map /\ map[FullKey(d, k)] = Final(reps[d][k])
      BY <1>3, <1>6, <2>1 DEF Holds
    <3>2. ~Mine(FullKey(d, k))
      <4> SUFFICES ASSUME NEW n \in DOMAIN from, FullKey(d, k) = Cache!FileKey(PathOf[c], n)
                   PROVE  FALSE
        OBVIOUS
      <4>1. PICK m \in AuditKeys : n = <<m>>
        BY CarryIs
      <4>2. FullKey(d, k) = FullKey(c, m)
        BY <1>2, <4>1, FullKeyIs
      <4>3. QED
        BY <1>2, <2>1, <4>2, KeysDiffer
    <3>3. QED
      BY <1>1, <1>3, <2>1, <3>1, <3>2
  <2>2. CASE d = c
    <3>1. <<k>> \in DOMAIN from /\ from[<<k>>] = Final(r[k])
      BY <1>3, <1>6, <2>2, CarryIs
    <3>2. FullKey(c, k) = Cache!FileKey(PathOf[c], <<k>>)
      BY <1>2, FullKeyIs
    <3>3. /\ Mine(FullKey(c, k)) /\ Name(FullKey(c, k)) \in DOMAIN from
          /\ FullKey(c, k) = Cache!FileKey(PathOf[c], Name(FullKey(c, k)))
      BY <3>1, <3>2
    <3>4. PICK m \in AuditKeys : Name(FullKey(c, k)) = <<m>>
      BY <3>3, CarryIs
    <3>5. FullKey(c, k) = FullKey(c, m)
      BY <1>2, <3>3, <3>4, FullKeyIs
    <3>6. m = k
      BY <1>2, <3>5, KeysDiffer
    <3>7. FullKey(c, k) \in DOMAIN new
      BY <1>1, <3>3
    <3>8. QED
      BY <1>1, <1>3, <2>2, <3>1, <3>3, <3>4, <3>6, <3>7
  <2>3. QED
    BY <2>1, <2>2
<1>7. QED
    BY <1>5, <1>6 DEF Holds, new

\* What a cluster finds under its own prefix is what its report carried.
LEMMA ScopeIs ==
    ASSUME NEW reps \in [Clusters -> Reports], NEW map, Holds(map, reps), NEW c \in Clusters,
           NEW before, before = Cache!Scope(map, PathOf[c], Cache!Under(map, PathOf[c]))
    PROVE  /\ \A path \in DOMAIN before : \E k \in AuditKeys : path = <<k>>
           /\ \A k \in AuditKeys : /\ <<k>> \in DOMAIN before <=> reps[c][k] # <<>>
                                   /\ reps[c][k] # <<>> => before[<<k>>] = Final(reps[c][k])
<1> DEFINE p == PathOf[c]
           under == Cache!Under(map, p)
<1>1. AuditKeys \subseteq Keys
    BY DEF Keys
<1>2. /\ DOMAIN before = {m \in under : Cache!FileKey(p, m) \in DOMAIN map}
      /\ \A m \in DOMAIN before : before[m] = map[Cache!FileKey(p, m)]
    BY DEF Cache!Scope
<1>3. under = {SubSeq(k, Len(p) + 1, Len(k)) :
                  k \in {q \in DOMAIN map : Len(q) > Len(p) /\ SubSeq(q, 1, Len(p)) = p}}
    BY DEF Cache!Under
<1> HIDE DEF under
<1>4. ASSUME NEW m \in under PROVE \E k \in AuditKeys : m = <<k>> /\ reps[c][k] # <<>>
  <2>1. PICK key \in DOMAIN map : /\ Len(key) > Len(p) /\ SubSeq(key, 1, Len(p)) = p
                                  /\ m = SubSeq(key, Len(p) + 1, Len(key))
    BY <1>3
  <2>2. PICK d \in Clusters, k \in AuditKeys : key = FullKey(d, k) /\ reps[d][k] # <<>>
    BY DEF Holds
  <2>3. d = c
    BY <1>1, <2>1, <2>2, PrefixIsOwn
  <2>4. m = <<k>>
    BY <1>1, <2>1, <2>2, <2>3, FullKeyIs
  <2>5. QED
    BY <2>2, <2>3, <2>4
<1>5. ASSUME NEW k \in AuditKeys, reps[c][k] # <<>>
      PROVE  <<k>> \in DOMAIN before /\ before[<<k>>] = Final(reps[c][k])
  <2>1. FullKey(c, k) \in DOMAIN map /\ map[FullKey(c, k)] = Final(reps[c][k])
    BY <1>5 DEF Holds
  <2>2. Len(FullKey(c, k)) > Len(p) /\ SubSeq(FullKey(c, k), 1, Len(p)) = p
    BY <1>1, OwnPrefix
  <2>3. SubSeq(FullKey(c, k), Len(p) + 1, Len(FullKey(c, k))) = <<k>>
    BY <1>1, FullKeyIs
  <2>4. <<k>> \in under
    BY <1>3, <2>1, <2>2, <2>3
  <2>5. Cache!FileKey(p, <<k>>) = FullKey(c, k)
    BY <1>1, FullKeyIs
  <2>6. QED
    BY <1>2, <2>1, <2>4, <2>5
<1>6. QED
  <2>1. \A path \in DOMAIN before : \E k \in AuditKeys : path = <<k>> /\ reps[c][k] # <<>>
    BY <1>2, <1>4
  <2>2. ASSUME NEW k \in AuditKeys, <<k>> \in DOMAIN before PROVE reps[c][k] # <<>>
    <3>1. PICK m \in AuditKeys : <<k>> = <<m>> /\ reps[c][m] # <<>>
      BY <2>1, <2>2
    <3>2. k = m
      BY <3>1, OnePlace
    <3>3. QED
      BY <3>1, <3>2
  <2>3. QED
    BY <1>5, <2>1, <2>2

-----------------------------------------------------------------------------
(***************************************************************************)
(* The invariant: the types; every state is what the reports it was made   *)
(* of carry; the lines of a pass are those of the baseline and of its      *)
(* reports; a watch carries the statuses of the tick it printed last.      *)
(***************************************************************************)
Types ==
    /\ health \in [Clusters -> Reports]
    /\ \A c \in Clusters, k \in Keys : health[c][k] \in VerdictsOf[k]
    /\ reports \in [Clusters -> Reports] /\ compared \in [Clusters -> Reports]
    /\ filed \in [Clusters -> Reports] /\ ticked \in [Clusters -> Reports]
    /\ pc \in {"down", "audit", "print", "wait"}
    /\ watching \in BOOLEAN /\ baseline \in BOOLEAN
    /\ left \subseteq Clusters

Carried ==
    /\ Holds(file.map, filed) /\ Holds(prev.map, compared) /\ Holds(merged, reports)
    /\ \A c \in left : reports[c] = Silence

Summed ==
    /\ changes = [c \in Clusters |-> changes[c]]
    /\ pc = "audit" => \A c \in Clusters \ left : changes[c] = ChangesOf(c, reports[c])

Watched ==
    /\ pc = "down" => baseline
    /\ baseline => told = Cache!EmptyMap /\ printed = {} /\ statuses = Cache!EmptyMap
    /\ pc = "wait" => ~baseline /\ statuses = Statuses(reports)
    /\ pc \in {"audit", "print"} /\ ~baseline => statuses = Statuses(ticked)
    /\ pc \in {"audit", "print"} => printed = {}

LEMMA HealthIsReport ==
    ASSUME NEW h \in [Keys -> UNION {VerdictsOf[k] : k \in Keys}],
           \A k \in Keys : h[k] \in VerdictsOf[k]
    PROVE  h \in Reports
<1>1. \A k \in Keys : h[k] \in Seq(Statuses4)
    BY KeysAssumption
<1>2. h \in [Keys -> Seq(Statuses4)]
    BY <1>1
<1>3. QED
    BY <1>2 DEF Reports, IsReport

LEMMA InitAll == Init => Types /\ Carried /\ Summed /\ Watched
<1> SUFFICES ASSUME Init PROVE Types /\ Carried /\ Summed /\ Watched
    OBVIOUS
<1>1. health \in [Clusters -> Reports]
    BY HealthIsReport DEF Init
<1>2. Types
    BY <1>1, SilenceIsReport DEF Init, Types
<1>3. Carried
    BY NothingHolds DEF Init, Carried, NoVerdicts
<1>4. Summed /\ Watched
    BY DEF Init, Summed, Watched, NoChanges
<1>5. QED
    BY <1>2, <1>3, <1>4

LEMMA TypesStep == Types /\ [Next]_vars => Types'
<1> SUFFICES ASSUME Types, [Next]_vars PROVE Types'
    OBVIOUS
<1>1. ASSUME NEW c \in Clusters, NEW k \in Keys, Shift(c, k) PROVE Types'
  <2>1. PICK v \in VerdictsOf[k] : health' = [health EXCEPT ![c][k] = v]
    BY <1>1 DEF Shift
  <2>2. health[c] \in [Keys -> Seq(Statuses4)] /\ IsReport(health[c])
    BY DEF Types, Reports
  <2>3. v \in Seq(Statuses4)
    BY KeysAssumption
  <2>4. [health[c] EXCEPT ![k] = v] \in [Keys -> Seq(Statuses4)]
    BY <2>2, <2>3
  <2>5. \A m \in Keys : [health[c] EXCEPT ![k] = v][m] \in VerdictsOf[m] \cup {<<>>}
    BY <2>2 DEF IsReport
  <2>6. [health[c] EXCEPT ![k] = v] \in Reports
    BY <2>4, <2>5 DEF Reports, IsReport
  <2>7. health' = [health EXCEPT ![c] = [health[c] EXCEPT ![k] = v]]
    BY <2>1
  <2>8. health' \in [Clusters -> Reports]
    BY <2>6, <2>7 DEF Types
  <2>9. QED
    BY <1>1, <2>8 DEF Shift, Types, reporting, history
<1>2. CASE LoseFile
    BY <1>2, SilenceIsReport DEF LoseFile, Types, reporting
<1>3. ASSUME NEW watch \in BOOLEAN, Start(watch) PROVE Types'
    BY <1>3, SilenceIsReport DEF Start, BeginPass, Types
<1>4. ASSUME NEW c \in Clusters, Audit(c) PROVE Types'
    BY <1>4 DEF Audit, Types, history
<1>5. CASE Save
    BY <1>5 DEF Save, Types
<1>6. ASSUME GoDown, UNCHANGED <<health, filed>> PROVE Types'
    BY <1>6, SilenceIsReport DEF GoDown, Types
<1>7. CASE Output
    BY <1>6, <1>7 DEF Output, Types
<1>8. CASE FailOutput \/ Kill
    BY <1>6, <1>8 DEF FailOutput, Kill
<1>9. CASE NextPass
    BY <1>9, SilenceIsReport DEF NextPass, BeginPass, Types
<1>10. CASE UNCHANGED vars
    BY <1>10 DEF vars, Types
<1>11. QED
    BY <1>1, <1>2, <1>3, <1>4, <1>5, <1>7, <1>8, <1>9, <1>10 DEF Next

LEMMA CarriedStep == Types /\ Carried /\ [Next]_vars => Carried'
<1> SUFFICES ASSUME Types, Carried, [Next]_vars PROVE Carried'
    OBVIOUS
<1>1. ASSUME NEW c \in Clusters, NEW k \in Keys, Shift(c, k) PROVE Carried'
    BY <1>1 DEF Shift, Carried, reporting, history
<1>2. CASE LoseFile
    BY <1>2, NothingHolds DEF LoseFile, Carried, NoVerdicts, reporting
<1>3. ASSUME NEW watch \in BOOLEAN, Start(watch) PROVE Carried'
  <2>1. /\ merged' = Cache!EmptyMap /\ reports' = Quiet /\ left' = Clusters
        /\ file' = file /\ filed' = filed
    BY <1>3 DEF Start, BeginPass
  <2>2. Holds(prev'.map, compared')
    BY <1>3, NothingHolds DEF Start, Carried, NoVerdicts
  <2>3. \A c \in left' : reports'[c] = Silence
    BY <2>1 DEF Quiet
  <2>4. QED
    BY <2>1, <2>2, <2>3, NothingHolds DEF Carried
<1>4. ASSUME NEW c \in Clusters, Audit(c) PROVE Carried'
  <2>1. reports[c] = Silence /\ health[c] \in Reports
    BY <1>4 DEF Audit, Carried, Types
  <2>2. /\ merged' = Cache!Merge(merged, PathOf[c], Carry(health[c]))
        /\ reports' = [reports EXCEPT ![c] = health[c]]
        /\ left' = left \ {c}
        /\ UNCHANGED <<file, filed, prev, compared>>
    BY <1>4 DEF Audit, history
  <2>3. Holds(merged', reports')
    BY <2>1, <2>2, MergeHolds DEF Carried, Types
  <2>4. \A d \in left' : reports'[d] = Silence
    BY <2>2 DEF Carried, Types
  <2>5. QED
    BY <2>2, <2>3, <2>4 DEF Carried
<1>5. CASE Save
  <2>1. /\ prev'.map = merged /\ compared' = reports
        /\ (file'.map = merged /\ filed' = reports) \/ UNCHANGED <<file, filed>>
        /\ UNCHANGED <<left, merged, reports>>
    BY <1>5 DEF Save
  <2>2. QED
    BY <2>1 DEF Carried
<1>6. ASSUME GoDown, UNCHANGED <<file, filed>> PROVE Carried'
    BY <1>6, NothingHolds DEF GoDown, Carried, NoVerdicts
<1>7. CASE Output
    BY <1>6, <1>7 DEF Output, Carried
<1>8. CASE FailOutput \/ Kill
    BY <1>6, <1>8 DEF FailOutput, Kill
<1>9. CASE NextPass
  <2>1. /\ merged' = Cache!EmptyMap /\ reports' = Quiet /\ left' = Clusters
        /\ UNCHANGED <<file, filed, prev, compared>>
    BY <1>9 DEF NextPass, BeginPass
  <2>2. \A c \in left' : reports'[c] = Silence
    BY <2>1 DEF Quiet
  <2>3. QED
    BY <2>1, <2>2, NothingHolds DEF Carried
<1>10. CASE UNCHANGED vars
    BY <1>10 DEF vars, Carried
<1>11. QED
    BY <1>1, <1>2, <1>3, <1>4, <1>5, <1>7, <1>8, <1>9, <1>10 DEF Next

LEMMA SummedStep == Types /\ Carried /\ Summed /\ [Next]_vars => Summed'
<1> SUFFICES ASSUME Types, Carried, Summed, [Next]_vars PROVE Summed'
    OBVIOUS
<1>1. ASSUME UNCHANGED <<pc, left, changes, reports, prev>> PROVE Summed'
    BY <1>1 DEF Summed, ChangesOf
<1>2. ASSUME NEW c \in Clusters, NEW k \in Keys, Shift(c, k) PROVE Summed'
    BY <1>1, <1>2 DEF Shift, reporting
<1>3. CASE LoseFile
    BY <1>1, <1>3 DEF LoseFile, reporting
<1>4. ASSUME NEW watch \in BOOLEAN, Start(watch) PROVE Summed'
    BY <1>4 DEF Start, BeginPass, Summed, NoChanges
<1>5. ASSUME NEW c \in Clusters, Audit(c) PROVE Summed'
  <2>1. /\ reports' = [reports EXCEPT ![c] = health[c]] /\ prev' = prev /\ pc = "audit"
        /\ changes' = [changes EXCEPT ![c] = ChangesOf(c, health[c])]
        /\ left' = left \ {c}
    BY <1>5 DEF Audit
  <2>2. changes' = [d \in Clusters |-> changes'[d]]
    BY <2>1 DEF Summed
  <2>3. ASSUME NEW d \in Clusters \ left' PROVE changes'[d] = ChangesOf(d, reports[d])'
    <3>1. CASE d = c
      <4>1. changes'[d] = ChangesOf(d, health[d]) /\ reports'[d] = health[d]
        BY <2>1, <3>1 DEF Summed, Types
      <4>2. QED
        BY <2>1, <4>1 DEF ChangesOf
    <3>2. CASE d # c
      <4>1. changes'[d] = ChangesOf(d, reports[d]) /\ reports'[d] = reports[d]
        BY <2>1, <2>3, <3>2 DEF Summed, Types
      <4>2. QED
        BY <2>1, <4>1 DEF ChangesOf
    <3>3. QED
      BY <3>1, <3>2
  <2>4. QED
    BY <2>2, <2>3 DEF Summed
<1>6. ASSUME UNCHANGED changes, pc' # "audit" PROVE Summed'
    BY <1>6 DEF Summed
<1>7. CASE Save
    BY <1>6, <1>7 DEF Save
<1>8. ASSUME GoDown PROVE Summed'
    BY <1>8 DEF GoDown, Summed, NoChanges
<1>9. CASE Output
    BY <1>6, <1>8, <1>9 DEF Output
<1>10. CASE FailOutput \/ Kill
    BY <1>8, <1>10 DEF FailOutput, Kill
<1>11. CASE NextPass
    BY <1>11 DEF NextPass, BeginPass, Summed, NoChanges
<1>12. CASE UNCHANGED vars
    BY <1>1, <1>12 DEF vars
<1>13. QED
    BY <1>2, <1>3, <1>4, <1>5, <1>7, <1>9, <1>10, <1>11, <1>12 DEF Next

LEMMA WatchedStep == Types /\ Watched /\ [Next]_vars => Watched'
<1> SUFFICES ASSUME Types, Watched, [Next]_vars PROVE Watched'
    OBVIOUS
<1>1. ASSUME UNCHANGED <<pc, baseline, told, printed, statuses, reports, ticked>> PROVE Watched'
    BY <1>1 DEF Watched
<1>2. ASSUME NEW c \in Clusters, NEW k \in Keys, Shift(c, k) PROVE Watched'
    BY <1>1, <1>2 DEF Shift, reporting, history
<1>3. CASE LoseFile
    BY <1>1, <1>3 DEF LoseFile, reporting
<1>4. ASSUME NEW watch \in BOOLEAN, Start(watch) PROVE Watched'
    BY <1>4 DEF Start, BeginPass, Watched
<1>5. ASSUME NEW c \in Clusters, Audit(c) PROVE Watched'
    BY <1>5 DEF Audit, Watched, history
<1>6. CASE Save
    BY <1>6 DEF Save, Watched
<1>7. ASSUME GoDown PROVE Watched'
    BY <1>7 DEF GoDown, Watched
<1>8. CASE Output
  <2>1. CASE watching
    <3>1. ~baseline' /\ statuses' = Statuses(reports) /\ reports' = reports /\ pc' = "wait"
      BY <1>7, <1>8, <2>1 DEF Output
    <3>2. statuses' = Statuses(reports')
      BY <3>1
    <3>3. QED
      BY <3>1, <3>2 DEF Watched
  <2>2. CASE ~watching
    BY <1>7, <1>8, <2>2 DEF Output
  <2>3. QED
    BY <2>1, <2>2
<1>9. CASE FailOutput \/ Kill
    BY <1>7, <1>9 DEF FailOutput, Kill
<1>10. CASE NextPass
    BY <1>10 DEF NextPass, BeginPass, Watched
<1>11. CASE UNCHANGED vars
    BY <1>1, <1>11 DEF vars
<1>12. QED
    BY <1>2, <1>3, <1>4, <1>5, <1>6, <1>8, <1>9, <1>10, <1>11 DEF Next

-----------------------------------------------------------------------------
(***************************************************************************)
(* The lines that are printed, and the reader of a watch.                  *)
(***************************************************************************)
Lined ==
    /\ \A line \in printed : line.key \in FullKeys /\ line.status \in Statuses4 \cup {"gone"}
    /\ DOMAIN told \subseteq FullKeys

LEMMA EmptyIsMap == IsMap(Cache!EmptyMap) /\ DOMAIN Cache!EmptyMap = {}
BY DEF IsMap, Cache!EmptyMap

LEMMA StatusesTyped == Types /\ Watched => IsMap(statuses)
<1> SUFFICES ASSUME Types, Watched PROVE IsMap(statuses)
    OBVIOUS
<1>1. IsMap(Statuses(reports)) /\ IsMap(Statuses(ticked)) /\ IsMap(Cache!EmptyMap)
    BY StatusesIsMap, EmptyIsMap DEF Types
<1>2. QED
    BY <1>1 DEF Types, Watched

\* The lines of one print.
ToPrint == IF baseline THEN Lines(reports) ELSE Changed(reports, statuses)

LEMMA ChangedIs ==
    ASSUME NEW reps, NEW before, NEW line
    PROVE  line \in Changed(reps, before) <=>
              \/ line \in Lines(reps) /\ ~(line.key \in DOMAIN before /\ before[line.key] = line.status)
              \/ \E key \in DOMAIN before \ DOMAIN Statuses(reps) :
                    before[key] # "OK" /\ line = [key |-> key, status |-> "gone"]
BY DEF Changed

LEMMA HeardIs ==
    ASSUME NEW known, NEW lines
    PROVE  /\ DOMAIN Heard(known, lines) = DOMAIN known \cup {line.key : line \in lines}
           /\ \A key \in DOMAIN Heard(known, lines) :
                 \/ \E line \in lines : line.key = key /\ Heard(known, lines)[key] = line.status
                 \/ /\ \A line \in lines : line.key # key
                    /\ key \in DOMAIN known /\ Heard(known, lines)[key] = known[key]
<1> DEFINE said == {line.key : line \in lines}
           D == DOMAIN known \cup said
           Which(key) == CHOOSE line \in lines : line.key = key
<1>1. Heard(known, lines) = [key \in D |-> IF key \in said THEN Which(key).status ELSE known[key]]
    BY DEF Heard
<1>2. ASSUME NEW key \in D, key \in said
      PROVE  \E line \in lines : line.key = key /\ Heard(known, lines)[key] = line.status
  <2>1. \E line \in lines : line.key = key
    BY <1>2
  <2>2. Which(key) \in lines /\ Which(key).key = key
    BY <2>1
  <2>3. QED
    BY <1>1, <1>2, <2>2
<1>3. ASSUME NEW key \in D, key \notin said
      PROVE  /\ \A line \in lines : line.key # key
             /\ key \in DOMAIN known /\ Heard(known, lines)[key] = known[key]
    BY <1>1, <1>3
<1>4. QED
    BY <1>1, <1>2, <1>3

LEMMA ToldIs ==
    ASSUME told' = Heard(told, ToPrint)
    PROVE  /\ \A key \in DOMAIN told' : \/ key \in DOMAIN told
                                       \/ \E line \in ToPrint : line.key = key
           /\ \A line \in ToPrint : line.key \in DOMAIN told'
           /\ DOMAIN told \subseteq DOMAIN told'
           /\ \A key \in DOMAIN told' :
                 \/ \E line \in ToPrint : line.key = key /\ told'[key] = line.status
                 \/ /\ \A line \in ToPrint : line.key # key
                    /\ key \in DOMAIN told /\ told'[key] = told[key]
<1> DEFINE h == Heard(told, ToPrint)
<1>1. /\ DOMAIN h = DOMAIN told \cup {line.key : line \in ToPrint}
      /\ \A key \in DOMAIN h :
             \/ \E line \in ToPrint : line.key = key /\ h[key] = line.status
             \/ /\ \A line \in ToPrint : line.key # key
                /\ key \in DOMAIN told /\ h[key] = told[key]
    BY HeardIs
<1>2. told' = h
    OBVIOUS
<1> HIDE DEF h
<1>3. QED
    BY <1>1, <1>2

LEMMA ToPrintTyped ==
    ASSUME Types, Watched, NEW line \in ToPrint
    PROVE  line.key \in FullKeys /\ line.status \in Statuses4 \cup {"gone"}
<1>1. CASE line \in Lines(reports)
  <2>1. reports \in [Clusters -> Reports]
    BY DEF Types
  <2>2. PICK c \in Clusters, k \in Keys :
           \E st \in Range(reports[c][k]) : line = [key |-> FullKey(c, k), status |-> st]
    BY <1>1, <2>1, LinesAre
  <2>3. reports[c][k] \in Seq(Statuses4)
    BY <2>1 DEF Reports
  <2>4. Range(reports[c][k]) \subseteq Statuses4
    BY <2>3 DEF Range
  <2>5. QED
    BY <2>2, <2>4 DEF FullKeys
<1>2. CASE line \notin Lines(reports)
  <2>1. PICK key \in DOMAIN statuses : line = [key |-> key, status |-> "gone"]
    BY <1>2, ChangedIs DEF ToPrint
  <2>2. key \in FullKeys
    BY StatusesTyped DEF IsMap
  <2>3. QED
    BY <2>1, <2>2
<1>3. QED
    BY <1>1, <1>2

LEMMA LinedStep == Types /\ Watched /\ Lined /\ [Next]_vars => Lined'
<1> SUFFICES ASSUME Types, Watched, Lined, [Next]_vars PROVE Lined'
    OBVIOUS
<1>1. FullKeys' = FullKeys
    BY DEF FullKeys, FullKey
<1>2. ASSUME printed' = printed \/ printed' = {}, told' = told \/ told' = Cache!EmptyMap
      PROVE  Lined'
    BY <1>2, EmptyIsMap DEF Lined
<1>3. ASSUME NEW c \in Clusters, NEW k \in Keys, Shift(c, k) PROVE Lined'
    BY <1>2, <1>3 DEF Shift, reporting, history
<1>4. CASE LoseFile
    BY <1>2, <1>4 DEF LoseFile, reporting
<1>5. ASSUME NEW watch \in BOOLEAN, Start(watch) PROVE Lined'
    BY <1>2, <1>5 DEF Start, BeginPass
<1>6. ASSUME NEW c \in Clusters, Audit(c) PROVE Lined'
    BY <1>2, <1>6 DEF Audit, history
<1>7. CASE Save
    BY <1>2, <1>7 DEF Save
<1>8. CASE GoDown
    BY <1>2, <1>8 DEF GoDown
<1>9. CASE Output /\ ~GoDown
  <2>1. told' = Heard(told, ToPrint) /\ (printed' = {} \/ printed' = ToPrint)
    BY <1>9 DEF Output, ToPrint
  <2>2. \A line \in ToPrint : line.key \in FullKeys /\ line.status \in Statuses4 \cup {"gone"}
    BY ToPrintTyped
  <2>3. DOMAIN told' \subseteq FullKeys
    BY <2>1, <2>2, ToldIs DEF Lined
  <2>4. QED
    BY <2>1, <2>2, <2>3 DEF Lined
<1>10. CASE FailOutput \/ Kill
    BY <1>8, <1>10 DEF FailOutput, Kill
<1>11. CASE NextPass
    BY <1>2, <1>11 DEF NextPass, BeginPass
<1>12. CASE UNCHANGED vars
    BY <1>2, <1>12 DEF vars
<1>13. QED
    BY <1>3, <1>4, <1>5, <1>6, <1>7, <1>8, <1>9, <1>10, <1>11, <1>12 DEF Next

-----------------------------------------------------------------------------
(***************************************************************************)
(* One finding under a key: repl/async-in, with two links on a node, may   *)
(* make more.                                                              *)
(***************************************************************************)
OneFinding == \A k \in Keys : \A v \in VerdictsOf[k] : Len(v) <= 1

LEMMA OneIs ==
    ASSUME OneFinding, NEW reps \in [Clusters -> Reports], NEW c \in Clusters, NEW k \in Keys,
           reps[c][k] # <<>>
    PROVE  /\ Final(reps[c][k]) \in Statuses4 /\ Range(reps[c][k]) = {Final(reps[c][k])}
           /\ Least(reps[c][k]) = Final(reps[c][k])
<1> DEFINE s == reps[c][k]
<1>1. s \in Seq(Statuses4) /\ Len(s) <= 1 /\ s # <<>>
    BY DEF OneFinding, Reports, IsReport
<1> HIDE DEF s
<1>2. Len(s) \in Nat \ {0} /\ DOMAIN s = 1..Len(s)
    BY <1>1, Said
<1>3. Len(s) = 1 /\ DOMAIN s = {1}
    BY <1>1, <1>2
<1>4. Range(s) = {Final(s)}
    BY <1>3 DEF Range, Final
<1>5. QED
    BY <1>1, <1>4, LeastIs, Said DEF s

\* What a reader knows is what the watch carries.
Agreed ==
    ~baseline =>
        \A c \in Clusters, k \in Keys :
            IF FullKey(c, k) \in DOMAIN statuses
            THEN FullKey(c, k) \in DOMAIN told /\ told[FullKey(c, k)] = statuses[FullKey(c, k)]
            ELSE FullKey(c, k) \in DOMAIN told => told[FullKey(c, k)] \in {"OK", "gone"}

LEMMA AgreedOutput ==
    ASSUME OneFinding, Types, Watched, Agreed, pc = "print",
           told' = Heard(told, ToPrint), statuses' = Statuses(reports)
    PROVE  Agreed'
<1> SUFFICES ASSUME NEW c \in Clusters, NEW k \in Keys
             PROVE  IF FullKey(c, k) \in DOMAIN statuses'
                    THEN FullKey(c, k) \in DOMAIN told' /\ told'[FullKey(c, k)] = statuses'[FullKey(c, k)]
                    ELSE FullKey(c, k) \in DOMAIN told' => told'[FullKey(c, k)] \in {"OK", "gone"}
    BY DEF Agreed, FullKey
<1> DEFINE key == FullKey(c, k)
<1>1. reports \in [Clusters -> Reports]
    BY DEF Types
<1>2. ASSUME NEW line \in Lines(reports), line.key = key
      PROVE  reports[c][k] # <<>> /\ line.status = Final(reports[c][k])
  <2>1. PICK d \in Clusters, m \in Keys :
           \E st \in Range(reports[d][m]) : line = [key |-> FullKey(d, m), status |-> st]
    BY <1>1, LinesAre
  <2>2. d = c /\ m = k
    BY <1>2, <2>1, KeysDiffer
  <2>3. reports[c][k] # <<>>
    BY <2>1, <2>2 DEF Range
  <2>4. QED
    BY <1>1, <2>1, <2>2, <2>3, OneIs
<1>3. CASE reports[c][k] # <<>>
  <2>1. key \in DOMAIN statuses' /\ statuses'[key] = Final(reports[c][k])
    BY <1>1, <1>3, StatusesIs, OneIs
  <2>2. ASSUME NEW line \in ToPrint, line.key = key PROVE line.status = Final(reports[c][k])
    <3>1. CASE line \in Lines(reports)
      BY <1>2, <2>2, <3>1
    <3>2. CASE line \notin Lines(reports)
      <4>1. key \notin DOMAIN Statuses(reports)
        BY <2>2, <3>2, ChangedIs DEF ToPrint
      <4>2. QED
        BY <1>1, <1>3, <4>1, StatusesIs
    <3>3. QED
      BY <3>1, <3>2
  <2> DEFINE mine == [key |-> key, status |-> Final(reports[c][k])]
  <2>3. mine \in Lines(reports)
    <3>1. Final(reports[c][k]) \in Range(reports[c][k])
      BY <1>1, <1>3, OneIs
    <3>2. QED
      BY <1>1, <3>1, LinesAre
  <2>4. CASE \E line \in ToPrint : line.key = key
    <3>1. key \in DOMAIN told'
      BY <2>4, ToldIs
    <3>2. told'[key] = Final(reports[c][k])
      BY <2>2, <2>4, <3>1, ToldIs
    <3>3. QED
      BY <2>1, <3>1, <3>2
  <2>5. CASE \A line \in ToPrint : line.key # key
    <3>1. mine \notin ToPrint
      BY <2>5
    <3>2. ~baseline /\ key \in DOMAIN statuses /\ statuses[key] = Final(reports[c][k])
      BY <2>3, <3>1, ChangedIs DEF ToPrint
    <3>3. key \in DOMAIN told /\ told[key] = statuses[key]
      BY <3>2 DEF Agreed
    <3>4. key \in DOMAIN told' /\ told'[key] = told[key]
      BY <2>5, <3>3, ToldIs
    <3>5. QED
      BY <2>1, <3>2, <3>3, <3>4
  <2>6. QED
    BY <2>4, <2>5
<1>4. CASE reports[c][k] = <<>>
  <2>1. key \notin DOMAIN statuses'
    BY <1>1, <1>4, StatusesIs
  <2>2. ASSUME NEW line \in ToPrint, line.key = key PROVE line.status = "gone"
    <3>1. line \notin Lines(reports)
      BY <1>2, <1>4, <2>2
    <3>2. QED
      BY <3>1, ChangedIs DEF ToPrint
  <2>3. ASSUME key \in DOMAIN told' PROVE told'[key] \in {"OK", "gone"}
    <3>1. CASE \E line \in ToPrint : line.key = key
      BY <2>2, <2>3, <3>1, ToldIs
    <3>2. CASE \A line \in ToPrint : line.key # key
      <4>1. key \in DOMAIN told /\ told'[key] = told[key]
        BY <2>3, <3>2, ToldIs
      <4>2. ~baseline
        BY <4>1, EmptyIsMap DEF Watched
      <4>3. CASE key \in DOMAIN statuses
        <5>1. [key |-> key, status |-> "gone"] \notin Changed(reports, statuses)
          BY <3>2, <4>2 DEF ToPrint
        <5>2. statuses[key] = "OK"
          BY <2>1, <4>3, <5>1, ChangedIs
        <5>3. QED
          BY <4>1, <4>2, <4>3, <5>2 DEF Agreed
      <4>4. CASE key \notin DOMAIN statuses
        BY <4>1, <4>2, <4>4 DEF Agreed
      <4>5. QED
        BY <4>3, <4>4
    <3>3. QED
      BY <3>1, <3>2
  <2>4. QED
    BY <2>1, <2>3
<1>5. QED
    BY <1>3, <1>4

LEMMA AgreedStep == OneFinding /\ Types /\ Watched /\ Agreed /\ [Next]_vars => Agreed'
<1> SUFFICES ASSUME OneFinding, Types, Watched, Agreed, [Next]_vars PROVE Agreed'
    OBVIOUS
<1>1. ASSUME UNCHANGED <<baseline, statuses, told>> PROVE Agreed'
    BY <1>1 DEF Agreed, FullKey
<1>2. ASSUME baseline' PROVE Agreed'
    BY <1>2 DEF Agreed
<1>3. ASSUME NEW c \in Clusters, NEW k \in Keys, Shift(c, k) PROVE Agreed'
    BY <1>1, <1>3 DEF Shift, reporting, history
<1>4. CASE LoseFile
    BY <1>1, <1>4 DEF LoseFile, reporting
<1>5. ASSUME NEW watch \in BOOLEAN, Start(watch) PROVE Agreed'
    BY <1>2, <1>5 DEF Start
<1>6. ASSUME NEW c \in Clusters, Audit(c) PROVE Agreed'
    BY <1>1, <1>6 DEF Audit, history
<1>7. CASE Save
    BY <1>1, <1>7 DEF Save
<1>8. CASE GoDown
    BY <1>2, <1>8 DEF GoDown
<1>9. CASE Output /\ ~GoDown
    BY <1>9, AgreedOutput DEF Output, ToPrint
<1>10. CASE FailOutput \/ Kill
    BY <1>8, <1>10 DEF FailOutput, Kill
<1>11. CASE NextPass
    BY <1>1, <1>11 DEF NextPass, BeginPass
<1>12. CASE UNCHANGED vars
    BY <1>1, <1>12 DEF vars
<1>13. QED
    BY <1>3, <1>4, <1>5, <1>6, <1>7, <1>8, <1>9, <1>10, <1>11, <1>12 DEF Next

LEMMA KnowsAll == OneFinding /\ Types /\ Watched /\ Agreed => WatcherKnows
<1> SUFFICES ASSUME OneFinding, Types, Watched, Agreed, pc = "wait",
                    NEW c \in Clusters, NEW k \in Keys
             PROVE  LET key  == FullKey(c, k)
                        word == IF key \in DOMAIN told THEN told[key] ELSE "gone"
                    IN  IF reports[c][k] = <<>> THEN word \in {"OK", "gone"}
                                                ELSE word \in Range(reports[c][k])
    BY DEF WatcherKnows
<1>1. reports \in [Clusters -> Reports] /\ ~baseline /\ statuses = Statuses(reports)
    BY DEF Types, Watched
<1>2. FullKey(c, k) \in DOMAIN statuses <=> reports[c][k] # <<>>
    BY <1>1, StatusesIs
<1>3. CASE reports[c][k] = <<>>
    BY <1>1, <1>2, <1>3 DEF Agreed
<1>4. CASE reports[c][k] # <<>>
  <2>1. statuses[FullKey(c, k)] = Final(reports[c][k])
    BY <1>1, <1>4, StatusesIs, OneIs
  <2>2. Final(reports[c][k]) \in Range(reports[c][k])
    BY <1>1, <1>4, OneIs
  <2>3. QED
    BY <1>1, <1>2, <1>4, <2>1, <2>2 DEF Agreed
<1>5. QED
    BY <1>3, <1>4

-----------------------------------------------------------------------------
(***************************************************************************)
(* A tick that changed nothing.                                            *)
(***************************************************************************)
LEMMA NothingChanged ==
    ASSUME OneFinding, NEW reps \in [Clusters -> Reports]
    PROVE  Changed(reps, Statuses(reps)) = {}
<1> SUFFICES ASSUME NEW line \in Changed(reps, Statuses(reps)) PROVE FALSE
    OBVIOUS
<1>1. /\ line \in Lines(reps)
      /\ ~(line.key \in DOMAIN Statuses(reps) /\ Statuses(reps)[line.key] = line.status)
    BY ChangedIs
<1>2. PICK c \in Clusters, k \in Keys :
         \E st \in Range(reps[c][k]) : line = [key |-> FullKey(c, k), status |-> st]
    BY <1>1, LinesAre
<1>3. reps[c][k] # <<>>
    BY <1>2 DEF Range
<1>4. line.key = FullKey(c, k) /\ line.status = Final(reps[c][k])
  <2>1. PICK st \in Range(reps[c][k]) : line = [key |-> FullKey(c, k), status |-> st]
    BY <1>2
  <2>2. Range(reps[c][k]) = {Final(reps[c][k])}
    BY <1>3, OneIs
  <2>3. QED
    BY <2>1, <2>2
<1>5. FullKey(c, k) \in DOMAIN Statuses(reps) /\ Statuses(reps)[FullKey(c, k)] = Final(reps[c][k])
    BY <1>3, StatusesIs, OneIs
<1>6. QED
    BY <1>1, <1>4, <1>5

LEMMA QuietStep ==
    OneFinding /\ Types /\ Watched /\ QuietTick /\ [Next]_vars => QuietTick'
<1> SUFFICES ASSUME OneFinding, Types, Watched, QuietTick, [Next]_vars, pc' = "wait", reports' = ticked'
             PROVE  printed' = {}
    BY DEF QuietTick
<1>1. CASE Output
  <2>1. /\ pc = "print" /\ reports' = reports /\ ticked' = ticked
        /\ printed' = IF baseline THEN {} ELSE Changed(reports, statuses)
    BY <1>1 DEF Output, GoDown
  <2>2. CASE ~baseline
    <3>1. statuses = Statuses(reports) /\ reports \in [Clusters -> Reports]
      BY <2>1, <2>2 DEF Watched, Types
    <3>2. QED
      BY <2>1, <2>2, <3>1, NothingChanged
  <2>3. QED
    BY <2>1, <2>2
<1>2. CASE ~Output
  <2>1. UNCHANGED <<pc, reports, ticked, printed>>
    BY <1>2 DEF Next, vars, Shift, LoseFile, Start, BeginPass, Audit, Save, FailOutput, GoDown, NextPass,
                Kill, reporting, history
  <2>2. QED
    BY <2>1 DEF QuietTick
<1>3. QED
    BY <1>1, <1>2

-----------------------------------------------------------------------------
(***************************************************************************)
(* What the transition summary names.                                      *)
(***************************************************************************)
LEMMA TroubleIs ==
    ASSUME OneFinding, NEW reps \in [Clusters -> Reports], NEW c \in Clusters, NEW k \in Keys
    PROVE  /\ reps[c][k] = <<>> => Trouble(reps[c], k) = {} /\ WorstOf(reps[c], k) = 0
           /\ reps[c][k] # <<>> =>
                 /\ Trouble(reps[c], k) = {Final(reps[c][k])} \ {"OK"}
                 /\ WorstOf(reps[c], k) = Severity(Final(reps[c][k]))
<1> DEFINE s == reps[c][k]
           S == {Severity(st) : st \in Range(s) \cup {"OK"}}
<1>1. WorstOf(reps[c], k) = CHOOSE n \in S : \A st \in Range(s) : Severity(st) <= n
    BY DEF WorstOf
<1>2. CASE s = <<>>
  <2>1. Range(s) = {}
    BY <1>2 DEF Range
  <2>2. S = {0}
    BY <2>1, SeverityIs
  <2>3. QED
    BY <1>1, <1>2, <2>1, <2>2 DEF Trouble
<1>3. CASE s # <<>>
  <2> DEFINE st == Final(s)
  <2>1. Range(s) = {st} /\ st \in Statuses4
    BY <1>3, OneIs
  <2> HIDE DEF st
  <2>2. S = {Severity(st), 0} /\ Severity(st) \in 0..3
    BY <2>1, SeverityIs
  <2> HIDE DEF S
  <2>3. WorstOf(reps[c], k) = CHOOSE n \in S : Severity(st) <= n
    BY <1>1, <2>1
  <2>4. \A n \in S : Severity(st) <= n => n = Severity(st)
    BY <2>2
  <2>5. Severity(st) \in S /\ Severity(st) <= Severity(st)
    BY <2>2
  <2>6. WorstOf(reps[c], k) = Severity(st)
    BY <2>3, <2>4, <2>5
  <2>7. QED
    BY <1>3, <2>1, <2>6 DEF Trouble, st
<1>4. QED
    BY <1>2, <1>3

LEMMA MovedIs ==
    ASSUME NEW before, NEW now
    PROVE  \A key :
              /\ key \in DOMAIN Moved(before, now) <=>
                    \/ key \in DOMAIN now \ DOMAIN before /\ now[key] # "OK"
                    \/ key \in DOMAIN now \cap DOMAIN before /\ now[key] # before[key]
                    \/ key \in DOMAIN before \ DOMAIN now /\ before[key] # "OK"
              /\ key \in DOMAIN Moved(before, now) =>
                    Moved(before, now)[key] = IF key \notin DOMAIN before THEN "appeared"
                                              ELSE IF key \notin DOMAIN now THEN "cleared"
                                              ELSE Direction(before[key], now[key])
<1> DEFINE appeared == {k \in DOMAIN now \ DOMAIN before : now[k] # "OK"}
           moved    == {k \in DOMAIN now \cap DOMAIN before : now[k] # before[k]}
           gone     == {k \in DOMAIN before \ DOMAIN now : before[k] # "OK"}
           D == appeared \cup moved \cup gone
<1>1. Moved(before, now) = [k \in D |-> CASE k \in appeared -> "appeared"
                                          [] k \in gone     -> "cleared"
                                          [] k \in moved    -> Direction(before[k], now[k])]
    BY DEF Moved
<1>2. DOMAIN Moved(before, now) = D
    BY <1>1
<1>3. ASSUME NEW key \in D
      PROVE  Moved(before, now)[key] = IF key \notin DOMAIN before THEN "appeared"
                                       ELSE IF key \notin DOMAIN now THEN "cleared"
                                       ELSE Direction(before[key], now[key])
  <2>1. CASE key \in appeared
    BY <1>1, <2>1
  <2>2. CASE key \in moved
    BY <1>1, <2>2
  <2>3. CASE key \in gone
    BY <1>1, <2>3
  <2>4. QED
    BY <2>1, <2>2, <2>3
<1>4. QED
    BY <1>2, <1>3

LEMMA DirectionIs ==
    ASSUME NEW b \in Statuses4, NEW n \in Statuses4
    PROVE  Direction(b, n) \in {"got worse", "appeared"} <=> Severity(n) > Severity(b)
<1>1. CASE Severity(n) > Severity(b)
  <2>1. n # "OK"
    BY <1>1, SeverityIs
  <2>2. Direction(b, n) = "got worse"
    BY <1>1, <2>1 DEF Direction
  <2>3. QED
    BY <1>1, <2>2
<1>2. CASE ~(Severity(n) > Severity(b))
  <2>1. Direction(b, n) \in {"cleared", "improved"}
    BY <1>2 DEF Direction
  <2>2. QED
    BY <1>2, <2>1
<1>3. QED
    BY <1>1, <1>2

LEMMA ChangesTrue == OneFinding /\ Types /\ Carried /\ Summed => ChangesAreTrue
<1> SUFFICES ASSUME OneFinding, Types, Carried, Summed, pc = "audit",
                    NEW c \in Clusters \ left, changes[c].made, NEW k \in AuditKeys
             PROVE  LET named == <<k>> \in DOMAIN changes[c].named
                    IN  /\ named <=> Trouble(compared[c], k) # Trouble(reports[c], k)
                        /\ named => (changes[c].named[<<k>>] \in {"got worse", "appeared"} <=>
                                        WorstOf(reports[c], k) > WorstOf(compared[c], k))
    BY DEF ChangesAreTrue
<1> DEFINE before == Cache!Scope(prev.map, PathOf[c], Cache!Under(prev.map, PathOf[c]))
           now == Carry(reports[c])
           b == compared[c][k]
           n == reports[c][k]
<1>1. /\ compared \in [Clusters -> Reports] /\ reports \in [Clusters -> Reports]
      /\ Holds(prev.map, compared) /\ k \in Keys
    BY DEF Types, Carried, Keys
<1>2. changes[c].named = Moved(before, now)
    BY DEF Summed, ChangesOf
<1>3. /\ <<k>> \in DOMAIN before <=> b # <<>>
      /\ b # <<>> => before[<<k>>] = Final(b)
  <2> HIDE DEF before
  <2>1. before = Cache!Scope(prev.map, PathOf[c], Cache!Under(prev.map, PathOf[c]))
    BY DEF before
  <2>2. QED
    BY <1>1, <2>1, ScopeIs
<1>4. /\ <<k>> \in DOMAIN now <=> n # <<>>
      /\ n # <<>> => now[<<k>>] = Final(n)
    BY <1>1, CarryIs
<1>5. /\ b = <<>> => Trouble(compared[c], k) = {} /\ WorstOf(compared[c], k) = 0
      /\ b # <<>> => /\ Trouble(compared[c], k) = {Final(b)} \ {"OK"} /\ Final(b) \in Statuses4
                     /\ WorstOf(compared[c], k) = Severity(Final(b))
  <2>1. c \in Clusters /\ k \in Keys /\ compared \in [Clusters -> Reports]
    BY <1>1
  <2>2. b # <<>> => Final(b) \in Statuses4
    BY <2>1, OneIs
  <2>3. /\ b = <<>> => Trouble(compared[c], k) = {} /\ WorstOf(compared[c], k) = 0
        /\ b # <<>> => /\ Trouble(compared[c], k) = {Final(b)} \ {"OK"}
                       /\ WorstOf(compared[c], k) = Severity(Final(b))
    BY <2>1, TroubleIs
  <2>4. QED
    BY <2>2, <2>3
<1>6. /\ n = <<>> => Trouble(reports[c], k) = {} /\ WorstOf(reports[c], k) = 0
      /\ n # <<>> => /\ Trouble(reports[c], k) = {Final(n)} \ {"OK"} /\ Final(n) \in Statuses4
                     /\ WorstOf(reports[c], k) = Severity(Final(n))
  <2>1. c \in Clusters /\ k \in Keys /\ reports \in [Clusters -> Reports]
    BY <1>1
  <2>2. n # <<>> => Final(n) \in Statuses4
    BY <2>1, OneIs
  <2>3. /\ n = <<>> => Trouble(reports[c], k) = {} /\ WorstOf(reports[c], k) = 0
        /\ n # <<>> => /\ Trouble(reports[c], k) = {Final(n)} \ {"OK"}
                       /\ WorstOf(reports[c], k) = Severity(Final(n))
    BY <2>1, TroubleIs
  <2>4. QED
    BY <2>2, <2>3
<1> DEFINE all == Moved(before, now)
           named == <<k>> \in DOMAIN all
<1>7. /\ named <=> \/ n # <<>> /\ b = <<>> /\ Final(n) # "OK"
                   \/ n # <<>> /\ b # <<>> /\ Final(n) # Final(b)
                   \/ b # <<>> /\ n = <<>> /\ Final(b) # "OK"
      /\ named => all[<<k>>] = IF b = <<>> THEN "appeared"
                               ELSE IF n = <<>> THEN "cleared" ELSE Direction(Final(b), Final(n))
  <2> HIDE DEF before, now
  <2>1. QED
    BY <1>3, <1>4, MovedIs
<1> HIDE DEF before, now, all, b, n
<1>8. named <=> Trouble(compared[c], k) # Trouble(reports[c], k)
  <2>1. CASE b = <<>>
    BY <1>5, <1>6, <1>7, <2>1
  <2>2. CASE b # <<>> /\ n = <<>>
    BY <1>5, <1>6, <1>7, <2>2
  <2>3. CASE b # <<>> /\ n # <<>>
    <3> DEFINE sb == Final(b)
               sn == Final(n)
    <3>1. named <=> sn # sb
      BY <1>7, <2>3
    <3>2. Trouble(compared[c], k) = {sb} \ {"OK"} /\ Trouble(reports[c], k) = {sn} \ {"OK"}
      BY <1>5, <1>6, <2>3
    <3> HIDE DEF sb, sn, named
    <3>3. {sb} \ {"OK"} # {sn} \ {"OK"} <=> sn # sb
      OBVIOUS
    <3>4. QED
      BY <3>1, <3>2, <3>3
  <2>4. QED
    BY <2>1, <2>2, <2>3
<1>9. ASSUME named
      PROVE  all[<<k>>] \in {"got worse", "appeared"} <=> WorstOf(reports[c], k) > WorstOf(compared[c], k)
  <2>1. \A st \in Statuses4 : Severity(st) \in 0..3 /\ (st # "OK" => Severity(st) > 0)
    BY SeverityIs DEF Statuses4
  <2>2. CASE b = <<>>
    BY <1>5, <1>6, <1>7, <1>9, <2>1, <2>2
  <2>3. CASE b # <<>> /\ n = <<>>
    BY <1>5, <1>6, <1>7, <1>9, <2>1, <2>3
  <2>4. CASE b # <<>> /\ n # <<>>
    <3>1. all[<<k>>] = Direction(Final(b), Final(n))
      BY <1>7, <1>9, <2>4
    <3>2. Final(b) \in Statuses4 /\ Final(n) \in Statuses4
      BY <1>5, <1>6, <2>4
    <3>3. /\ WorstOf(reports[c], k) = Severity(Final(n))
          /\ WorstOf(compared[c], k) = Severity(Final(b))
      BY <1>5, <1>6, <2>4
    <3>4. QED
      BY <3>1, <3>2, <3>3, DirectionIs
  <2>5. QED
    BY <2>2, <2>3, <2>4
<1>10. QED
    BY <1>2, <1>8, <1>9 DEF all

-----------------------------------------------------------------------------
IInv == Types /\ Carried /\ Summed /\ Watched /\ Lined

LEMMA Invariant == Spec => []IInv
<1>1. Init => IInv
  <2>1. Init => Lined
    BY EmptyIsMap DEF Init, Lined
  <2>2. QED
    BY <2>1, InitAll DEF IInv
<1>2. IInv /\ [Next]_vars => IInv'
    BY TypesStep, CarriedStep, SummedStep, WatchedStep, LinedStep DEF IInv
<1>3. QED
    BY <1>1, <1>2, PTL DEF Spec

(***************************************************************************)
(* Every variable keeps to its type: no map holds anything but statuses    *)
(* under the keys of the configured clusters, whatever was lost, killed or *)
(* deleted on the way.                                                     *)
(***************************************************************************)
THEOREM TypeCorrect == Spec => []TypeOK
<1>1. IInv => TypeOK
  <2> SUFFICES ASSUME IInv PROVE TypeOK
    OBVIOUS
  <2>1. IsMap(file.map) /\ IsMap(prev.map) /\ IsMap(merged)
    BY HoldsIsMap DEF IInv, Types, Carried
  <2>2. IsMap(statuses)
    BY StatusesTyped DEF IInv
  <2>3. ASSUME NEW c \in Clusters
        PROVE  /\ \A k \in Keys : health[c][k] \in VerdictsOf[k]
               /\ IsReport(reports[c]) /\ IsReport(compared[c])
               /\ IsReport(filed[c]) /\ IsReport(ticked[c])
    BY DEF IInv, Types, Reports
  <2>4. QED
    BY <2>1, <2>2, <2>3 DEF IInv, Types, Lined, TypeOK
<1>2. QED
    BY Invariant, <1>1, PTL

(***************************************************************************)
(* Whoever read the first report of a watch and every line since knows the *)
(* status of every key of the last tick (one finding under a key).         *)
(***************************************************************************)
THEOREM WatcherIsTold == ASSUME OneFinding PROVE Spec => []WatcherKnows
<1>1. Init => Agreed
    BY DEF Init, Agreed
<1>2. IInv /\ Agreed /\ [Next]_vars => Agreed'
    BY AgreedStep DEF IInv
<1>3. IInv /\ Agreed => WatcherKnows
    BY KnowsAll DEF IInv
<1>4. QED
    BY Invariant, <1>1, <1>2, <1>3, PTL DEF Spec

(***************************************************************************)
(* A tick whose reports are those of the tick before prints nothing (one   *)
(* finding under a key).                                                   *)
(***************************************************************************)
THEOREM QuietTicks == ASSUME OneFinding PROVE Spec => []QuietTick
<1>1. Init => QuietTick
    BY DEF Init, QuietTick
<1>2. IInv /\ QuietTick /\ [Next]_vars => QuietTick'
    BY QuietStep DEF IInv
<1>3. QED
    BY Invariant, <1>1, <1>2, PTL DEF Spec

(***************************************************************************)
(* The transition summary names a check exactly when what is wrong under   *)
(* it differs from the run whose state was the baseline, and says which    *)
(* way, whichever process that run was of (one finding under a key).       *)
(***************************************************************************)
THEOREM ChangesTold == ASSUME OneFinding PROVE Spec => []ChangesAreTrue
<1>1. IInv => ChangesAreTrue
    BY ChangesTrue DEF IInv
<1>2. QED
    BY Invariant, <1>1, PTL
=============================================================================
