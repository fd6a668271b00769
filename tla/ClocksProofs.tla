---------------------------- MODULE ClocksProofs -----------------------------
(***************************************************************************)
(* What is reported of times is what it really is, to within what the code *)
(* cannot know: for any number of nodes, any clocks, any thresholds and    *)
(* any bounds.                                                             *)
(***************************************************************************)
EXTENDS Clocks, FiniteSetTheorems, WellFoundedInduction, TLAPS

USE ClocksAssumption

-----------------------------------------------------------------------------
(***************************************************************************)
(* The extremes of finitely many integers.                                 *)
(***************************************************************************)

(***************************************************************************)
(* One of finitely many numbers is the largest.  A smallest set without a  *)
(* largest number would lose one element and have one.                     *)
(***************************************************************************)
LEMMA LargestExists ==
    ASSUME NEW S, IsFiniteSet(S), S # {},
           NEW f, \A n \in S : f[n] \in Int
    PROVE  \E m \in S : \A n \in S : f[n] <= f[m]
<1> DEFINE Largest(X) == \E m \in X : \A n \in X : f[n] <= f[m]
           T == {X \in FiniteSubsetsOf(S) : X # {} /\ ~Largest(X)}
           R == StrictSubsetOrdering(S)
<1>1. SUFFICES ASSUME ~Largest(S) PROVE FALSE
    OBVIOUS
<1>2. S \in T
    BY <1>1 DEF FiniteSubsetsOf
<1>3. \E X \in T : \A Y \in T : <<Y, X>> \notin R
  <2>1. IsWellFoundedOn(R, FiniteSubsetsOf(S))
    BY FS_StrictSubsetOrderingWellFounded
  <2>2. T \subseteq FiniteSubsetsOf(S)
    OBVIOUS
  <2> HIDE DEF T, R
  <2>3. QED
    BY <1>2, <2>1, <2>2, WFMin
<1>4. PICK X \in T : \A Y \in T : <<Y, X>> \notin R
    BY <1>3
<1>5. X \subseteq S /\ IsFiniteSet(X) /\ X # {} /\ ~Largest(X)
    BY <1>4 DEF FiniteSubsetsOf
<1>6. PICK x \in X : TRUE
    BY <1>5
<1> DEFINE Y == X \ {x}
<1>7. Y \in FiniteSubsetsOf(S)
    BY <1>5, FS_Subset DEF FiniteSubsetsOf
<1>8. <<Y, X>> \in R
    BY <1>5, <1>6 DEF StrictSubsetOrdering
<1>9. Y # {}
    BY <1>5, <1>6
<1>10. Largest(Y)
    BY <1>4, <1>7, <1>8, <1>9
<1>11. PICK m \in Y : \A n \in Y : f[n] <= f[m]
    BY <1>10
<1>12. CASE f[x] <= f[m]
    BY <1>5, <1>11, <1>12
<1>13. CASE ~(f[x] <= f[m])
    BY <1>5, <1>6, <1>11, <1>13
<1>14. QED
    BY <1>12, <1>13

(***************************************************************************)
(* Max and Min of the values of a function on a finite set are two of      *)
(* them, and the others are between.                                       *)
(***************************************************************************)
LEMMA MaxOfValues ==
    ASSUME NEW S, IsFiniteSet(S), S # {},
           NEW f, \A n \in S : f[n] \in Int
    PROVE  \E m \in S : Max({f[n] : n \in S}) = f[m] /\ \A n \in S : f[n] <= f[m]
<1> DEFINE V == {f[n] : n \in S}
<1>1. \E x \in V : \A y \in V : x >= y
  <2>1. PICK m \in S : \A n \in S : f[n] <= f[m]
    BY LargestExists
  <2>2. QED
    BY <2>1
<1>2. Max(V) \in V /\ \A y \in V : Max(V) >= y
    BY <1>1 DEF Max
<1>3. QED
    BY <1>2

LEMMA MinOfValues ==
    ASSUME NEW S, IsFiniteSet(S), S # {},
           NEW f, \A n \in S : f[n] \in Int
    PROVE  \E m \in S : Min({f[n] : n \in S}) = f[m] /\ \A n \in S : f[m] <= f[n]
<1> DEFINE V == {f[n] : n \in S}
           g == [n \in S |-> -f[n]]
<1>1. \E x \in V : \A y \in V : x =< y
  <2>1. \A n \in S : g[n] \in Int
    OBVIOUS
  <2> HIDE DEF g
  <2>2. PICK m \in S : \A n \in S : g[n] <= g[m]
    BY <2>1, LargestExists
  <2>3. \A n \in S : f[m] <= f[n]
    BY <2>2 DEF g
  <2>4. QED
    BY <2>3
<1>2. Min(V) \in V /\ \A y \in V : Min(V) =< y
    BY <1>1 DEF Min
<1>3. QED
    BY <1>2

-----------------------------------------------------------------------------
(***************************************************************************)
(* The inductive invariant.                                                *)
(***************************************************************************)
Records == [form : Forms, value : Int, by : Nodes, done : Int]

\* What a server wrote.
WrittenBy(b) == b \in Records /\ b.value = Written(b.form, b.done + skew[b.by])

Snaps == [at : Int, clock : SUBSET Int, started : SUBSET Int]
Answers == [now : SUBSET Int, at : SUBSET Int, err : BOOLEAN]
Truths == [stamped : [Nodes -> Nat], told : [Nodes -> Nat], began : Int,
           server : 0..N, asked : Nat, host : Int, record : SUBSET Records]

Typed ==
    /\ now \in Nat /\ deadline \in Nat /\ host \in Int /\ optNow \in Int
    /\ steps \in Nat /\ steps <= MaxSteps
    /\ skew \in [Nodes -> Skews] /\ skew \in [Nodes -> Int]
    /\ open \in [Nodes -> SUBSET Int]
    /\ declared \in [warn : Int, bad : Int]
    /\ pc \in {"refused", "collect", "backup", "audit", "end"}
    /\ stage \in [Nodes -> {"ping", "clock", "rest", "read", "failed"}]
    /\ snap \in [Nodes -> Snaps]
    /\ asking \in 0..N /\ (pc = "backup" => asking \in Nodes)
    /\ answer \in Answers
    /\ truth \in Truths

\* The thresholds are in order unless the configuration was refused, which the
\* defaults alone never are.
Thresholded ==
    /\ pc # "refused" => Accepted(declared)
    /\ pc = "refused" => declared.bad # 0 \/ declared.warn < 0

\* The world's record is one that was written; the time is not up for longer than
\* a node is given.
World ==
    /\ now <= deadline
    /\ record = {} \/ \E b \in Records : WrittenBy(b) /\ record = {b}

\* The error of the host's clock when node n was stamped.
StampError(n) == snap[n].at - truth.stamped[n]
Stamped == {n \in Nodes : stage[n] \in {"clock", "rest", "read"}}
Drifted == steps * StepSize

\* A stamp is off by what the host's clock was then, a server's answer by its own
\* error; and it came after the stamp.
Readings ==
    /\ optNow = truth.began
    /\ \A n \in Nodes : \/ snap[n].started = {}
                        \/ snap[n].started = {Written("datetime", t + skew[n]) : t \in open[n]}
    /\ \A n \in Nodes : stage[n] \in {"ping", "clock"} => snap[n].clock = {}
    /\ \A n \in Stamped :
          /\ truth.stamped[n] <= now
          /\ StampError(n) - host <= Drifted /\ host - StampError(n) <= Drifted
          /\ snap[n].clock # {} => /\ snap[n].clock = {truth.told[n] + skew[n]}
                                   /\ truth.stamped[n] <= truth.told[n]
    /\ \A n, m \in Stamped : StampError(n) - StampError(m) <= Drifted

\* The error of the clock the age of a backup is measured on.
AskedError == IF truth.server # 0 THEN skew[truth.server] ELSE truth.host

\* An answer is of the clock that was asked, and of the record there was.
Answered ==
    /\ answer.now = {} \/ answer.now = {truth.asked + AskedError}
    /\ truth.asked <= now
    /\ pc \in {"refused", "collect", "backup"} => truth.record = {}
    /\ truth.record = {} => answer.at = {}
    /\ truth.record # {} =>
          \E b \in Records : /\ WrittenBy(b) /\ b.form # "text"
                             /\ truth.record = {b} /\ answer.at = {b.value}
                             /\ answer.now # {} /\ ~answer.err /\ asking # 0

\* The report is made of the readings, which do not change any more.
Reported ==
    /\ pc # "end" => report = NoReport
    /\ pc = "end" => report = [clock |-> ClockSkew, long |-> LongRunning,
                               backup |-> BackupFreshness, future |-> \E a \in Ages : a < 0]

IInv == Typed /\ Thresholded /\ World /\ Readings /\ Answered /\ Reported

-----------------------------------------------------------------------------
(***************************************************************************)
(* It holds of the initial states.                                         *)
(***************************************************************************)
LEMMA AcceptedDefaults ==
    ASSUME NEW d \in [warn : Int, bad : Int], d.bad = 0, ~(d.warn < 0)
    PROVE  Accepted(d)
BY DEF Accepted, Thresholds

LEMMA InitTyped == Init => Typed
<1> SUFFICES ASSUME Init PROVE Typed
    OBVIOUS
<1>1. /\ now = 0 /\ steps = 0 /\ host \in HostErrors /\ skew \in [Nodes -> Skews]
      /\ optNow \in Int /\ deadline = Timeout
    BY DEF Init, HostClock
<1>2. open \in [Nodes -> SUBSET Int]
    BY DEF Init, BeginCollect, BeginBackup
<1>3. declared \in [warn : Int, bad : Int] /\ asking \in 0..N
    BY DEF Init, BeginCollect, BeginBackup
<1>4. /\ pc \in {"refused", "collect", "backup", "audit", "end"}
      /\ pc = "backup" => asking \in Nodes
    BY DEF Init, BeginCollect, BeginBackup, Nodes
<1>5. /\ stage \in [Nodes -> {"ping", "clock", "rest", "read", "failed"}]
      /\ snap \in [Nodes -> Snaps] /\ answer \in Answers
  <2>1. NoSnap \in Snaps /\ NoAnswer \in Answers
    BY DEF NoSnap, NoAnswer, Snaps, Answers
  <2>2. /\ stage = [n \in Nodes |-> "ping"] /\ snap = [n \in Nodes |-> NoSnap]
        /\ answer = NoAnswer
    BY DEF Init
  <2>3. QED
    BY <2>1, <2>2
<1>6. truth \in Truths
  <2>1. host \in Int
    BY <1>1
  <2>2. truth = [stamped |-> [n \in Nodes |-> 0], told |-> [n \in Nodes |-> 0], began |-> host,
                 server |-> 0, asked |-> 0, host |-> 0, record |-> {}]
    BY DEF Init
  <2> DEFINE zero == [n \in Nodes |-> 0]
  <2>3. zero \in [Nodes -> Nat] /\ 0 \in 0..N /\ {} \in SUBSET Records
    OBVIOUS
  <2> HIDE DEF zero
  <2>4. truth = [stamped |-> zero, told |-> zero, began |-> host,
                 server |-> 0, asked |-> 0, host |-> 0, record |-> {}]
    BY <2>2 DEF zero
  <2>5. QED
    BY <2>1, <2>3, <2>4 DEF Truths
<1>7. now \in Nat /\ deadline \in Nat /\ host \in Int /\ steps \in Nat /\ steps <= MaxSteps
  <2>1. now = 0 /\ steps = 0 /\ deadline = Timeout /\ host \in HostErrors
    BY <1>1
  <2>2. Timeout \in Nat /\ MaxSteps \in Nat /\ HostErrors \subseteq Int
    OBVIOUS
  <2>3. QED
    BY <2>1, <2>2
<1>8. skew \in [Nodes -> Int]
    BY <1>1, Skews \subseteq Int
<1>9. QED
    BY <1>1, <1>2, <1>3, <1>4, <1>5, <1>6, <1>7, <1>8 DEF Typed

LEMMA BackupWritten ==
    ASSUME Typed, NEW f \in Forms, NEW w \in Nodes, NEW t \in Int
    PROVE  WrittenBy(Backup(f, w, t))
<1> DEFINE v == Written(f, t + skew[w])
<1>1. skew[w] \in Int
  BY DEF Typed
<1>2. v \in Int
  BY <1>1 DEF Written
<1> HIDE DEF v
<1>3. Backup(f, w, t) = [form |-> f, value |-> v, by |-> w, done |-> t]
  BY DEF Backup, v
<1>4. QED
  BY <1>2, <1>3 DEF WrittenBy, Records, v

LEMMA InitInvariant == Init => IInv
<1> SUFFICES ASSUME Init PROVE IInv
    OBVIOUS
<1>1. Typed
    BY InitTyped
<1>2. Thresholded
  <2>1. CASE BeginCollect
    BY <2>1, AcceptedDefaults DEF Thresholded, BeginCollect
  <2>2. CASE BeginBackup
    BY <2>2, <1>1, AcceptedDefaults DEF Thresholded, BeginBackup, Typed
  <2>3. QED
    BY <2>1, <2>2 DEF Init
<1>3. World
  <2>1. now <= deadline
    BY DEF Init
  <2>2. CASE BeginCollect
    BY <2>1, <2>2 DEF World, BeginCollect
  <2>3. CASE BeginBackup
    <3>1. CASE record = {}
      BY <2>1, <3>1 DEF World
    <3>2. CASE record # {}
      <4>1. PICK f \in Forms, w \in Nodes, t \in Before : record = {Backup(f, w, t)}
        BY <2>3, <3>2 DEF BeginBackup
      <4>2. WrittenBy(Backup(f, w, t))
        BY <1>1, BackupWritten
      <4>3. QED
        BY <2>1, <4>1, <4>2 DEF World, WrittenBy
    <3>3. QED
      BY <3>1, <3>2
  <2>4. QED
    BY <2>2, <2>3 DEF Init
<1>4. Readings
  <2>1. optNow = truth.began
    BY <1>1 DEF Init, HostClock, Typed
  <2>2. \A n \in Nodes : snap[n].started = {} /\ snap[n].clock = {}
    BY DEF Init, NoSnap
  <2>3. Stamped = {}
    BY DEF Init, Stamped
  <2>4. QED
    BY <2>1, <2>2, <2>3 DEF Readings
<1>5. Answered
  <2>1. answer.now = {} /\ answer.at = {} /\ truth.record = {} /\ truth.asked = 0 /\ now = 0
    BY DEF Init, NoAnswer
  <2>2. QED
    BY <2>1 DEF Answered
<1>6. Reported
    BY DEF Reported, Init, BeginCollect, BeginBackup
<1>7. QED
    BY <1>1, <1>2, <1>3, <1>4, <1>5, <1>6 DEF IInv

-----------------------------------------------------------------------------
(***************************************************************************)
(* Every step keeps it.                                                    *)
(***************************************************************************)
LEMMA SnapTypes ==
    ASSUME Typed, NEW n \in Nodes
    PROVE  /\ \A a \in Int : [snap EXCEPT ![n].at = a] \in [Nodes -> Snaps]
           /\ \A ts \in SUBSET Int : [snap EXCEPT ![n].clock = ts] \in [Nodes -> Snaps]
           /\ \A ts \in SUBSET Int : [snap EXCEPT ![n].started = ts] \in [Nodes -> Snaps]
<1>1. snap \in [Nodes -> Snaps] /\ snap[n] \in Snaps
    BY DEF Typed
<1>2. ASSUME NEW a \in Int PROVE [snap[n] EXCEPT !.at = a] \in Snaps
    BY <1>1 DEF Snaps
<1>3. ASSUME NEW ts \in SUBSET Int
      PROVE  [snap[n] EXCEPT !.clock = ts] \in Snaps /\ [snap[n] EXCEPT !.started = ts] \in Snaps
    BY <1>1 DEF Snaps
<1>4. QED
    BY <1>1, <1>2, <1>3

LEMMA TruthTypes ==
    ASSUME Typed
    PROVE  /\ \A n \in Nodes : /\ [truth EXCEPT !.stamped[n] = now] \in Truths
                               /\ [truth EXCEPT !.told[n] = now] \in Truths
           /\ \A i \in 0..N : /\ [truth EXCEPT !.server = i, !.asked = now] \in Truths
                              /\ [truth EXCEPT !.server = i, !.asked = now, !.host = host] \in Truths
BY DEF Typed, Truths

LEMMA ClocksAreNumbers ==
    ASSUME Typed
    PROVE  /\ HostClock \in Int
           /\ \A n \in Nodes : ServerClock(n) \in Int /\ skew[n] \in Int
BY DEF Typed, HostClock, ServerClock

LEMMA StepTyped == Typed /\ World /\ [Next]_vars => Typed'
<1> SUFFICES ASSUME Typed, World, [Next]_vars PROVE Typed'
    OBVIOUS
<1>1. CASE Tick
    BY <1>1 DEF Tick, program, Typed
<1>2. CASE SetClock
    BY <1>2 DEF SetClock, program, Typed
<1>3. CASE BackupFinishes
    BY <1>3 DEF BackupFinishes, program, Typed
<1>4. ASSUME NEW n \in Nodes, Stamp(n) PROVE Typed'
  <2>1. /\ snap' = [snap EXCEPT ![n].at = HostClock] /\ truth' = [truth EXCEPT !.stamped[n] = now]
        /\ stage' = [stage EXCEPT ![n] = "clock"]
        /\ UNCHANGED <<now, host, skew, steps, open, declared, pc, deadline, optNow, asking, answer>>
    BY <1>4 DEF Stamp, Collecting, world
  <2>2. snap' \in [Nodes -> Snaps] /\ truth' \in Truths
    BY <2>1, SnapTypes, TruthTypes, ClocksAreNumbers
  <2>3. QED
    BY <2>1, <2>2 DEF Typed
<1>5. ASSUME NEW n \in Nodes, TellClock(n) PROVE Typed'
  <2>1. /\ snap' = snap \/ snap' = [snap EXCEPT ![n].clock = {ServerClock(n)}]
        /\ truth' = truth \/ truth' = [truth EXCEPT !.told[n] = now]
        /\ stage' = [stage EXCEPT ![n] = "rest"]
        /\ UNCHANGED <<now, host, skew, steps, open, declared, pc, deadline, optNow, asking, answer>>
    BY <1>5 DEF TellClock, Collecting, world
  <2>2. snap \in [Nodes -> Snaps] /\ truth \in Truths
    BY DEF Typed
  <2>3. snap' \in [Nodes -> Snaps]
    <3> DEFINE told == {ServerClock(n)}
    <3>1. told \in SUBSET Int
      BY ClocksAreNumbers
    <3>2. snap' = snap \/ snap' = [snap EXCEPT ![n].clock = told]
      BY <2>1
    <3> HIDE DEF told
    <3>3. [snap EXCEPT ![n].clock = told] \in [Nodes -> Snaps]
      BY <3>1, SnapTypes
    <3>4. QED
      BY <2>2, <3>2, <3>3
  <2>4. truth' \in Truths
    BY <2>1, <2>2, TruthTypes
  <2>5. QED
    BY <2>1, <2>3, <2>4 DEF Typed
<1>6. ASSUME NEW n \in Nodes, TellRest(n) PROVE Typed'
  <2> DEFINE times == {Written("datetime", t + skew[n]) : t \in open[n]}
  <2>1. times \in SUBSET Int
    <3>1. skew[n] \in Int /\ open[n] \in SUBSET Int
      BY DEF Typed
    <3>2. QED
      BY <3>1 DEF Written
  <2>2. /\ snap' = snap \/ snap' = [snap EXCEPT ![n].started = times]
        /\ stage' = [stage EXCEPT ![n] = "read"]
        /\ UNCHANGED <<now, host, skew, steps, open, declared, pc, deadline, optNow, asking,
                       answer, truth>>
    BY <1>6 DEF TellRest, Collecting, world
  <2> HIDE DEF times
  <2>3. snap' \in [Nodes -> Snaps]
    BY <2>1, <2>2, SnapTypes DEF Typed
  <2>4. QED
    BY <2>2, <2>3 DEF Typed
<1>7. ASSUME NEW n \in Nodes, Fail(n) PROVE Typed'
    BY <1>7 DEF Fail, Collecting, world, Typed
<1>8. CASE Return
    BY <1>8 DEF Return, world, Typed
<1>9. CASE AskClock
  <2>1. asking \in Nodes
    BY <1>9 DEF AskClock, Asking, Typed
  <2>2. /\ \E t \in {ServerClock(asking), HostClock} : answer' = [answer EXCEPT !.now = {t}]
        /\ \/ truth' = [truth EXCEPT !.server = asking, !.asked = now]
           \/ truth' = [truth EXCEPT !.server = 0, !.asked = now, !.host = host]
        /\ UNCHANGED <<now, host, skew, steps, open, declared, pc, deadline, optNow, stage, snap,
                       asking>>
    BY <1>9 DEF AskClock, Asking, world
  <2>3. answer' \in Answers
    BY <2>1, <2>2, ClocksAreNumbers DEF Typed, Answers
  <2>4. truth' \in Truths
    <3>1. asking \in 0..N /\ 0 \in 0..N
      BY DEF Typed
    <3>2. QED
      BY <2>1, <2>2, <3>1, TruthTypes
  <2>5. QED
    BY <2>2, <2>3, <2>4 DEF Typed
<1>10. CASE AskRow
  <2>1. record \in SUBSET Records
    BY DEF World
  <2>2. UNION {ParseWhen(b.form, b.value) : b \in record} \in SUBSET Int
    BY <2>1 DEF ParseWhen, Records
  <2>3. /\ truth' = truth \/ truth' = [truth EXCEPT !.record = record]
        /\ pc' \in {pc, "audit"}
        /\ \/ asking' = asking /\ deadline' = deadline
           \/ asking < N /\ asking' = asking + 1 /\ deadline' = now + Timeout
        /\ UNCHANGED <<now, host, skew, steps, open, declared, optNow, stage, snap>>
    BY <1>10 DEF AskRow, Asking, NoTime, world
  <2>4. \/ answer' \in {answer, NoAnswer}
        \/ answer' = [answer EXCEPT !.err = FALSE,
                         !.at = UNION {ParseWhen(b.form, b.value) : b \in record}]
    BY <1>10 DEF AskRow, NoTime
  <2>5. answer' \in Answers
    <3> DEFINE times == UNION {ParseWhen(b.form, b.value) : b \in record}
    <3>1. times \in SUBSET Int
      BY <2>2
    <3>2. answer' \in {answer, NoAnswer} \/ answer' = [answer EXCEPT !.err = FALSE, !.at = times]
      BY <2>4
    <3>3. answer \in Answers /\ NoAnswer \in Answers
      BY DEF Typed, NoAnswer, Answers
    <3> HIDE DEF times
    <3>4. QED
      BY <3>1, <3>2, <3>3 DEF Answers
  <2>6. truth' \in Truths
    BY <2>1, <2>3 DEF Typed, Truths
  <2>7. asking' \in 0..N /\ (pc' = "backup" => asking' \in Nodes)
    <3>1. asking \in Nodes
      BY <1>10 DEF AskRow, Asking, Typed
    <3>2. asking' \in Nodes
      BY <2>3, <3>1 DEF Nodes
    <3>3. QED
      BY <3>2 DEF Nodes
  <2>8. QED
    BY <2>3, <2>5, <2>6, <2>7 DEF Typed
<1>11. CASE Audit
    BY <1>11 DEF Audit, world, Typed
<1>12. CASE Done \/ UNCHANGED vars
    BY <1>12 DEF Done, vars, Typed
<1>13. QED
    BY <1>1, <1>2, <1>3, <1>4, <1>5, <1>6, <1>7, <1>8, <1>9, <1>10, <1>11, <1>12 DEF Next

(***************************************************************************)
(* A configuration is not changed, and only what is accepted goes on.      *)
(***************************************************************************)
LEMMA StepThresholded == Thresholded /\ [Next]_vars => Thresholded'
<1> SUFFICES ASSUME Thresholded, [Next]_vars PROVE Thresholded'
    OBVIOUS
<1>1. declared' = declared
    BY DEF Next, vars, Tick, SetClock, BackupFinishes, program, Stamp, TellClock, TellRest, Fail,
           Collecting, Return, AskClock, AskRow, Asking, Audit, Done
<1>2. pc' = "refused" <=> pc = "refused"
    BY DEF Next, vars, Tick, SetClock, BackupFinishes, program, Stamp, TellClock, TellRest, Fail,
           Collecting, Return, AskClock, AskRow, Asking, NoTime, Audit, Done
<1>3. QED
    BY <1>1, <1>2 DEF Thresholded, Accepted, Thresholds

LEMMA StepWorld == Typed /\ World /\ [Next]_vars => World'
<1> SUFFICES ASSUME Typed, World, [Next]_vars PROVE World'
    OBVIOUS
<1>1. now' <= deadline'
  <2>1. CASE Tick
    BY <2>1 DEF Tick, program, Typed
  <2>2. CASE ~Tick
    <3>1. now' = now
      BY <2>2 DEF Next, vars, SetClock, BackupFinishes, Stamp, TellClock, TellRest, Fail,
                  Collecting, Return, AskClock, AskRow, Asking, Audit, Done, world
    <3>2. deadline' = deadline \/ deadline' = now + Timeout
      BY <2>2 DEF Next, vars, SetClock, BackupFinishes, program, Stamp, TellClock, TellRest, Fail,
                  Collecting, Return, AskClock, AskRow, NoTime, Audit, Done
    <3>3. QED
      BY <3>1, <3>2 DEF World, Typed
  <2>3. QED
    BY <2>1, <2>2
<1>2. skew' = skew
    BY DEF Next, vars, Tick, SetClock, BackupFinishes, Stamp, TellClock, TellRest, Fail,
           Collecting, Return, AskClock, AskRow, Asking, Audit, Done, world
<1>3. \A b \in Records : WrittenBy(b) => WrittenBy(b)'
    BY <1>2 DEF WrittenBy
<1>4. CASE BackupFinishes
  <2>1. PICK f \in Forms, w \in Nodes : record' = {Backup(f, w, now)}
    BY <1>4 DEF BackupFinishes
  <2>2. now \in Int
    BY DEF Typed
  <2>3. WrittenBy(Backup(f, w, now))
    BY <2>2, BackupWritten
  <2>4. Backup(f, w, now) \in Records
    BY <2>3 DEF WrittenBy
  <2>5. QED
    BY <1>1, <1>3, <2>1, <2>3, <2>4 DEF World
<1>5. CASE ~BackupFinishes
  <2>1. record' = record
    BY <1>5 DEF Next, vars, Tick, SetClock, Stamp, TellClock, TellRest, Fail,
                Collecting, Return, AskClock, AskRow, Asking, Audit, Done, world
  <2>2. QED
    BY <1>1, <1>3, <2>1 DEF World
<1>6. QED
    BY <1>4, <1>5

(***************************************************************************)
(* What the readings are about stays as it was where nobody is read.       *)
(***************************************************************************)
LEMMA DriftedGrows ==
    ASSUME Typed
    PROVE  /\ Drifted \in Nat
           /\ steps' = steps + 1 => Drifted' = Drifted + StepSize
BY DEF Typed, Drifted

LEMMA SameReadings ==
    ASSUME Readings,
           UNCHANGED <<now, host, skew, steps, open, optNow, stage, snap>>,
           truth'.stamped = truth.stamped, truth'.told = truth.told, truth'.began = truth.began
    PROVE  Readings'
<1>1. Stamped' = Stamped /\ Drifted' = Drifted
    BY DEF Stamped, Drifted
<1>2. \A n \in Nodes : StampError(n)' = StampError(n)
    BY DEF StampError
<1>3. Stamped \subseteq Nodes
    BY DEF Stamped
<1>4. QED
    BY <1>1, <1>2, <1>3 DEF Readings

LEMMA StepReadings == Typed /\ Readings /\ [Next]_vars => Readings'
<1> SUFFICES ASSUME Typed, Readings, [Next]_vars PROVE Readings'
    OBVIOUS
<1>0. /\ Stamped \subseteq Nodes /\ now \in Nat /\ host \in Int
      /\ snap \in [Nodes -> Snaps] /\ truth \in Truths /\ skew \in [Nodes -> Int]
      /\ Drifted \in Nat
      /\ \A m \in Nodes : /\ StampError(m) \in Int /\ truth.stamped[m] \in Nat
                          /\ truth.told[m] \in Nat /\ skew[m] \in Int
    BY DriftedGrows DEF Stamped, Typed, Snaps, Truths, StampError
<1>1. CASE Tick
  <2>1. /\ now' = now + 1
        /\ UNCHANGED <<host, skew, steps, open, optNow, stage, snap, truth>>
    BY <1>1 DEF Tick, program
  <2>2. Stamped' = Stamped /\ Drifted' = Drifted /\ \A n \in Nodes : StampError(n)' = StampError(n)
    BY <2>1 DEF Stamped, Drifted, StampError
  <2>3. \A n \in Stamped : truth.stamped[n] <= now'
    BY <1>0, <2>1 DEF Readings
  <2>4. QED
    BY <1>0, <2>1, <2>2, <2>3 DEF Readings
<1>2. CASE SetClock
  <2>1. /\ steps' = steps + 1
        /\ UNCHANGED <<now, skew, open, optNow, stage, snap, truth>>
        /\ host' = host + StepSize \/ host' = host + (-StepSize)
    BY <1>2 DEF SetClock, program
  <2>2. Stamped' = Stamped /\ \A n \in Nodes : StampError(n)' = StampError(n)
    BY <2>1 DEF Stamped, StampError
  <2>3. Drifted' = Drifted + StepSize
    BY <2>1, DriftedGrows
  <2>4. \A n \in Stamped : StampError(n) - host' <= Drifted' /\ host' - StampError(n) <= Drifted'
    BY <1>0, <2>1, <2>3 DEF Readings
  <2>5. \A n, m \in Stamped : StampError(n) - StampError(m) <= Drifted'
    BY <1>0, <2>3 DEF Readings
  <2>6. QED
    BY <1>0, <2>1, <2>2, <2>4, <2>5 DEF Readings
<1>3. CASE BackupFinishes
    BY <1>3, SameReadings DEF BackupFinishes, program
<1>4. ASSUME NEW n \in Nodes, Stamp(n) PROVE Readings'
  <2>1. /\ stage[n] = "ping" /\ stage' = [stage EXCEPT ![n] = "clock"]
        /\ snap' = [snap EXCEPT ![n].at = HostClock]
        /\ truth' = [truth EXCEPT !.stamped[n] = now]
        /\ UNCHANGED <<now, host, skew, steps, open, optNow>>
    BY <1>4 DEF Stamp, Collecting, world
  <2>2. /\ Stamped' = Stamped \cup {n} /\ n \notin Stamped
        /\ Drifted' = Drifted
    BY <2>1 DEF Stamped, Drifted, Typed
  <2>3. /\ truth'.told = truth.told /\ truth'.began = truth.began
        /\ truth'.stamped = [truth.stamped EXCEPT ![n] = now]
    BY <1>0, <2>1 DEF Truths
  <2>4. /\ \A m \in Nodes : snap'[m].clock = snap[m].clock /\ snap'[m].started = snap[m].started
        /\ \A m \in Nodes \ {n} : snap'[m] = snap[m]
        /\ snap'[n].at = HostClock
    BY <1>0, <2>1 DEF Snaps
  <2>5. truth'.stamped[n] = now /\ \A m \in Nodes \ {n} : truth'.stamped[m] = truth.stamped[m]
    BY <1>0, <2>3 DEF Truths
  <2>6. StampError(n)' = host
    BY <1>0, <2>4, <2>5 DEF StampError, HostClock
  <2>7. \A m \in Stamped : StampError(m)' = StampError(m)
    BY <1>0, <2>2, <2>4, <2>5 DEF StampError
  <2>8. \A m \in Stamped' :
          /\ truth'.stamped[m] <= now'
          /\ StampError(m)' - host' <= Drifted' /\ host' - StampError(m)' <= Drifted'
    BY <1>0, <2>1, <2>2, <2>5, <2>6, <2>7 DEF Readings
  <2>9. \A m, l \in Stamped' : StampError(m)' - StampError(l)' <= Drifted'
    BY <1>0, <2>2, <2>6, <2>7 DEF Readings
  <2>10. snap[n].clock = {}
    BY <2>1 DEF Readings
  <2>11. \A m \in Stamped' : snap'[m].clock # {} =>
            snap'[m].clock = {truth'.told[m] + skew'[m]} /\ truth'.stamped[m] <= truth'.told[m]
    BY <1>0, <2>1, <2>2, <2>3, <2>4, <2>5, <2>10 DEF Readings
  <2>12. \A m \in Nodes : stage'[m] \in {"ping", "clock"} => snap'[m].clock = {}
    BY <2>1, <2>4 DEF Readings, Typed
  <2>13. \A m \in Nodes : \/ snap'[m].started = {}
                          \/ snap'[m].started = {Written("datetime", t + skew'[m]) : t \in open'[m]}
    BY <2>1, <2>4 DEF Readings
  <2>14. optNow' = truth'.began
    BY <2>1, <2>3 DEF Readings
  <2>15. QED
    BY <2>8, <2>9, <2>11, <2>12, <2>13, <2>14 DEF Readings
<1>5. ASSUME NEW n \in Nodes, TellClock(n) PROVE Readings'
  <2>1. /\ stage[n] = "clock" /\ stage' = [stage EXCEPT ![n] = "rest"]
        /\ UNCHANGED <<now, host, skew, steps, open, optNow>>
        /\ \/ /\ snap' = [snap EXCEPT ![n].clock = {ServerClock(n)}]
              /\ truth' = [truth EXCEPT !.told[n] = now]
           \/ UNCHANGED <<snap, truth>>
    BY <1>5 DEF TellClock, Collecting, world
  <2>2. Stamped' = Stamped /\ n \in Stamped /\ Drifted' = Drifted
    BY <2>1 DEF Stamped, Drifted, Typed
  <2>3. /\ truth'.stamped = truth.stamped /\ truth'.began = truth.began
        /\ \A m \in Nodes \ {n} : truth'.told[m] = truth.told[m]
    BY <1>0, <2>1 DEF Truths
  <2>4. /\ \A m \in Nodes : snap'[m].at = snap[m].at /\ snap'[m].started = snap[m].started
        /\ \A m \in Nodes \ {n} : snap'[m] = snap[m]
    BY <1>0, <2>1 DEF Snaps
  <2>5. snap[n].clock = {} /\ truth.stamped[n] <= now
    BY <2>1, <2>2 DEF Readings
  <2>6. snap'[n].clock # {} => snap'[n].clock = {now + skew[n]} /\ truth'.told[n] = now
    BY <1>0, <2>1, <2>5 DEF Snaps, Truths, ServerClock
  <2>7. \A m \in Nodes : StampError(m)' = StampError(m)
    BY <2>3, <2>4 DEF StampError
  <2>8. \A m \in Stamped' : snap'[m].clock # {} =>
            snap'[m].clock = {truth'.told[m] + skew'[m]} /\ truth'.stamped[m] <= truth'.told[m]
    BY <1>0, <2>1, <2>2, <2>3, <2>4, <2>5, <2>6 DEF Readings
  <2>9. \A m \in Nodes : stage'[m] \in {"ping", "clock"} => snap'[m].clock = {}
    BY <2>1, <2>4 DEF Readings, Typed
  <2>10. QED
    BY <1>0, <2>1, <2>2, <2>3, <2>4, <2>7, <2>8, <2>9 DEF Readings
<1>6. ASSUME NEW n \in Nodes, TellRest(n) PROVE Readings'
  <2> DEFINE times == {Written("datetime", t + skew[n]) : t \in open[n]}
  <2>1. /\ stage[n] = "rest" /\ stage' = [stage EXCEPT ![n] = "read"]
        /\ UNCHANGED <<now, host, skew, steps, open, optNow, truth>>
        /\ snap' = snap \/ snap' = [snap EXCEPT ![n].started = times]
    BY <1>6 DEF TellRest, Collecting, world
  <2>2. Stamped' = Stamped /\ Drifted' = Drifted
    BY <2>1 DEF Stamped, Drifted, Typed
  <2> HIDE DEF times
  <2>3. /\ \A m \in Nodes : snap'[m].at = snap[m].at /\ snap'[m].clock = snap[m].clock
        /\ \A m \in Nodes \ {n} : snap'[m].started = snap[m].started
        /\ snap'[n].started \in {snap[n].started, times}
    BY <1>0, <2>1 DEF Snaps
  <2>4. \A m \in Nodes : StampError(m)' = StampError(m)
    BY <2>1, <2>3 DEF StampError
  <2>5. \A m \in Nodes : \/ snap'[m].started = {}
                         \/ snap'[m].started = {Written("datetime", t + skew'[m]) : t \in open'[m]}
    BY <2>1, <2>3 DEF Readings, times
  <2>6. \A m \in Nodes : stage'[m] \in {"ping", "clock"} => snap'[m].clock = {}
    BY <2>1, <2>3 DEF Readings, Typed
  <2>7. QED
    BY <1>0, <2>1, <2>2, <2>3, <2>4, <2>5, <2>6 DEF Readings
<1>7. ASSUME NEW n \in Nodes, Fail(n) PROVE Readings'
  <2>1. /\ stage' = [stage EXCEPT ![n] = "failed"]
        /\ UNCHANGED <<now, host, skew, steps, open, optNow, truth, snap>>
    BY <1>7 DEF Fail, Collecting, world
  <2>2. Stamped' \subseteq Stamped /\ Drifted' = Drifted
    BY <2>1 DEF Stamped, Drifted, Typed
  <2>3. \A m \in Nodes : StampError(m)' = StampError(m)
    BY <2>1 DEF StampError
  <2>4. \A m \in Nodes : stage'[m] \in {"ping", "clock"} => stage[m] \in {"ping", "clock"}
    BY <2>1 DEF Typed
  <2>5. QED
    BY <1>0, <2>1, <2>2, <2>3, <2>4 DEF Readings
<1>8. CASE Return \/ Audit
    BY <1>8, SameReadings DEF Return, Audit, world
<1>9. CASE AskClock \/ AskRow
  <2>1. UNCHANGED <<now, host, skew, steps, open, optNow, stage, snap>>
    BY <1>9 DEF AskClock, AskRow, Asking, world
  <2>2. truth'.stamped = truth.stamped /\ truth'.told = truth.told /\ truth'.began = truth.began
    BY <1>0, <1>9 DEF AskClock, AskRow, Truths
  <2>3. QED
    BY <2>1, <2>2, SameReadings
<1>10. CASE Done \/ UNCHANGED vars
    BY <1>10, SameReadings DEF Done, vars
<1>11. QED
    BY <1>1, <1>2, <1>3, <1>4, <1>5, <1>6, <1>7, <1>8, <1>9, <1>10 DEF Next

(***************************************************************************)
(* The answer about the backup stays as it is, but for AskClock and AskRow.*)
(***************************************************************************)
LEMMA SameAnswer ==
    ASSUME Typed, Answered, UNCHANGED <<skew, asking, answer>>, now <= now',
           truth'.server = truth.server, truth'.asked = truth.asked,
           truth'.host = truth.host, truth'.record = truth.record,
           pc' \in {"refused", "collect", "backup"} => pc \in {"refused", "collect", "backup"},
           now' \in Nat
    PROVE  Answered'
<1>1. AskedError' = AskedError /\ \A b \in Records : WrittenBy(b)' <=> WrittenBy(b)
    BY DEF AskedError, WrittenBy
<1>2. truth.asked \in Nat /\ now \in Nat
    BY DEF Typed, Truths
<1>3. QED
    BY <1>1, <1>2 DEF Answered

LEMMA StepAnswered == Typed /\ World /\ Answered /\ [Next]_vars => Answered'
<1> SUFFICES ASSUME Typed, World, Answered, [Next]_vars PROVE Answered'
    OBVIOUS
<1>0. truth \in Truths /\ answer \in Answers /\ now \in Nat
    BY DEF Typed
<1>1. CASE Tick \/ SetClock \/ BackupFinishes
    BY <1>0, <1>1, SameAnswer DEF Tick, SetClock, BackupFinishes, program
<1>2. ASSUME NEW n \in Nodes, Stamp(n) \/ TellClock(n) \/ TellRest(n) \/ Fail(n) PROVE Answered'
  <2>1. UNCHANGED <<skew, asking, answer, pc, now>>
    BY <1>2 DEF Stamp, TellClock, TellRest, Fail, Collecting, world
  <2>2. /\ truth'.server = truth.server /\ truth'.asked = truth.asked
        /\ truth'.host = truth.host /\ truth'.record = truth.record
    BY <1>0, <1>2 DEF Stamp, TellClock, TellRest, Fail, Truths
  <2>3. QED
    BY <1>0, <2>1, <2>2, SameAnswer
<1>3. CASE Return \/ Audit
    BY <1>0, <1>3, SameAnswer DEF Return, Audit, world
<1>4. CASE AskClock
  <2>1. /\ pc = "backup" /\ asking \in Nodes /\ answer.now = {}
        /\ UNCHANGED <<now, host, skew, pc, asking>>
    BY <1>4 DEF AskClock, Asking, world, Typed
  <2>2. asking # 0
    BY <2>1 DEF Nodes
  <2>3. truth.record = {} /\ answer.at = {}
    BY <2>1 DEF Answered
  <2>4. CASE /\ answer' = [answer EXCEPT !.now = {ServerClock(asking)}]
             /\ truth' = [truth EXCEPT !.server = asking, !.asked = now]
    <3>1. /\ truth'.record = {} /\ answer'.at = {} /\ answer'.now = {ServerClock(asking)}
          /\ truth'.asked = now /\ truth'.server = asking
      BY <1>0, <2>3, <2>4 DEF Truths, Answers
    <3>2. ServerClock(asking) = truth'.asked + AskedError'
      BY <2>1, <2>2, <3>1 DEF ServerClock, AskedError
    <3>3. QED
      BY <1>0, <2>1, <3>1, <3>2 DEF Answered
  <2>5. CASE /\ answer' = [answer EXCEPT !.now = {HostClock}]
             /\ truth' = [truth EXCEPT !.server = 0, !.asked = now, !.host = host]
    <3>1. /\ truth'.record = {} /\ answer'.at = {} /\ answer'.now = {HostClock}
          /\ truth'.asked = now /\ truth'.server = 0 /\ truth'.host = host
      BY <1>0, <2>3, <2>5 DEF Truths, Answers
    <3>2. HostClock = truth'.asked + AskedError'
      BY <3>1 DEF HostClock, AskedError
    <3>3. QED
      BY <1>0, <2>1, <3>1, <3>2 DEF Answered
  <2>6. QED
    BY <1>4, <2>4, <2>5 DEF AskClock
<1>5. CASE AskRow
  <2> DEFINE times == UNION {ParseWhen(b.form, b.value) : b \in record}
  <2>1. /\ pc = "backup" /\ asking \in Nodes /\ answer.now # {}
        /\ UNCHANGED <<now, skew>>
    BY <1>5 DEF AskRow, Asking, world, Typed
  <2>2. asking # 0 /\ truth.record = {} /\ truth.asked \in Nat
    BY <1>0, <2>1 DEF Nodes, Answered, Truths
  <2>3. CASE /\ \A b \in record : ParseWhen(b.form, b.value) # {}
             /\ answer' = [answer EXCEPT !.err = FALSE, !.at = times]
             /\ truth' = [truth EXCEPT !.record = record]
             /\ pc' = "audit" /\ asking' = asking
    <3> HIDE DEF times
    <3>1. /\ truth'.record = record /\ answer'.at = times /\ answer'.now = answer.now
          /\ answer'.err = FALSE
          /\ truth'.server = truth.server /\ truth'.asked = truth.asked /\ truth'.host = truth.host
      BY <1>0, <2>3 DEF Truths, Answers
    <3>2. AskedError' = AskedError
      BY <2>1, <3>1 DEF AskedError
    <3>3. CASE record = {}
      <4>1. times = {}
        BY <3>3 DEF times
      <4>2. QED
        BY <2>1, <2>3, <3>1, <3>2, <3>3, <4>1 DEF Answered
    <3>4. CASE record # {}
      <4>1. PICK b \in Records : WrittenBy(b) /\ record = {b}
        BY <3>4 DEF World
      <4>2. ParseWhen(b.form, b.value) # {}
        BY <2>3, <4>1
      <4>3. b.form # "text" /\ ParseWhen(b.form, b.value) = {b.value}
        BY <4>2 DEF ParseWhen
      <4>4. times = {b.value}
        BY <4>1, <4>3 DEF times
      <4>5. WrittenBy(b)'
        BY <2>1, <4>1 DEF WrittenBy
      <4>6. QED
        BY <2>1, <2>2, <2>3, <3>1, <3>2, <4>1, <4>3, <4>4, <4>5 DEF Answered
    <3>5. QED
      BY <3>3, <3>4
  <2>4. CASE NoTime /\ UNCHANGED truth
    <3>1. CASE answer' = NoAnswer
      BY <2>1, <2>2, <2>4, <3>1 DEF Answered, NoAnswer
    <3>2. CASE answer' # NoAnswer
      <4>1. UNCHANGED <<asking, answer>> /\ pc' = "audit"
        BY <2>4, <3>2 DEF NoTime
      <4>2. QED
        BY <1>0, <2>1, <2>4, <4>1, SameAnswer
    <3>3. QED
      BY <3>1, <3>2
  <2>5. QED
    BY <1>5, <2>3, <2>4 DEF AskRow, Asking
<1>6. CASE Done \/ UNCHANGED vars
    BY <1>0, <1>6, SameAnswer DEF Done, vars
<1>7. QED
    BY <1>1, <1>2, <1>3, <1>4, <1>5, <1>6 DEF Next

(***************************************************************************)
(* The report is made once, of what was read.                              *)
(***************************************************************************)
LEMMA SameFindings ==
    ASSUME UNCHANGED <<declared, optNow, stage, snap, asking, answer>>
    PROVE  /\ ClockSkew' = ClockSkew /\ LongRunning' = LongRunning
           /\ BackupFreshness' = BackupFreshness /\ Ages' = Ages
<1>1. Read' = Read /\ Clocked' = Clocked
    BY DEF Read, Clocked
<1>2. Offsets' = Offsets
    BY <1>1 DEF Offsets
<1>3. Ages' = Ages
    BY DEF Ages
<1>4. LongRunning' = LongRunning
    BY <1>1 DEF LongRunning
<1>5. ClockSkew' = ClockSkew
    BY <1>1, <1>2 DEF ClockSkew
<1>6. BackupFreshness' = BackupFreshness
    BY <1>3 DEF BackupFreshness, Thresholds
<1>7. QED
    BY <1>3, <1>4, <1>5, <1>6

LEMMA StepReported == Reported /\ [Next]_vars => Reported'
<1> SUFFICES ASSUME Reported, [Next]_vars PROVE Reported'
    OBVIOUS
<1>1. CASE Audit
  <2>1. /\ pc' = "end" /\ UNCHANGED <<declared, optNow, stage, snap, asking, answer>>
        /\ report' = [clock |-> ClockSkew, long |-> LongRunning, backup |-> BackupFreshness,
                      future |-> \E a \in Ages : a < 0]
    BY <1>1 DEF Audit
  <2>2. QED
    BY <2>1, SameFindings DEF Reported
<1>2. CASE Done \/ UNCHANGED vars
  <2>1. UNCHANGED <<declared, optNow, stage, snap, asking, answer, pc, report>>
    BY <1>2 DEF Done, vars
  <2>2. QED
    BY <2>1, SameFindings DEF Reported
<1>3. CASE ~Audit /\ ~Done /\ ~UNCHANGED vars
  <2>1. report' = report /\ pc # "end" /\ pc' # "end"
    BY <1>3 DEF Next, Tick, SetClock, BackupFinishes, program, Stamp, TellClock, TellRest, Fail,
                Collecting, Return, AskClock, AskRow, Asking, NoTime
  <2>2. QED
    BY <2>1 DEF Reported, NoReport
<1>4. QED
    BY <1>1, <1>2, <1>3

-----------------------------------------------------------------------------
(***************************************************************************)
(* The invariant implies the properties.                                   *)
(***************************************************************************)
LEMMA TypeFollows == IInv => TypeOK
<1> SUFFICES ASSUME IInv PROVE TypeOK
    OBVIOUS
<1>1. Typed /\ Thresholded /\ World /\ Answered
    BY DEF IInv
<1>2. now \in 0..deadline /\ {host, optNow} \subseteq Int /\ steps \in 0..MaxSteps
    BY <1>1 DEF Typed, World
<1>3. answer.at # {} => answer.now # {} /\ ~answer.err
    BY <1>1 DEF Answered
<1>4. pc # "refused" => 0 < Thresholds(declared).warn
                        /\ Thresholds(declared).warn <= Thresholds(declared).bad
    BY <1>1 DEF Thresholded, Accepted
<1>5. QED
    BY <1>1, <1>2, <1>3, <1>4 DEF Typed, Thresholded, TypeOK

(***************************************************************************)
(* An age that is reported is that of the record, on the clock asked.      *)
(***************************************************************************)
LEMMA WrittenShifts ==
    ASSUME NEW f, NEW t \in Int
    PROVE  Written(f, t) = t + Written(f, 0) /\ Written(f, 0) \in Int
BY DEF Written

LEMMA ThresholdsAreNumbers ==
    ASSUME Typed
    PROVE  Thresholds(declared).warn \in Int /\ Thresholds(declared).bad \in Int
BY DEF Typed, Thresholds

LEMMA BackupAges == IInv => BackupAgeIsReal
<1> SUFFICES ASSUME IInv, pc = "end", NEW b \in truth.record
             PROVE  LET seen == now - b.done + AgeError(b)
                        limits == Thresholds(declared)
                    IN /\ report.backup = "BAD" => seen >= limits.bad
                       /\ report.backup = "OK" => /\ seen >= 0
                                                  /\ seen < limits.warn + (now - truth.asked)
    BY DEF BackupAgeIsReal
<1>1. Typed /\ Answered /\ Reported
    BY DEF IInv
<1>2. /\ b \in Records /\ WrittenBy(b)
      /\ answer.at = {b.value} /\ answer.now = {truth.asked + AskedError}
      /\ ~answer.err /\ asking # 0 /\ truth.asked <= now
    BY <1>1 DEF Answered
<1>3. /\ now \in Int /\ truth.asked \in Int /\ AskedError \in Int /\ b.done \in Int
      /\ b.by \in Nodes /\ skew[b.by] \in Int
  <2>1. now \in Int /\ truth.asked \in Int /\ truth.host \in Int /\ truth.server \in 0..N
    BY <1>1 DEF Typed, Truths
  <2>2. truth.server # 0 => truth.server \in Nodes
    BY <2>1 DEF Nodes
  <2>3. skew \in [Nodes -> Int]
    BY <1>1 DEF Typed
  <2>4. b.done \in Int /\ b.by \in Nodes
    BY <1>2 DEF Records
  <2>5. QED
    BY <2>1, <2>2, <2>3, <2>4 DEF AskedError
<1> DEFINE z == Written(b.form, 0)
           clock == truth.asked + AskedError
           done == b.done + skew[b.by] + z
           age == clock - done
           warn == Thresholds(declared).warn
           bad == Thresholds(declared).bad
<1>4. b.value = b.done + skew[b.by] + z /\ z \in Int
  <2>1. b.value = Written(b.form, b.done + skew[b.by])
    BY <1>2 DEF WrittenBy
  <2>2. b.done + skew[b.by] \in Int
    BY <1>3
  <2>3. QED
    BY <2>1, <2>2, WrittenShifts
<1>5. Ages = {age}
  <2>1. answer.now = {clock}
    BY <1>2
  <2>2. b.value = done
    BY <1>4
  <2> HIDE DEF clock, done
  <2>3. answer.at = {done}
    BY <1>2, <2>2
  <2>4. QED
    BY <2>1, <2>3 DEF Ages
<1>6. warn \in Int /\ bad \in Int
    BY <1>1, ThresholdsAreNumbers
<1>7. AgeError(b) = AskedError - skew[b.by] - z
    BY DEF AgeError, AskedError
<1> HIDE DEF z
<1>8. age \in Int
    BY <1>3, <1>4
<1>9. report.backup = IF age < 0 THEN "WARN" ELSE Grade(age, warn, bad)
  <2>1. report.backup = BackupFreshness
    BY <1>1 DEF Reported
  <2> HIDE DEF age, warn, bad
  <2>2. Ages # {} /\ (CHOOSE a \in Ages : TRUE) = age
    BY <1>5
  <2>3. BackupFreshness = IF age < 0 THEN "WARN" ELSE Grade(age, warn, bad)
    <3>1. /\ ~(asking = 0) /\ ~(asking # 0 /\ answer.err)
          /\ ~(asking # 0 /\ ~answer.err /\ Ages = {})
      BY <1>2, <2>2
    <3> DEFINE chosen == CHOOSE a \in Ages : TRUE
    <3>2. BackupFreshness = IF chosen < 0 THEN "WARN" ELSE Grade(chosen, warn, bad)
      BY <3>1 DEF BackupFreshness, warn, bad
    <3>3. chosen = age
      BY <2>2
    <3> HIDE DEF chosen
    <3>4. QED
      BY <3>2, <3>3
  <2>4. QED
    BY <2>1, <2>3
<1> HIDE DEF warn, bad
<1>10. /\ report.backup = "BAD" => age >= bad
       /\ report.backup = "OK" => age >= 0 /\ age < warn
  <2> HIDE DEF age
  <2>1. QED
    BY <1>6, <1>8, <1>9 DEF Grade
<1>11. now - b.done + AgeError(b) = age + (now - truth.asked)
    BY <1>3, <1>4, <1>7
<1> HIDE DEF age
<1>12. /\ report.backup = "BAD" => now - b.done + AgeError(b) >= bad
       /\ report.backup = "OK" => /\ now - b.done + AgeError(b) >= 0
                                  /\ now - b.done + AgeError(b) < warn + (now - truth.asked)
    BY <1>2, <1>3, <1>6, <1>8, <1>10, <1>11
<1>13. QED
    BY <1>12 DEF warn, bad

LEMMA TransactionAges == IInv => TransactionAgeIsReal
<1> SUFFICES ASSUME IInv, pc = "end", NEW n \in Read, snap[n].started # {}
             PROVE  n \in report.long <=>
                        \E t \in open[n] : truth.began - skew[n] - Zone - t >= TransactionWarn
    BY DEF TransactionAgeIsReal
<1>1. Typed /\ Readings /\ Reported
    BY DEF IInv
<1>2. n \in Nodes /\ skew[n] \in Int /\ open[n] \subseteq Int /\ optNow \in Int
    BY <1>1 DEF Read, Typed
<1>3. snap[n].started = {Written("datetime", t + skew[n]) : t \in open[n]} /\ optNow = truth.began
    BY <1>1, <1>2 DEF Readings
<1>4. n \in report.long <=> \E w \in snap[n].started : optNow - w >= TransactionWarn
    BY <1>1 DEF Reported, LongRunning
<1>5. \A t \in open[n] : Written("datetime", t + skew[n]) = t + skew[n] + Zone
    BY DEF Written
<1>6. n \in report.long <=> \E t \in open[n] : optNow - (t + skew[n] + Zone) >= TransactionWarn
    BY <1>3, <1>4, <1>5
<1>7. \A t \in open[n] : optNow - (t + skew[n] + Zone) = optNow - skew[n] - Zone - t
    BY <1>2
<1>8. QED
    BY <1>3, <1>6, <1>7

(***************************************************************************)
(* The spread of the readings is that of the clocks, but for one delay and *)
(* the steps of the host's clock.                                          *)
(***************************************************************************)
LEMMA SpreadIsReal ==
    ASSUME IInv, Cardinality(Clocked) >= 2
    PROVE  /\ Max(Offsets) - Min(Offsets) \in Int /\ TrueSpread \in Int /\ Slack \in Int
           /\ Max(Offsets) - Min(Offsets) <= TrueSpread + Slack
           /\ TrueSpread - Slack <= Max(Offsets) - Min(Offsets)
<1>1. Typed /\ Readings
    BY DEF IInv
<1>2. Clocked \subseteq Nodes /\ Clocked \subseteq Stamped /\ \A n \in Clocked : snap[n].clock # {}
    BY DEF Clocked, Read, Stamped
<1>3. IsFiniteSet(Clocked) /\ Clocked # {}
  <2>1. IsFiniteSet(Nodes)
    BY FS_Interval DEF Nodes
  <2>2. IsFiniteSet(Clocked)
    BY <1>2, <2>1, FS_Subset
  <2>3. Clocked # {}
    BY FS_EmptySet
  <2>4. QED
    BY <2>2, <2>3
<1> DEFINE off == [n \in Clocked |-> truth.told[n] + skew[n] - snap[n].at]
           delay == [n \in Clocked |-> truth.told[n] - truth.stamped[n]]
           error == [n \in Clocked |-> StampError(n)]
<1>4. \A n \in Clocked : /\ truth.told[n] \in Int /\ truth.stamped[n] \in Int
                         /\ skew[n] \in Int /\ snap[n].at \in Int
                         /\ snap[n].clock = {truth.told[n] + skew[n]}
                         /\ truth.stamped[n] <= truth.told[n]
    BY <1>1, <1>2 DEF Readings, Typed, Truths, Snaps
<1>5. \A n \in Clocked : /\ off[n] \in Int /\ delay[n] \in Nat /\ error[n] \in Int
                         /\ off[n] = skew[n] + delay[n] - error[n]
    BY <1>4 DEF StampError
<1>6. Drifted \in Nat /\ \A n, m \in Clocked : error[n] - error[m] <= Drifted
    BY <1>1, <1>2, DriftedGrows DEF Readings
<1>7. Offsets = {off[n] : n \in Clocked}
  <2>1. \A n \in Clocked : {c - snap[n].at : c \in snap[n].clock} = {off[n]}
    BY <1>4
  <2> HIDE DEF off
  <2>2. ASSUME NEW x PROVE x \in Offsets <=> \E n \in Clocked : x = off[n]
    <3>1. x \in Offsets <=> \E n \in Clocked : x \in {c - snap[n].at : c \in snap[n].clock}
      BY DEF Offsets
    <3>2. QED
      BY <2>1, <3>1
  <2>3. QED
    BY <2>2
<1>8. /\ TrueSpread = Max({skew[n] : n \in Clocked}) - Min({skew[n] : n \in Clocked})
      /\ Slack = Max({delay[n] : n \in Clocked}) + Drifted
    BY DEF TrueSpread, Slack, Drifted
<1>9. \A n \in Clocked : skew[n] \in Int
    BY <1>4
<1> HIDE DEF off, delay, error
<1>10. PICK a \in Clocked : Max({off[n] : n \in Clocked}) = off[a] /\ \A n \in Clocked : off[n] <= off[a]
    BY <1>3, <1>5, MaxOfValues
<1>11. PICK b \in Clocked : Min({off[n] : n \in Clocked}) = off[b] /\ \A n \in Clocked : off[b] <= off[n]
    BY <1>3, <1>5, MinOfValues
<1>12. PICK c \in Clocked : Max({skew[n] : n \in Clocked}) = skew[c] /\ \A n \in Clocked : skew[n] <= skew[c]
    BY <1>3, <1>9, MaxOfValues
<1>13. PICK d \in Clocked : Min({skew[n] : n \in Clocked}) = skew[d] /\ \A n \in Clocked : skew[d] <= skew[n]
    BY <1>3, <1>9, MinOfValues
<1>14. PICK e \in Clocked : Max({delay[n] : n \in Clocked}) = delay[e] /\ \A n \in Clocked : delay[n] <= delay[e]
  <2>1. \A n \in Clocked : delay[n] \in Int
    BY <1>5
  <2>2. QED
    BY <1>3, <2>1, MaxOfValues
<1>15. /\ Max(Offsets) - Min(Offsets) = off[a] - off[b]
       /\ TrueSpread = skew[c] - skew[d] /\ Slack = delay[e] + Drifted
    BY <1>7, <1>8, <1>10, <1>11, <1>12, <1>13, <1>14
<1>16. off[a] - off[b] <= (skew[c] - skew[d]) + (delay[e] + Drifted)
    BY <1>5, <1>6, <1>9, <1>12, <1>13, <1>14
<1>17. (skew[c] - skew[d]) - (delay[e] + Drifted) <= off[a] - off[b]
  <2>1. off[c] - off[d] <= off[a] - off[b]
    BY <1>5, <1>10, <1>11
  <2>2. (skew[c] - skew[d]) - (delay[e] + Drifted) <= off[c] - off[d]
    BY <1>5, <1>6, <1>9, <1>14
  <2>3. QED
    BY <1>5, <1>6, <1>9, <2>1, <2>2
<1>18. QED
    BY <1>5, <1>6, <1>9, <1>15, <1>16, <1>17

LEMMA SkewFollows == IInv => SkewIsReal
<1> SUFFICES ASSUME IInv PROVE SkewIsReal
    OBVIOUS
<1>1. CASE pc # "end"
    BY <1>1 DEF IInv, Reported, NoReport, SkewIsReal
<1>2. CASE pc = "end"
  <2>1. report.clock = ClockSkew
    BY <1>2 DEF IInv, Reported
  <2>2. CASE Cardinality(Clocked) < 2
    BY <2>1, <2>2 DEF ClockSkew, SkewIsReal
  <2>3. CASE ~(Cardinality(Clocked) < 2)
    <3> DEFINE spread == Max(Offsets) - Min(Offsets)
    <3>1. Cardinality(Clocked) >= 2
      <4>1. IsFiniteSet(Clocked)
        <5>1. IsFiniteSet(Nodes)
          BY FS_Interval DEF Nodes
        <5>2. Clocked \subseteq Nodes
          BY DEF Clocked, Read
        <5>3. QED
          BY <5>1, <5>2, FS_Subset
      <4>2. Cardinality(Clocked) \in Nat
        BY <4>1, FS_CardinalityType
      <4>3. QED
        BY <2>3, <4>2
    <3>2. /\ spread \in Int /\ TrueSpread \in Int /\ Slack \in Int
          /\ spread <= TrueSpread + Slack /\ TrueSpread - Slack <= spread
      BY <3>1, SpreadIsReal
    <3>3. report.clock = Grade(spread, ClockWarn, ClockBad)
      BY <2>1, <2>3 DEF ClockSkew
    <3> HIDE DEF spread
    <3>4. /\ report.clock = "BAD" => spread >= ClockBad
          /\ report.clock = "WARN" => spread >= ClockWarn /\ spread < ClockBad
          /\ report.clock = "OK" => spread < ClockWarn
      BY <3>2, <3>3 DEF Grade
    <3>5. QED
      BY <3>2, <3>4 DEF SkewIsReal
  <2>4. QED
    BY <2>2, <2>3
<1>3. QED
    BY <1>1, <1>2

-----------------------------------------------------------------------------
\* The inductive invariant: every reading the program has is that of the clock that
\* was asked, at the moment it was asked, and the report is made of these readings.
THEOREM Invariant == Spec => []IInv
<1>1. Init => IInv
    BY InitInvariant
<1>2. IInv /\ [Next]_vars => IInv'
    BY StepTyped, StepThresholded, StepWorld, StepReadings, StepAnswered, StepReported DEF IInv
<1>3. QED
    BY <1>1, <1>2, PTL DEF Spec

\* The state has its type, and nothing is graded under thresholds in the wrong order.
THEOREM TypeCorrect == Spec => []TypeOK
    BY Invariant, TypeFollows, PTL

\* node/clock compares the servers with each other: what it calls a skew is one, to
\* within one round trip and the steps of the host's clock.
THEOREM SkewReported == Spec => []SkewIsReal
    BY Invariant, SkewFollows, PTL

\* The age of a backup and that of a transaction are what the clocks they are measured
\* on make of them.
THEOREM AgesReported == Spec => []AgesAreReal
<1>1. IInv => AgesAreReal
    BY BackupAges, TransactionAges DEF AgesAreReal
<1>2. QED
    BY <1>1, Invariant, PTL
=============================================================================
