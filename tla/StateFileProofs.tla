--------------------------- MODULE StateFileProofs ---------------------------
(***************************************************************************)
(* The state file implements StateRegister, for any number of processes,   *)
(* documents of any length and any bounds, where the runs do not overlap.  *)
(***************************************************************************)
EXTENDS StateFile, TLAPS

USE BlocksAssumption, OverlapAssumption, BoundsAssumption, NoneAssumption

Blockish == Runs \cup {<<>>}

(***************************************************************************)
(* A write leaves a sequence of blocks.                                    *)
(***************************************************************************)
LEMMA WriteAtType ==
    ASSUME NEW c \in Seq(Blockish), NEW n \in Nat, NEW t \in Runs
    PROVE  WriteAt(c, n, t) \in Seq(Blockish)
<1> DEFINE len == IF Len(c) > n THEN Len(c) ELSE n + 1
<1>1. len \in Nat
    OBVIOUS
<1>2. \A j \in 1..len : (IF j = n + 1 THEN t ELSE IF j <= Len(c) THEN c[j] ELSE <<>>) \in Blockish
    BY DEF Blockish
<1>3. WriteAt(c, n, t) \in [1..len -> Blockish]
    BY <1>2 DEF WriteAt
<1>4. QED
    BY <1>1, <1>3

(***************************************************************************)
(* What is parsed out of a sequence of blocks is a run, or nothing.        *)
(***************************************************************************)
LEMMA ParsedType ==
    ASSUME NEW c \in Seq(Blockish)
    PROVE  Parsed(c).state \in Runs \cup {None}
BY DEF Parsed, Blockish

LEMMA HoldsType == TypeOK => Holds \in Runs \cup {None}
<1> SUFFICES ASSUME TypeOK PROVE Holds \in Runs \cup {None}
    OBVIOUS
<1>1. ASSUME path # 0 PROVE data[path] \in Seq(Blockish)
  <2>1. path \in DOMAIN data
    BY <1>1 DEF TypeOK
  <2>2. QED
    BY <2>1 DEF TypeOK, Blockish
<1>2. QED
    BY <1>1, ParsedType DEF Holds, Load

(***************************************************************************)
(* A whole document is parsed.                                             *)
(***************************************************************************)
LEMMA ParsedWhole ==
    ASSUME NEW t \in Runs
    PROVE  LET l == Parsed([j \in 1..Blocks |-> t])
           IN  l.state = t /\ l.err = FALSE
<1> DEFINE c == [j \in 1..Blocks |-> t]
<1>1. Len(c) = Blocks /\ c[1] = t
    OBVIOUS
<1>2. t # <<>>
    BY DEF Runs
<1>3. QED
    BY <1>1, <1>2 DEF Parsed

-----------------------------------------------------------------------------
LEMMA InitType == Init => TypeOK
BY DEF Init, TypeOK, Runs

(***************************************************************************)
(* Every step keeps the types, whether the runs overlap or not.            *)
(***************************************************************************)
LEMMA StepType == TypeOK /\ [Next]_vars => TypeOK'
<1> SUFFICES ASSUME TypeOK, [Next]_vars
             PROVE  TypeOK'
    OBVIOUS
<1> USE DEF TypeOK, Runs
<1> DEFINE SavedTyped(p) == /\ run' \in [Procs -> Nat]
                            /\ pc' \in [Procs -> {"down", "pass", "write"}]
                            /\ watching' \in [Procs -> BOOLEAN]
                            /\ fd' \in [Procs -> Nat]
                            /\ off' \in [Procs -> 0..Blocks]
                            /\ base' = base /\ losses' = losses
<1>1. ASSUME NEW p \in Procs, Saved(p) PROVE SavedTyped(p)
  <2>1. fd' \in [Procs -> Nat] /\ off' \in [Procs -> 0..Blocks] /\ base' = base /\ losses' = losses
    BY <1>1 DEF Saved
  <2>2. run' \in [Procs -> Nat] /\ watching' \in [Procs -> BOOLEAN]
    <3>1. watching' = watching
      BY <1>1 DEF Saved
    <3>2. run' = run \/ run' = [run EXCEPT ![p] = @ + 1]
      BY <1>1 DEF Saved
    <3>3. QED
      BY <3>1, <3>2
  <2>3. pc' \in [Procs -> {"down", "pass", "write"}]
    BY <1>1 DEF Saved
  <2>4. QED
    BY <2>1, <2>2, <2>3
<1>2. ASSUME NEW p \in Procs, Start(p) PROVE TypeOK'
  <2>1. Holds \in Runs \cup {None}
    BY HoldsType
  <2>2. QED
    BY <1>2, <2>1 DEF Start
<1>3. ASSUME NEW p \in Procs, Open(p) PROVE TypeOK'
  <2> DEFINE i == IF tmp = 0 THEN fresh ELSE tmp
  <2>1. /\ i \in 1..fresh
        /\ tmp' = i /\ path' = path
        /\ fresh' = IF i = fresh THEN fresh + 1 ELSE fresh
        /\ data' = [j \in DOMAIN data \cup {i} |-> IF j = i THEN <<>> ELSE data[j]]
        /\ fd' = [fd EXCEPT ![p] = i]
    BY <1>3 DEF Open
  <2> HIDE DEF i
  <2>2. DOMAIN data' = 1..(fresh' - 1)
    BY <2>1
  <2>3. \A j \in DOMAIN data' : data'[j] \in Seq(Runs \cup {<<>>})
    BY <2>1
  <2>4. /\ path' \in Nat /\ tmp' \in Nat /\ fresh' \in Nat \ {0}
        /\ path' < fresh' /\ tmp' < fresh'
        /\ fd' \in [Procs -> Nat]
    BY <2>1
  <2>5. /\ off' \in [Procs -> 0..Blocks] /\ pc' \in [Procs -> {"down", "pass", "write"}]
        /\ UNCHANGED <<run, watching, base, losses>>
    BY <1>3 DEF Open
  <2>6. QED
    BY <2>2, <2>3, <2>4, <2>5
<1>4. ASSUME NEW p \in Procs, Write(p) PROVE TypeOK'
  <2>1. Tag(p) \in Runs
    BY DEF Tag
  <2>2. \A j \in DOMAIN data : data[j] \in Seq(Blockish)
    BY DEF Blockish
  <2>3. ASSUME NEW j \in DOMAIN data PROVE data'[j] \in Seq(Blockish)
    <3>1. CASE j = fd[p]
      BY <1>4, <2>1, <2>2, <3>1, WriteAtType DEF Write
    <3>2. CASE j # fd[p]
      BY <1>4, <2>2, <3>2 DEF Write
    <3>3. QED
      BY <3>1, <3>2
  <2>4. DOMAIN data' = DOMAIN data
    BY <1>4 DEF Write
  <2>5. off' \in [Procs -> 0..Blocks] /\ UNCHANGED <<path, tmp, fresh, pc, run, watching, fd, base, losses>>
    BY <1>4 DEF Write
  <2>6. QED
    BY <2>3, <2>4, <2>5 DEF Blockish
<1>5. ASSUME NEW p \in Procs, Rename(p) PROVE TypeOK'
    BY <1>5, <1>1 DEF Rename
<1>6. ASSUME NEW p \in Procs, FailSave(p) PROVE TypeOK'
    BY <1>6, <1>1 DEF FailSave
<1>7. ASSUME NEW p \in Procs, Kill(p) PROVE TypeOK'
    BY <1>7 DEF Kill
<1>8. CASE LoseFile
    BY <1>8 DEF LoseFile, procs
<1>9. CASE UNCHANGED vars
    BY <1>9 DEF vars
<1>10. QED
    BY <1>2, <1>3, <1>4, <1>5, <1>6, <1>7, <1>8, <1>9 DEF Next

(***************************************************************************)
(* Every variable of StateFile has its type in every reachable state.      *)
(***************************************************************************)
THEOREM TypeCorrect == Spec => []TypeOK
BY InitType, StepType, PTL DEF Spec

-----------------------------------------------------------------------------
LEMMA InitInv == Init => IInv
BY InitType DEF Init, IInv, Kept, Alone, Apart, Writing, Whole

(***************************************************************************)
(* Every step keeps what is said of the files, whatever runs overlap, if   *)
(* no two saves do.                                                        *)
(***************************************************************************)
LEMMA StepKept ==
    ASSUME Kept, SavesApart, SavesApart', [Next]_vars
    PROVE  Kept'
<1> SUFFICES Apart' /\ Writing' /\ Whole'
    BY StepType DEF Kept
<1> USE DEF Kept
<1>0. TypeOK /\ TypeOK'
    BY StepType
<1>1. ASSUME NEW p \in Procs, Start(p) PROVE Apart' /\ Writing' /\ Whole'
  <2>1. pc[p] = "down"
    BY <1>1 DEF Start
  <2>2. /\ pc' = [pc EXCEPT ![p] = "pass"]
        /\ run' = [run EXCEPT ![p] = @ + 1]
        /\ UNCHANGED <<path, tmp, data, fd, off>>
    BY <1>1 DEF Start
  <2>3. Apart' /\ Writing'
    BY <1>0, <2>1, <2>2 DEF TypeOK, Apart, Writing, Tag
  <2>4. Whole'
    <3> SUFFICES ASSUME path # 0 PROVE Whole'
      BY <2>2 DEF Whole
    <3> DEFINE t == data[path][1]
    <3>1. /\ t \in Runs /\ data[path] = [j \in 1..Blocks |-> t]
          /\ IF pc[t[1]] = "down" THEN t[2] <= run[t[1]] ELSE t[2] < run[t[1]]
      BY DEF Whole
    <3> HIDE DEF t
    <3>2. IF pc'[t[1]] = "down" THEN t[2] <= run'[t[1]] ELSE t[2] < run'[t[1]]
      <4>1. t[1] \in Procs /\ t[2] \in Nat /\ run[t[1]] \in Nat
        BY <1>0, <3>1 DEF TypeOK, Runs
      <4>2. CASE t[1] = p
        BY <1>0, <2>1, <2>2, <3>1, <4>1, <4>2 DEF TypeOK
      <4>3. CASE t[1] # p
        BY <1>0, <2>2, <3>1, <4>1, <4>3 DEF TypeOK
      <4>4. QED
        BY <4>2, <4>3
    <3>3. QED
      BY <2>2, <3>1, <3>2 DEF Whole, t
  <2>5. QED
    BY <2>3, <2>4
<1>2. ASSUME NEW p \in Procs, Open(p) PROVE Apart' /\ Writing' /\ Whole'
  <2> DEFINE i == IF tmp = 0 THEN fresh ELSE tmp
  <2>1. /\ pc[p] = "pass"
        /\ tmp' = i
        /\ data' = [j \in DOMAIN data \cup {i} |-> IF j = i THEN <<>> ELSE data[j]]
        /\ fd' = [fd EXCEPT ![p] = i]
        /\ off' = [off EXCEPT ![p] = 0]
        /\ pc' = [pc EXCEPT ![p] = "write"]
        /\ UNCHANGED <<path, run>>
    BY <1>2 DEF Open
  <2>2. i # 0 /\ i # path
    BY <1>0 DEF TypeOK, Apart
  <2> HIDE DEF i
  <2>3. Apart'
    BY <1>0, <2>1, <2>2 DEF TypeOK, Apart
  <2>4. ASSUME NEW q \in Procs, pc'[q] = "write" PROVE q = p
    BY <1>0, <2>1, <2>4 DEF TypeOK, SavesApart
  <2>5. data'[i] = [j \in 1..0 |-> Tag(p)']
    BY <2>1
  <2>6. Writing'
    BY <1>0, <2>1, <2>2, <2>4, <2>5 DEF TypeOK, Writing
  <2>7. path # 0 => path \in DOMAIN data /\ data'[path] = data[path]
    BY <1>0, <2>1, <2>2 DEF TypeOK
  <2>8. \A q \in Procs : pc'[q] = "down" <=> pc[q] = "down"
    BY <1>0, <2>1 DEF TypeOK
  <2>9. Whole'
    <3> SUFFICES ASSUME path # 0 PROVE Whole'
      BY <2>1 DEF Whole
    <3> DEFINE t == data[path][1]
    <3>1. /\ t \in Runs /\ data[path] = [j \in 1..Blocks |-> t]
          /\ IF pc[t[1]] = "down" THEN t[2] <= run[t[1]] ELSE t[2] < run[t[1]]
      BY DEF Whole
    <3> HIDE DEF t
    <3>2. IF pc'[t[1]] = "down" THEN t[2] <= run'[t[1]] ELSE t[2] < run'[t[1]]
      BY <2>1, <2>8, <3>1 DEF Runs
    <3>3. data'[path'] = data[path]
      BY <2>1, <2>7
    <3>4. QED
      BY <3>1, <3>2, <3>3 DEF Whole, t
  <2>10. QED
    BY <2>3, <2>6, <2>9
<1>3. ASSUME NEW p \in Procs, Write(p) PROVE Apart' /\ Writing' /\ Whole'
  <2>1. /\ pc[p] = "write" /\ off[p] < Blocks
        /\ data' = [data EXCEPT ![fd[p]] = WriteAt(@, off[p], Tag(p))]
        /\ off' = [off EXCEPT ![p] = @ + 1]
        /\ UNCHANGED <<path, tmp, pc, run, fd>>
    BY <1>3 DEF Write
  <2>2. /\ tmp # 0 /\ fd[p] = tmp /\ tmp \in DOMAIN data
        /\ data[tmp] = [j \in 1..off[p] |-> Tag(p)]
    <3>1. /\ tmp # 0 /\ fd[p] = tmp
          /\ data[tmp] = [j \in 1..off[p] |-> Tag(p)]
      BY <2>1 DEF Writing
    <3>2. tmp \in DOMAIN data
      BY <1>0, <3>1 DEF TypeOK
    <3>3. QED
      BY <3>1, <3>2
  <2>3. Apart'
    BY <2>1 DEF Apart
  <2>4. data'[tmp] = WriteAt(data[tmp], off[p], Tag(p))
    BY <2>1, <2>2
  <2>5. off[p] \in Nat /\ Len(data[tmp]) = off[p]
    BY <1>0, <2>2 DEF TypeOK
  <2>6. data'[tmp] = [j \in 1..(off[p] + 1) |-> Tag(p)]
    <3>1. WriteAt(data[tmp], off[p], Tag(p))
            = [j \in 1..(off[p] + 1) |-> IF j = off[p] + 1 THEN Tag(p)
                                         ELSE IF j <= off[p] THEN data[tmp][j] ELSE <<>>]
      BY <2>5 DEF WriteAt
    <3>2. \A j \in 1..(off[p] + 1) :
            (IF j = off[p] + 1 THEN Tag(p)
             ELSE IF j <= off[p] THEN data[tmp][j] ELSE <<>>) = Tag(p)
      BY <2>2, <2>5
    <3>3. QED
      BY <2>4, <3>1, <3>2
  <2>7. ASSUME NEW q \in Procs, pc'[q] = "write" PROVE q = p
    BY <2>1, <2>7 DEF SavesApart
  <2>8. Writing'
    BY <1>0, <2>1, <2>2, <2>6, <2>7 DEF TypeOK, Writing, Tag
  <2>9. path # 0 => data'[path] = data[path]
    BY <1>0, <2>1, <2>2 DEF TypeOK, Apart
  <2>10. Whole'
    BY <2>1, <2>9 DEF Whole
  <2>11. QED
    BY <2>3, <2>8, <2>10
<1>4. ASSUME NEW p \in Procs, Saved(p)
      PROVE  /\ \A q \in Procs : q # p => UNCHANGED <<pc[q], run[q], fd[q], off[q]>>
             /\ pc'[p] # "write"
             /\ IF pc'[p] = "down" THEN run[p] <= run'[p] ELSE run[p] < run'[p]
  <2>1. \/ run' = [run EXCEPT ![p] = @ + 1] /\ pc' = [pc EXCEPT ![p] = "pass"]
        \/ run' = run /\ pc' = [pc EXCEPT ![p] = "down"]
    BY <1>4 DEF Saved
  <2>2. fd' = [fd EXCEPT ![p] = 0] /\ off' = [off EXCEPT ![p] = 0]
    BY <1>4 DEF Saved
  <2>3. QED
    BY <1>0, <2>1, <2>2 DEF TypeOK
<1>5. ASSUME NEW p \in Procs, Rename(p) PROVE Apart' /\ Writing' /\ Whole'
  <2>1. /\ pc[p] = "write" /\ off[p] = Blocks /\ tmp # 0
        /\ path' = tmp /\ tmp' = 0 /\ data' = data /\ Saved(p)
    BY <1>5 DEF Rename
  <2>2. /\ \A q \in Procs : pc'[q] # "write"
        /\ IF pc'[p] = "down" THEN run[p] <= run'[p] ELSE run[p] < run'[p]
    BY <1>4, <2>1 DEF SavesApart
  <2>3. Apart' /\ Writing'
    BY <2>1, <2>2 DEF Apart, Writing
  <2>4. data'[path'] = [j \in 1..Blocks |-> Tag(p)]
    BY <2>1 DEF Writing
  <2>5. data'[path'][1] = Tag(p) /\ Tag(p) \in Runs
    BY <1>0, <2>4 DEF TypeOK, Tag, Runs
  <2>6. Tag(p)[1] = p /\ Tag(p)[2] = run[p]
    BY DEF Tag
  <2>7. Whole'
    BY <2>2, <2>4, <2>5, <2>6 DEF Whole
  <2>8. QED
    BY <2>3, <2>7
<1>6. ASSUME NEW p \in Procs, UNCHANGED <<path, tmp, data>>,
             \A q \in Procs : q # p => UNCHANGED <<pc[q], run[q], fd[q], off[q]>>,
             pc'[p] # "write",
             IF pc'[p] = "down" THEN run[p] <= run'[p] ELSE run[p] < run'[p]
      PROVE  Apart' /\ Writing' /\ Whole'
  <2>2. Apart' /\ Writing'
    BY <1>6 DEF Apart, Writing, Tag
  <2>3. Whole'
    <3> SUFFICES ASSUME path # 0 PROVE Whole'
      BY <1>6 DEF Whole
    <3> DEFINE t == data[path][1]
    <3>1. /\ t \in Runs /\ data[path] = [j \in 1..Blocks |-> t]
          /\ IF pc[t[1]] = "down" THEN t[2] <= run[t[1]] ELSE t[2] < run[t[1]]
      BY DEF Whole
    <3> HIDE DEF t
    <3>2. t[1] \in Procs /\ t[2] \in Nat /\ run[t[1]] \in Nat /\ run'[t[1]] \in Nat
      BY <1>0, <3>1 DEF Runs, TypeOK
    <3>3. IF pc'[t[1]] = "down" THEN t[2] <= run'[t[1]] ELSE t[2] < run'[t[1]]
      <4>1. CASE t[1] = p
        BY <1>6, <3>1, <3>2, <4>1
      <4>2. CASE t[1] # p
        BY <1>6, <3>1, <3>2, <4>2
      <4>3. QED
        BY <4>1, <4>2
    <3>4. QED
      BY <1>6, <3>1, <3>3 DEF Whole, t
  <2>4. QED
    BY <2>2, <2>3
<1>7. ASSUME NEW p \in Procs, FailSave(p) PROVE Apart' /\ Writing' /\ Whole'
  <2>1. Saved(p) /\ UNCHANGED <<path, tmp, data>>
    BY <1>7 DEF FailSave
  <2>2. QED
    BY <1>4, <1>6, <2>1
<1>8. ASSUME NEW p \in Procs, Kill(p) PROVE Apart' /\ Writing' /\ Whole'
  <2>1. /\ UNCHANGED <<path, tmp, data, run>>
        /\ pc' = [pc EXCEPT ![p] = "down"]
        /\ fd' = [fd EXCEPT ![p] = 0] /\ off' = [off EXCEPT ![p] = 0]
    BY <1>8 DEF Kill
  <2>2. /\ \A q \in Procs : q # p => UNCHANGED <<pc[q], run[q], fd[q], off[q]>>
        /\ pc'[p] = "down" /\ run[p] <= run'[p]
    BY <1>0, <2>1 DEF TypeOK
  <2>3. QED
    BY <1>6, <2>1, <2>2
<1>9. CASE LoseFile
    BY <1>9 DEF LoseFile, procs, Apart, Writing, Whole, Tag
<1>10. CASE UNCHANGED vars
    BY <1>10 DEF vars, Apart, Writing, Whole, Tag
<1>11. QED
    BY <1>1, <1>2, <1>3, <1>5, <1>7, <1>8, <1>9, <1>10 DEF Next

(***************************************************************************)
(* Whatever runs overlap, as long as no two saves do path names a whole    *)
(* document of an earlier run, and nobody is writing to it.                *)
(***************************************************************************)
THEOREM WholeAnyway == Spec /\ []SavesApart => []Kept
<1>1. Init => Kept
    BY InitInv DEF IInv
<1>2. Kept /\ SavesApart /\ SavesApart' /\ [Next]_vars => Kept'
    BY StepKept
<1>3. QED
    BY <1>1, <1>2, PTL DEF Spec

(***************************************************************************)
(* Where runs do not overlap at most one process is there at a time.       *)
(***************************************************************************)
LEMMA StepAlone ==
    ASSUME ~Overlap, TypeOK, Alone, [Next]_vars
    PROVE  Alone'
<1> USE DEF TypeOK, Alone
<1>1. ASSUME NEW p \in Procs, Start(p) PROVE Alone'
    BY <1>1 DEF Start
<1>2. ASSUME NEW p \in Procs, pc[p] # "down", \A q \in Procs : q # p => pc'[q] = pc[q]
      PROVE  Alone'
    BY <1>2
<1>3. ASSUME NEW p \in Procs, Open(p) \/ Rename(p) \/ FailSave(p) \/ Kill(p) PROVE Alone'
  <2>1. pc[p] # "down" /\ \E v : pc' = [pc EXCEPT ![p] = v]
    BY <1>3 DEF Open, Rename, FailSave, Kill, Saved
  <2>2. QED
    BY <1>2, <2>1
<1>4. CASE UNCHANGED pc
    BY <1>4
<1>5. QED
    BY <1>1, <1>3, <1>4 DEF Next, Write, LoseFile, procs, vars

(***************************************************************************)
(* Where no two runs overlap no two saves do, so the inductive invariant   *)
(* always holds.                                                           *)
(***************************************************************************)
THEOREM AlwaysWhole ==
    ASSUME ~Overlap
    PROVE  Spec => []IInv
<1>1. Alone => SavesApart
    BY DEF Alone, SavesApart
<1>2. IInv /\ [Next]_vars => IInv'
  <2> SUFFICES ASSUME IInv, [Next]_vars PROVE IInv'
    OBVIOUS
  <2>1. Alone'
    BY StepAlone DEF IInv, Kept
  <2>2. SavesApart /\ SavesApart'
    BY <2>1 DEF IInv, Alone, SavesApart
  <2>3. QED
    BY <2>1, <2>2, StepKept DEF IInv
<1>3. QED
    BY <1>2, InitInv, PTL DEF Spec

-----------------------------------------------------------------------------
(***************************************************************************)
(* What path holds when it is whole.                                       *)
(***************************************************************************)
LEMMA HoldsWhole ==
    ASSUME Kept
    PROVE  /\ path = 0 => Holds = None
           /\ path # 0 => Holds = data[path][1]
<1>1. path = 0 => Holds = None
    BY DEF Holds, Load
<1>2. ASSUME path # 0 PROVE Holds = data[path][1]
  <2> DEFINE t == data[path][1]
  <2>1. t \in Runs /\ data[path] = [j \in 1..Blocks |-> t]
    BY <1>2 DEF Kept, Whole
  <2> HIDE DEF t
  <2>2. QED
    BY <1>2, <2>1, ParsedWhole DEF Holds, Load, t
<1>3. QED
    BY <1>1, <1>2

(***************************************************************************)
(* A step that leaves path and what it holds alone leaves the register     *)
(* alone.                                                                  *)
(***************************************************************************)
LEMMA HoldsSame ==
    ASSUME path' = path, path # 0 => data'[path] = data[path]
    PROVE  Holds' = Holds
BY DEF Holds, Load

(***************************************************************************)
(* The state file implements the register: every step is one of its steps, *)
(* or leaves it alone.                                                     *)
(***************************************************************************)
LEMMA StepRegister ==
    ASSUME Kept, [Next]_vars
    PROVE  [Register!Next]_(Register!vars)
<1> USE DEF Register!vars
<1>0. TypeOK
    BY DEF Kept
<1>1. ASSUME NEW p \in Procs, Start(p) PROVE Register!Load(p)
  <2>1. base' = [base EXCEPT ![p] = Holds] /\ UNCHANGED <<path, data, losses>>
    BY <1>1 DEF Start
  <2>2. QED
    BY <2>1, HoldsSame DEF Register!Load
<1>2. ASSUME NEW p \in Procs, Open(p) PROVE UNCHANGED Register!vars
  <2> DEFINE i == IF tmp = 0 THEN fresh ELSE tmp
  <2>1. /\ data' = [j \in DOMAIN data \cup {i} |-> IF j = i THEN <<>> ELSE data[j]]
        /\ UNCHANGED <<path, base, losses>>
    BY <1>2 DEF Open
  <2>2. i # path
    BY <1>0 DEF TypeOK, Kept, Apart
  <2> HIDE DEF i
  <2>3. path # 0 => path \in DOMAIN data
    BY <1>0 DEF TypeOK
  <2>4. Holds' = Holds
    BY <2>1, <2>2, <2>3, HoldsSame
  <2>5. QED
    BY <2>1, <2>4
<1>3. ASSUME NEW p \in Procs, Write(p) PROVE UNCHANGED Register!vars
  <2>1. /\ data' = [data EXCEPT ![fd[p]] = WriteAt(@, off[p], Tag(p))]
        /\ UNCHANGED <<path, base, losses>>
        /\ pc[p] = "write"
    BY <1>3 DEF Write
  <2>2. path # 0 => fd[p] # path /\ path \in DOMAIN data
    <3>1. path # 0 => path \in DOMAIN data
      BY <1>0 DEF TypeOK
    <3>2. path # 0 => fd[p] # path
      BY <2>1 DEF Kept, Writing, Apart
    <3>3. QED
      BY <3>1, <3>2
  <2>3. Holds' = Holds
    BY <2>1, <2>2, HoldsSame
  <2>4. QED
    BY <2>1, <2>3
<1>4. ASSUME NEW p \in Procs, Rename(p) PROVE Register!Replace(p)
  <2>1. /\ pc[p] = "write" /\ off[p] = Blocks /\ path' = tmp /\ tmp # 0
        /\ data' = data /\ base' = base /\ losses' = losses
    BY <1>4 DEF Rename, Saved
  <2>2. data[tmp] = [j \in 1..Blocks |-> Tag(p)]
    BY <2>1 DEF Kept, Writing
  <2>3. Tag(p) \in Runs /\ Tag(p)[1] = p /\ Tag(p)[2] = run[p]
    BY <1>0 DEF TypeOK, Tag, Runs
  <2>4. Holds' = Tag(p)
    BY <2>1, <2>2, <2>3, ParsedWhole DEF Holds, Load
  <2>5. Tag(p) # None
    BY <2>3 DEF Runs
  <2>6. (Holds # None /\ Holds[1] = p) => Holds[2] < run[p]
    <3> SUFFICES ASSUME Holds # None, Holds[1] = p PROVE Holds[2] < run[p]
      OBVIOUS
    <3>1. path # 0 /\ Holds = data[path][1]
      BY HoldsWhole
    <3>2. QED
      BY <2>1, <3>1 DEF Kept, Whole
  <2>7. QED
    BY <2>1, <2>3, <2>4, <2>5, <2>6 DEF Register!Replace
<1>5. ASSUME NEW p \in Procs, FailSave(p) PROVE UNCHANGED Register!vars
    BY <1>5, HoldsSame DEF FailSave, Saved
<1>6. ASSUME NEW p \in Procs, Kill(p) PROVE UNCHANGED Register!vars
    BY <1>6, HoldsSame DEF Kill
<1>7. ASSUME LoseFile PROVE Register!Next
  <2>1. path' = 0 /\ losses' = losses + 1 /\ base' = base
    BY <1>7 DEF LoseFile, procs
  <2>2. Holds' = None
    BY <2>1 DEF Holds, Load
  <2>3. Register!Lose
    BY <2>1, <2>2 DEF Register!Lose
  <2>4. QED
    BY <2>3 DEF Register!Next
<1>8. CASE UNCHANGED vars
    BY <1>8, HoldsSame DEF vars
<1>9. QED
    BY <1>1, <1>2, <1>3, <1>4, <1>5, <1>6, <1>7, <1>8 DEF Next, Register!Next

(***************************************************************************)
(* As long as no two saves overlap the state file is a register: a run     *)
(* loads the whole state of the last run that saved, wherever others were  *)
(* killed and whatever runs there are at the time.                         *)
(***************************************************************************)
THEOREM RegisterAnyway == Spec /\ []SavesApart => Implements
<1>1. Init => Register!Init
    BY DEF Init, Register!Init, Holds, Load
<1>2. Kept /\ [Next]_vars => [Register!Next]_(Register!vars)
    BY StepRegister
<1>3. QED
    BY <1>1, <1>2, WholeAnyway, PTL DEF Spec, Implements, Register!Spec

(***************************************************************************)
(* Where no two runs overlap, the state file is a register.                *)
(***************************************************************************)
THEOREM FileIsRegister ==
    ASSUME ~Overlap
    PROVE  Spec => Implements
<1>1. IInv => SavesApart
    BY DEF IInv, Alone, SavesApart
<1>2. QED
    BY <1>1, AlwaysWhole, RegisterAnyway, PTL
=============================================================================
