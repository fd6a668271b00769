------------------------------ MODULE StateFile ------------------------------
(***************************************************************************)
(* The state file as Load and Save touch it (state.go), one system call    *)
(* at a time: Save writes path.tmp and renames it to path.  Processes come *)
(* and go, are killed between any two calls, and leave their temporary     *)
(* file behind.                                                            *)
(*                                                                         *)
(* A file is an inode; a process that has it open goes on writing to it    *)
(* whatever its name has become.  A document is a number of blocks, each   *)
(* of them tagged with the run that wrote it: one that is not all there    *)
(* does not parse.                                                         *)
(***************************************************************************)
EXTENDS Integers, Sequences

CONSTANTS
    Procs,    \* the processes that are given the same --state
    Blocks,   \* the writes that a document takes
    Overlap,  \* two of them may run at the same time
    None,     \* no baseline
    MaxRuns,  \* bounds: the runs of a process,
    MaxLosses \*   and how often the file is taken away

ASSUME BlocksAssumption == Blocks \in Nat \ {0}
ASSUME OverlapAssumption == Overlap \in BOOLEAN
ASSUME BoundsAssumption == MaxRuns \in Nat /\ MaxLosses \in Nat
ASSUME NoneAssumption == None \notin Procs \X Nat

VARIABLES
    path,   \* the inode that path names, 0 for no such file
    tmp,    \* the inode that path.tmp names
    data,   \* per inode, the runs that wrote its blocks; <<>> is a hole
    fresh,  \* the next inode to be allocated
    pc,     \* per process: "down", "pass", "write"
    run,    \* the number of its run
    watching, \* it goes on after a save
    fd,     \* the inode it has open
    off,    \* and how far it has written it
    base,   \* the baseline it loaded
    losses  \* how often the file was taken away

procs == <<pc, run, watching, fd, off, base>>
vars == <<path, tmp, data, fresh, pc, run, watching, fd, off, base, losses>>

-----------------------------------------------------------------------------
Tag(p) == <<p, run[p]>>

\* What Load makes of the bytes it read: the state of a run, or an error.
Parsed(content) ==
    IF /\ Len(content) = Blocks
       /\ content[1] # <<>>
       /\ \A i \in 1..Len(content) : content[i] = content[1]
    THEN [state |-> content[1], err |-> FALSE]
    ELSE [state |-> None, err |-> TRUE]

\* Load: a missing file is not an error.
Load == IF path = 0 THEN [state |-> None, err |-> FALSE] ELSE Parsed(data[path])

\* The baseline main goes on with: of an error it says so and takes none.
Holds == IF Load.err THEN None ELSE Load.state

Init ==
    /\ path = 0
    /\ tmp = 0
    /\ data = [i \in {} |-> <<>>]
    /\ fresh = 1
    /\ pc = [p \in Procs |-> "down"]
    /\ run = [p \in Procs |-> 0]
    /\ watching = [p \in Procs |-> FALSE]
    /\ fd = [p \in Procs |-> 0]
    /\ off = [p \in Procs |-> 0]
    /\ base = [p \in Procs |-> None]
    /\ losses = 0

\* A process starts and loads the file.
Start(p) ==
    /\ pc[p] = "down"
    /\ run[p] < MaxRuns
    /\ ~Overlap => \A q \in Procs : pc[q] = "down"
    /\ base' = [base EXCEPT ![p] = Holds]
    /\ pc' = [pc EXCEPT ![p] = "pass"]
    /\ run' = [run EXCEPT ![p] = @ + 1]
    /\ \E w \in BOOLEAN : watching' = [watching EXCEPT ![p] = w]
    /\ UNCHANGED <<path, tmp, data, fresh, fd, off, losses>>

\* Mutant of Open: the file is written in place.
OpenInPlace(p) ==
    /\ pc[p] = "pass"
    /\ LET i == IF path = 0 THEN fresh ELSE path
       IN  /\ path' = i
           /\ tmp' = i
           /\ fresh' = IF i = fresh THEN fresh + 1 ELSE fresh
           /\ data' = [j \in DOMAIN data \cup {i} |-> IF j = i THEN <<>> ELSE data[j]]
           /\ fd' = [fd EXCEPT ![p] = i]
    /\ off' = [off EXCEPT ![p] = 0]
    /\ pc' = [pc EXCEPT ![p] = "write"]
    /\ UNCHANGED <<run, watching, base, losses>>

\* Save opens path.tmp, new or truncated.
Open(p) ==
    /\ pc[p] = "pass"
    /\ LET i == IF tmp = 0 THEN fresh ELSE tmp
       IN  /\ tmp' = i
           /\ fresh' = IF i = fresh THEN fresh + 1 ELSE fresh
           /\ data' = [j \in DOMAIN data \cup {i} |-> IF j = i THEN <<>> ELSE data[j]]
           /\ fd' = [fd EXCEPT ![p] = i]
    /\ off' = [off EXCEPT ![p] = 0]
    /\ pc' = [pc EXCEPT ![p] = "write"]
    /\ UNCHANGED <<path, run, watching, base, losses>>

\* A block written at offset n: what lies between the end and there is a hole.
WriteAt(content, n, tag) ==
    [j \in 1..(IF Len(content) > n THEN Len(content) ELSE n + 1) |->
        IF j = n + 1 THEN tag ELSE IF j <= Len(content) THEN content[j] ELSE <<>>]

\* Mutant of Write: one write more than the document has.
WriteBeyond(p) ==
    /\ pc[p] = "write"
    /\ off[p] <= Blocks
    /\ data' = [data EXCEPT ![fd[p]] = WriteAt(@, off[p], Tag(p))]
    /\ off' = [off EXCEPT ![p] = @ + 1]
    /\ UNCHANGED <<path, tmp, fresh, pc, run, watching, fd, base, losses>>

\* One write.
Write(p) ==
    /\ pc[p] = "write"
    /\ off[p] < Blocks
    /\ data' = [data EXCEPT ![fd[p]] = WriteAt(@, off[p], Tag(p))]
    /\ off' = [off EXCEPT ![p] = @ + 1]
    /\ UNCHANGED <<path, tmp, fresh, pc, run, watching, fd, base, losses>>

\* Save has returned: a watch goes on to its next pass, any other run exits.
Saved(p) ==
    /\ fd' = [fd EXCEPT ![p] = 0]
    /\ off' = [off EXCEPT ![p] = 0]
    /\ \/ /\ watching[p]
          /\ run[p] < MaxRuns
          /\ run' = [run EXCEPT ![p] = @ + 1]
          /\ pc' = [pc EXCEPT ![p] = "pass"]
       \/ /\ ~watching[p]
          /\ pc' = [pc EXCEPT ![p] = "down"]
          /\ UNCHANGED run
    /\ UNCHANGED <<watching, base, losses>>

\* The document is complete and takes the place of the old one.
Rename(p) ==
    /\ pc[p] = "write"
    /\ off[p] = Blocks
    /\ tmp # 0
    /\ path' = tmp
    /\ tmp' = 0
    /\ Saved(p)
    /\ UNCHANGED <<data, fresh>>

\* The directory cannot be made, the disk is full, or tmp is gone by now.
FailSave(p) ==
    /\ pc[p] \in {"pass", "write"}
    /\ Saved(p)
    /\ UNCHANGED <<path, tmp, data, fresh>>

\* The process is killed; what it had open is closed.
Kill(p) ==
    /\ pc[p] # "down"
    /\ pc' = [pc EXCEPT ![p] = "down"]
    /\ watching' = [watching EXCEPT ![p] = FALSE]
    /\ fd' = [fd EXCEPT ![p] = 0]
    /\ off' = [off EXCEPT ![p] = 0]
    /\ UNCHANGED <<path, tmp, data, fresh, run, base, losses>>

\* Somebody deletes the state file.
LoseFile ==
    /\ losses < MaxLosses
    /\ path' = 0
    /\ losses' = losses + 1
    /\ UNCHANGED <<tmp, data, fresh, procs>>

Next ==
    \/ \E p \in Procs : \/ Start(p)
                        \/ Open(p)
                        \/ Write(p)
                        \/ Rename(p)
                        \/ FailSave(p)
                        \/ Kill(p)
    \/ LoseFile

Spec == Init /\ [][Next]_vars

-----------------------------------------------------------------------------
Runs == Procs \X Nat

TypeOK ==
    /\ path \in Nat /\ tmp \in Nat
    /\ fresh \in Nat \ {0}
    /\ DOMAIN data = 1..(fresh - 1)
    /\ \A i \in DOMAIN data : data[i] \in Seq(Runs \cup {<<>>})
    /\ path < fresh /\ tmp < fresh
    /\ pc \in [Procs -> {"down", "pass", "write"}]
    /\ run \in [Procs -> Nat]
    /\ watching \in [Procs -> BOOLEAN]
    /\ fd \in [Procs -> Nat]
    /\ off \in [Procs -> 0..Blocks]
    /\ base \in [Procs -> Runs \cup {None}]
    /\ losses \in Nat

Register == INSTANCE StateRegister WITH value <- Holds

(***************************************************************************)
(* Where the runs do not overlap, the file is a register: whatever was     *)
(* interrupted, and wherever, a run loads the whole state of the last run  *)
(* that saved, and it is replaced at once (Save: "an interrupted run       *)
(* cannot leave a half-written baseline that the next one reads").         *)
(***************************************************************************)
Implements == Register!Spec

(***************************************************************************)
(* The inductive invariant.  Nothing writes to the inode of path; a        *)
(* process that writes has tmp open, and has written so much of its own    *)
(* document to it; what path holds is a whole document of an earlier run.  *)
(* It is kept as long as no two saves are under way at once, which they    *)
(* are not where no two runs are.                                          *)
(***************************************************************************)
Alone ==
    \A p, q \in Procs : (pc[p] # "down" /\ pc[q] # "down") => p = q

SavesApart ==
    \A p, q \in Procs : (pc[p] = "write" /\ pc[q] = "write") => p = q

Apart == path # 0 => path # tmp

Writing ==
    \A p \in Procs :
        pc[p] = "write" =>
            /\ tmp # 0
            /\ fd[p] = tmp
            /\ data[tmp] = [j \in 1..off[p] |-> Tag(p)]

Whole ==
    path # 0 =>
        LET t == data[path][1]
        IN  /\ t \in Runs
            /\ data[path] = [j \in 1..Blocks |-> t]
            /\ IF pc[t[1]] = "down" THEN t[2] <= run[t[1]] ELSE t[2] < run[t[1]]

Kept == TypeOK /\ Apart /\ Writing /\ Whole

IInv == Kept /\ Alone
=============================================================================
