---------------------------- MODULE StateRegister ----------------------------
(***************************************************************************)
(* What a state file promises the runs that share it: a register.  It      *)
(* holds the state of the last run that saved, whole, or nothing; a run    *)
(* loads what it holds; saving replaces it at once.  It loses its value    *)
(* only where somebody takes the file away.                                *)
(***************************************************************************)
EXTENDS Integers

CONSTANTS Procs, \* the processes that are given the same --state
          None   \* no baseline

VARIABLES value,  \* the run whose state the register holds, or None
          base,   \* per process, the baseline it loaded
          losses  \* how often the file was taken away

vars == <<value, base, losses>>

Init ==
    /\ value = None
    /\ base = [p \in Procs |-> None]
    /\ losses = 0

Load(p) ==
    /\ base' = [base EXCEPT ![p] = value]
    /\ UNCHANGED <<value, losses>>

\* The run that saves is one of p, and a later one than it saved before.
Replace(p) ==
    /\ value' # None
    /\ value'[1] = p
    /\ (value # None /\ value[1] = p) => value[2] < value'[2]
    /\ UNCHANGED <<base, losses>>

Lose ==
    /\ value' = None
    /\ losses' = losses + 1
    /\ UNCHANGED base

Next == (\E p \in Procs : Load(p) \/ Replace(p)) \/ Lose

Spec == Init /\ [][Next]_vars
=============================================================================
