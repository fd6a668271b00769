------------------------------ MODULE MCDrift -------------------------------
(***************************************************************************)
(* Three nodes, two application tables and one of the mysql schema.        *)
(***************************************************************************)
EXTENDS Drift, TLC

CONSTANTS n1, n2, n3

MCAppTables == {1, 2}
MCSysTables == {3}
MCExisting  == {1, 3}
MCNodes     == {n1, n2, n3}
MCSymmetry  == Permutations(MCNodes)
=============================================================================
