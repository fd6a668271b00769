---------------------------- MODULE MCMembership ----------------------------
(***************************************************************************)
(* Two configured nodes and an arbitrator no configuration names.  Three   *)
(* changes split the nodes and bootstrap both halves.                      *)
(***************************************************************************)
EXTENDS Membership, TLC

CONSTANTS n1, n2, garbd

MCFlagSets == {{}, {"node/desync", "node/wsrep-on"}}

Symmetry == Permutations({n1, n2})
=============================================================================
