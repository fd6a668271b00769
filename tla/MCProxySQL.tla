----------------------------- MODULE MCProxySQL -----------------------------
(***************************************************************************)
(* Two nodes, each of them a writer, a reader, both, parked or unlisted.   *)
(***************************************************************************)
EXTENDS ProxySQL, TLC

CONSTANTS n1, n2

MCPlacements == {{}, {Writer}, {Reader}, {Writer, Reader}, {Offline}}

Symmetry == Permutations({n1, n2})
=============================================================================
