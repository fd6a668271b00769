---------------------------- MODULE MCStateFile ----------------------------
(***************************************************************************)
(* Two processes whose documents take two writes.                          *)
(***************************************************************************)
EXTENDS StateFile

CONSTANTS p1, p2

MCProcs == {p1, p2}
=============================================================================
