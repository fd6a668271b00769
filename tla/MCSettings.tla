----------------------------- MODULE MCSettings -----------------------------
(***************************************************************************)
(* Three nodes, one of them (two, for the weights) set up unlike the rest. *)
(***************************************************************************)
EXTENDS Settings

MCVoters == 1..3
MCGone  == 9
MCOdd   == {1}

MCWeightings == {w \in [MCVoters -> 0..3] : w[2] \in {1, 2} /\ w[3] = 1}
MCPeerLists  == {{}, {1}, {2, 3}, {9}, {2, 9}}
MCIds == {[control |-> FALSE, offset |-> o, step |-> s] : o \in 1..3, s \in 1..3}
             \cup {[control |-> TRUE, offset |-> 1, step |-> 1]}
=============================================================================
