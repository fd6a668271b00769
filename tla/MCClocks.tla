------------------------------ MODULE MCClocks ------------------------------
(***************************************************************************)
(* Two servers whose clocks agree, or differ by a WARN or by a BAD.        *)
(***************************************************************************)
EXTENDS Clocks

MCSkews == {0, 2, 5}
MCHostErrors == {0, 3}
MCBefore == {-4}
MCForms == {"epoch", "datetime", "text"}
MCDeclarations == {[warn |-> 0, bad |-> 0], [warn |-> 5, bad |-> 0], [warn |-> 0, bad |-> 1]}

\* Clocks that all agree, with a backup every day.
MCAgree == {0}
MCDatetime == {"datetime"}
MCDefaults == {[warn |-> 0, bad |-> 0]}
=============================================================================
