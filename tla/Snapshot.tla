------------------------------ MODULE Snapshot ------------------------------
(***************************************************************************)
(* What a snapshot of a node says of its names (cluster.go), and what a    *)
(* finding is (finding.go).                                                *)
(***************************************************************************)

\* A server under the name it was configured with, and under its own.
Configured(s) == <<"configured", s>>
Own(s) == <<"own", s>>

\* Mutant of Addresses: a node is only known by its name in the configuration.
AddressesConfigured(s) == {Configured(s)}

\* Addresses: every spelling a node answers to.
Addresses(s) == {Configured(s), Own(s)}

\* One statement about one target.
Finding(check, target, st) == [check |-> check, target |-> target, status |-> st]

\* The statuses that are a complaint.
Complaints == {"WARN", "BAD", "ERROR"}
=============================================================================
