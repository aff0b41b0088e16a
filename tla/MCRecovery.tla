------------------------------ MODULE MCRecovery ------------------------------
(* Instances of Recovery for TLC. *)
EXTENDS Recovery, TLC

\* Requests differ only in name, and so do destinations.
Symmetry == Permutations(Requests) \cup Permutations(Dests)

=============================================================================
