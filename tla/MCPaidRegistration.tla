------------------------- MODULE MCPaidRegistration -------------------------
(* Instances of PaidRegistration for TLC. *)
EXTENDS PaidRegistration, TLC

\* Requests differ only in name; for runs without liveness.
CallSymmetry == Permutations(Calls)

=============================================================================
