------------------------- MODULE MCAddressLifecycle -------------------------
(* Instances of AddressLifecycle for TLC. *)
EXTENDS AddressLifecycle, TLC

CONSTANTS alice, bob, d1, d2

\* One address that was restored from the relays before the run, or none.
OneRestored == <<alice>>
NoneRestored == <<>>

\* Handlers and destinations differ only in name; for runs without liveness.
Symmetry == Permutations(Handlers) \cup Permutations(Dests)

=============================================================================
