----------------------- MODULE MCConfigurationManager -----------------------
(* Instances of ConfigurationManager for TLC. *)
EXTENDS ConfigurationManager, TLC

\* Requests of the administrator differ only in name.
AdminSymmetry == Permutations(Admins)

=============================================================================
