-------------------------- MODULE MCClaimsRegistry --------------------------
(* An instance of ClaimsRegistry small enough for TLC. *)
EXTENDS ClaimsRegistry, TLC

\* Accounts are interchangeable until the constructor tells them apart.
Symmetry == Permutations(Accounts) \cup Permutations(PermitIds)

=============================================================================
