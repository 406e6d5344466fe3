--------------------------- MODULE MCGaslessRelay ---------------------------
(* Instances of GaslessRelay small enough for TLC. *)
EXTENDS GaslessRelay, TLC

\* Wallets and worker processes are interchangeable; rows are not, they are
\* numbered in creation order.
Symmetry == Permutations(Workers) \cup Permutations(Signers)

=============================================================================
