------------------------------- MODULE MCMmr -------------------------------
(***************************************************************************)
(* Mmr with two digests: every log of up to MaxLeaves records.             *)
(***************************************************************************)
EXTENDS Mmr, TLC

Symmetry == Permutations(Digests)

=============================================================================
