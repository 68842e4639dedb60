---------------------------- MODULE MCCheckpoint ----------------------------
(***************************************************************************)
(* Checkpoint on small instances: model values for records, processes and  *)
(* services, the real node counts of an MMR, short lists of services.      *)
(***************************************************************************)
EXTENDS Checkpoint, TLC

CONSTANTS s1, s2

MCOneService == {s1}

MCOneServiceLists == {<<>>, <<s1>>}

MCTwoServices == {s1, s2}

MCTwoServicesLists == {<<>>, <<s2, s1>>}

(* 2f - popcount(f), the node count of f leaves, for the few f needed.     *)
MCNodeCount(f) == <<0, 1, 3, 4, 7, 8>>[f + 1]

Symmetry == Permutations(Capsules) \cup Permutations(Emitters)

=============================================================================
