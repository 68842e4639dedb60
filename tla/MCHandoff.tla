----------------------------- MODULE MCHandoff -----------------------------
(***************************************************************************)
(* Handoff with a few capsule_ids.                                         *)
(***************************************************************************)
EXTENDS Handoff

(* Ids are names that every action treats alike: whichever unused one the  *)
(* next record gets, the behaviours are the same up to a renaming.         *)
MCFreshIds(used) == IF used = Ids THEN {} ELSE {CHOOSE id \in Ids \ used : TRUE}

=============================================================================
