---------------------------- MODULE MCCategoryTree ---------------------------
(* CategoryTree for TLC. *)
EXTENDS CategoryTree, TLC

MCSymmetry == Permutations(Requests)
=============================================================================
