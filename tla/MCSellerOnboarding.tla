------------------------- MODULE MCSellerOnboarding -------------------------
(* SellerOnboarding for TLC: request slots are interchangeable. *)
EXTENDS SellerOnboarding, TLC

RequestSymmetry == Permutations(Requests)
=============================================================================
