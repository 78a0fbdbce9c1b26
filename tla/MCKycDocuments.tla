--------------------------- MODULE MCKycDocuments ---------------------------
(* KycDocuments for TLC. *)
EXTENDS KycDocuments

MCSymmetry == Permutations(Sellers) \cup Permutations(Requests) \cup Permutations(Pans)
=============================================================================
