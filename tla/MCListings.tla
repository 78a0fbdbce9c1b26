----------------------------- MODULE MCListings -----------------------------
(* Listings for TLC: a product that lives a full life, another one that is   *)
(* created beside it and may take or hold its SKU, and one upload.           *)
EXTENDS Listings, TLC

CONSTANTS p1, p2

MCMaxAudits == [p \in Products |-> IF p = p1 THEN 3 ELSE 1]

MCSymmetry == Permutations(Requests) \cup Permutations(MediaCalls)
=============================================================================
