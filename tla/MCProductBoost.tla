--------------------------- MODULE MCProductBoost ---------------------------
(* ProductBoost for TLC: the slots, and the payments, are interchangeable. *)
EXTENDS ProductBoost, TLC

SlotSymmetry == Permutations(Checkouts) \cup Permutations(Webhooks) \cup Permutations(Payments)
=============================================================================
