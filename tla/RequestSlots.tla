----------------------------- MODULE RequestSlots -----------------------------
(* What modules that are composed, in HelpDesk and in Listings, have in common. *)
CONSTANTS
  Requests,   \* slots for requests in flight
  NULL        \* a database NULL

ASSUME SlotsAssumption == NULL \notin Requests
=============================================================================
