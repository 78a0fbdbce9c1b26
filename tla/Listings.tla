------------------------------- MODULE Listings -------------------------------
(***************************************************************************)
(* What a seller makes a listing of: the product itself, and the uploads   *)
(* of the files it shows.                                                  *)
(*                                                                         *)
(* ProductsService and MediaService share neither a table nor a key: a     *)
(* product carries URLs, which nobody compares with the uploads. One of    *)
(* the two at a time is visited, since neither can tell what happens in    *)
(* the other.                                                              *)
(***************************************************************************)
EXTENDS ProductReview, MediaUploads

VARIABLE
  visited   \* the part that is visited

listingVars == <<visited, vars, mediaVars>>

ListingInit ==
  /\ visited \in {"products", "media"}
  /\ Init /\ MediaInit

AtProducts == visited = "products" /\ UNCHANGED mediaVars
AtMedia == visited = "media" /\ UNCHANGED vars

ListingNext ==
  /\ \/ AtProducts /\ Next
     \/ AtMedia /\ MediaNext
  /\ UNCHANGED visited

ListingSpec == ListingInit /\ [][ListingNext]_listingVars
=============================================================================
