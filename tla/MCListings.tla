----------------------------- MODULE MCListings -----------------------------
(* Listings of up to three rows, read in pages of one to three. *)
EXTENDS Listings

MCAsked == {-1, 0, 1, 2, 3}
=============================================================================
