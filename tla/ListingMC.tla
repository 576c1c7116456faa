----------------------------- MODULE ListingMC -----------------------------
(***************************************************************************)
(* Model-checking instance of Listing: four names, so that two pages of    *)
(* two, or four of one, can be cut while two clusters come or go.          *)
(***************************************************************************)
EXTENDS Listing

SomeSizes == {Unset, -1, 0, 1, 2, 4}
=============================================================================
