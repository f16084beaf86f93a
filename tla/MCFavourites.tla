---------------------------- MODULE MCFavourites ----------------------------
(* A small instance of Favourites; liveness is checked, so without symmetry. *)
EXTENDS Favourites
=============================================================================
