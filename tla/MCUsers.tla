------------------------------- MODULE MCUsers -------------------------------
(* A small instance of Users, whose two users are alike.                     *)
EXTENDS Users, TLC

Symmetry == Permutations(User)
=============================================================================
