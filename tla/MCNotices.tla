----------------------------- MODULE MCNotices -----------------------------
(* A small instance of Notices.  Ids of rows are taken in order; users are *)
(* alike, so that states that differ in their names count once.            *)
EXTENDS Notices, TLC

Symmetry == Permutations(User)
=============================================================================
