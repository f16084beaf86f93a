-------------------------- MODULE MCConnectAccounts --------------------------
(* Small instances of ConnectAccounts.  Users are interchangeable.          *)
EXTENDS ConnectAccounts, TLC

Symmetry == Permutations(User)
=============================================================================
