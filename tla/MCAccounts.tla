------------------------------ MODULE MCAccounts ------------------------------
(* Instances of Accounts for TLC. *)
EXTENDS Accounts, TLC

SomeRoles == {"owner", "viewer"}

Symmetry == Permutations(Threads) \cup Permutations(Sessions) \cup Permutations(Passwords)
=============================================================================
