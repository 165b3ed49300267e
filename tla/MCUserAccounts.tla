--------------------------- MODULE MCUserAccounts ---------------------------
(* Instances of UserAccounts for TLC.                                      *)
EXTENDS UserAccounts, TLC

Symmetry == Permutations(Name) \cup Permutations(Group)
=============================================================================
