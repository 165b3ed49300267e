---------------------------- MODULE MCSimpleApp ----------------------------
(* An instance of SimpleApp for TLC. *)
EXTENDS SimpleApp, TLC

Symmetry == Permutations(User) \cup Permutations(Password) \cup Permutations(Instance)
=============================================================================
