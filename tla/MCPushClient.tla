--------------------------- MODULE MCPushClient ----------------------------
(* An instance of PushClient for TLC. *)
EXTENDS PushClient, TLC

Symmetry == Permutations(User) \cup Permutations(Chain) \cup Permutations(Note)
=============================================================================
