------------------------- MODULE MCSessionRegistry -------------------------
(* Instances of SessionRegistry for TLC.                                   *)
EXTENDS SessionRegistry, TLC

Symmetry == Permutations(User) \cup Permutations(Thread) \cup Permutations(Conn)
=============================================================================
