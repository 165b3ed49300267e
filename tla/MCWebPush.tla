----------------------------- MODULE MCWebPush ------------------------------
(* Instances of WebPush for TLC.                                           *)
EXTENDS WebPush, TLC

Symmetry ==
  Permutations(User) \cup Permutations(Resource) \cup Permutations(Thread)
=============================================================================
