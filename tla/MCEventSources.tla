--------------------------- MODULE MCEventSources ---------------------------
(* Instances of EventSources for TLC.                                      *)
EXTENDS EventSources, TLC

Symmetry ==
  Permutations(User) \cup Permutations(Source) \cup Permutations(Thread)
=============================================================================
