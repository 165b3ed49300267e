------------------------- MODULE MCRoomAffiliations -------------------------
(* Instances of RoomAffiliations for TLC.                                  *)
EXTENDS RoomAffiliations, TLC

Symmetry == Permutations(Jid) \cup Permutations(Thread)
=============================================================================
