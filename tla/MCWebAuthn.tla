----------------------------- MODULE MCWebAuthn -----------------------------
(* Instances of WebAuthn for TLC.                                          *)
EXTENDS WebAuthn, TLC

Symmetry == Permutations(User) \cup Permutations(Thread)
=============================================================================
