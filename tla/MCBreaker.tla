----------------------------- MODULE MCBreaker ------------------------------
(* Breaker for TLC.  Callers are interchangeable, and so are targets, in a  *)
(* run that checks no liveness.                                             *)
EXTENDS Breaker, TLC

Symmetry == Permutations(Caller) \cup Permutations(Target)
=============================================================================
