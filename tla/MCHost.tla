------------------------------- MODULE MCHost -------------------------------
(* Host for TLC.  Threads are interchangeable in a run without liveness.    *)
EXTENDS Host, TLC

Symmetry == Permutations(Thread)
=============================================================================
