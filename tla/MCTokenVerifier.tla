-------------------------- MODULE MCTokenVerifier --------------------------
(* Three key sets with an overlap, as in a rotation; one key never converts. *)
EXTENDS TokenVerifier

MCPublished == <<{"k1"}, {"k1", "k2", "odd"}, {"k2"}>>
=============================================================================
