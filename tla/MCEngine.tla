------------------------------ MODULE MCEngine ------------------------------
(* Two invocations in turn on one runtime, a limit of no tick, two operations. *)
EXTENDS Capabilities

MCOutputSize == {1, 2}
=============================================================================
