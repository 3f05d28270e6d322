-------------------------- MODULE MCEventPipeline --------------------------
(* Three requests, so that a channel of one or two overflows.               *)
EXTENDS EventPipeline
=============================================================================
