------------------------------ MODULE MCFabric ------------------------------
(* Two requests over two connections and one slot in the daemon.            *)
EXTENDS Fabric
=============================================================================
