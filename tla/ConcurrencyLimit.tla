-------------------------- MODULE ConcurrencyLimit --------------------------
(***************************************************************************)
(* What a bulkhead promises: at most Capacity clients are inside at once,   *)
(* clients enter and leave one at a time, and nobody is inside at the       *)
(* start.  The permits of the `/execute` pipeline (module Execute)          *)
(* implement it.                                                           *)
(***************************************************************************)
EXTENDS Naturals, FiniteSets

CONSTANTS Client, Capacity

VARIABLE inside

Init == inside = {}

Enter(c) == /\ c \notin inside
            /\ Cardinality(inside) < Capacity
            /\ inside' = inside \cup {c}

Leave(c) == /\ c \in inside
            /\ inside' = inside \ {c}

Next == \E c \in Client : Enter(c) \/ Leave(c)

Spec == Init /\ [][Next]_inside
=============================================================================
