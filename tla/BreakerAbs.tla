----------------------------- MODULE BreakerAbs -----------------------------
(***************************************************************************)
(* What the circuit breaker of fabric-wire promises an observer who sees   *)
(* only connect outcomes: per target a run of consecutive connect failures *)
(* (saturating at the threshold), and one counter of trips that moves      *)
(* exactly when a run reaches the threshold.  Windows, probes and time do  *)
(* not appear: module Breaker implements this specification.               *)
(***************************************************************************)
EXTENDS Naturals

CONSTANTS Target,        \* the "host:port" keys
          Threshold,     \* BreakerConfig::threshold
          TripsModulus   \* 2^64 in the code: the trips counter wraps

VARIABLES streak,  \* per target, consecutive failures, saturating at Threshold
          trips    \* closed -> open transitions of all targets together

vars == <<streak, trips>>

Init == /\ streak = [t \in Target |-> 0]
        /\ trips = 0

\* A connect to t succeeded.
Success(t) == /\ streak' = [streak EXCEPT ![t] = 0]
              /\ UNCHANGED trips

\* A connect to t failed and the run is still below, or already at, the threshold.
Failure(t) == /\ streak[t] + 1 < Threshold \/ streak[t] = Threshold
              /\ streak' = [streak EXCEPT ![t] = IF @ = Threshold THEN @ ELSE @ + 1]
              /\ UNCHANGED trips

\* A connect to t failed and completes a run of Threshold failures.
Trip(t) == /\ streak[t] + 1 = Threshold
           /\ streak' = [streak EXCEPT ![t] = Threshold]
           /\ trips' = (trips + 1) % TripsModulus

Next == \E t \in Target : Success(t) \/ Failure(t) \/ Trip(t)

Spec == Init /\ [][Next]_vars
=============================================================================
