--------------------------- MODULE BreakerProofs ----------------------------
(***************************************************************************)
(* The breaker's invariants and its refinement of BreakerAbs, for any set   *)
(* of targets and callers and any threshold and cool-down, however long a  *)
(* connect lasts.                                                           *)
(***************************************************************************)
EXTENDS Breaker, TLAPS

\* The inductive invariant: the two fields of a target agree, and an open
\* window plus the age of any probe of that target covers one cool-down.
IInv == TypeOK /\ OpenIffThreshold /\ WindowCoversProbe /\ ProbeSpacing

USE ThresholdAssumption, CooldownAssumption, AgeCapAssumption,
    FailureCapAssumption, TripsModulusAssumption, IdleAssumption

\* What `record` may leave in `trips` is a counter below the modulus.
LEMMA TripsWrap == ASSUME NEW n \in Nat PROVE (n + 1) % TripsModulus \in 0..(TripsModulus - 1)
  OBVIOUS

\* Every operation of allow, record and the clock keeps the fields in their types.
LEMMA TypeStep == TypeOK /\ [Next]_vars => TypeOK'
<1> SUFFICES ASSUME TypeOK, [Next]_vars PROVE TypeOK'
  OBVIOUS
<1> USE DEF TypeOK, Active, IsOpen, Closed
<1>1. ASSUME NEW c \in Caller, NEW t \in Target, Admit(c, t) PROVE TypeOK'
  BY <1>1 DEF Admit, Rearmed
<1>2. ASSUME NEW c \in Caller, NEW t \in Target, FastFail(c, t) PROVE TypeOK'
  BY <1>2 DEF FastFail, vars
<1>3. ASSUME NEW c \in Caller, Connected(c) PROVE TypeOK'
  BY <1>3 DEF Connected, RecordSuccess, Leave
<1>4. ASSUME NEW c \in Caller, ConnectFailed(c) PROVE TypeOK'
  <2>1. trips' \in 0..(TripsModulus - 1)
    BY <1>4, TripsWrap DEF ConnectFailed, RecordFailure, TripsAfterFailure
  <2>2. at[c] \in Target
    BY <1>4 DEF ConnectFailed
  <2>3. failures' \in [Target -> 0..FailureCap] /\ openUntil' \in [Target -> Closed..Cooldown]
    BY <1>4, <2>2 DEF ConnectFailed, RecordFailure, Saturate
  <2> QED
    BY <1>4, <2>1, <2>3 DEF ConnectFailed, Leave
<1>5. CASE Tick
  BY <1>5 DEF Tick
<1>6. CASE UNCHANGED vars
  BY <1>6 DEF vars
<1> QED
  BY <1>1, <1>2, <1>3, <1>4, <1>5, <1>6 DEF Next

\* allow, record and the clock keep an open window and a full run together.
LEMMA OpenStep == TypeOK /\ OpenIffThreshold /\ [Next]_vars => OpenIffThreshold'
<1> SUFFICES ASSUME TypeOK, OpenIffThreshold, [Next]_vars PROVE OpenIffThreshold'
  OBVIOUS
<1> USE DEF TypeOK, OpenIffThreshold, Active, IsOpen, Closed
<1>1. ASSUME NEW c \in Caller, NEW t \in Target, Admit(c, t) PROVE OpenIffThreshold'
  BY <1>1 DEF Admit, Rearmed
<1>2. ASSUME NEW c \in Caller, NEW t \in Target, FastFail(c, t) PROVE OpenIffThreshold'
  BY <1>2 DEF FastFail, vars
<1>3. ASSUME NEW c \in Caller, Connected(c) PROVE OpenIffThreshold'
  BY <1>3 DEF Connected, RecordSuccess
<1>4. ASSUME NEW c \in Caller, ConnectFailed(c) PROVE OpenIffThreshold'
  BY <1>4 DEF ConnectFailed, RecordFailure, Saturate
<1>5. CASE Tick
  BY <1>5 DEF Tick
<1>6. CASE UNCHANGED vars
  BY <1>6 DEF vars
<1> QED
  BY <1>1, <1>2, <1>3, <1>4, <1>5, <1>6 DEF Next

\* A window is only ever set to a full cool-down, and ages as fast as a probe.
LEMMA WindowStep == TypeOK /\ WindowCoversProbe /\ [Next]_vars => WindowCoversProbe'
<1> SUFFICES ASSUME TypeOK, WindowCoversProbe, [Next]_vars PROVE WindowCoversProbe'
  OBVIOUS
<1> USE DEF TypeOK, WindowCoversProbe, Active, IsOpen, Closed
<1>1. ASSUME NEW c \in Caller, NEW t \in Target, Admit(c, t) PROVE WindowCoversProbe'
  BY <1>1 DEF Admit, Rearmed
<1>2. ASSUME NEW c \in Caller, NEW t \in Target, FastFail(c, t) PROVE WindowCoversProbe'
  BY <1>2 DEF FastFail, vars
<1>3. ASSUME NEW c \in Caller, Connected(c) PROVE WindowCoversProbe'
  BY <1>3 DEF Connected, RecordSuccess, Leave
<1>4. ASSUME NEW c \in Caller, ConnectFailed(c) PROVE WindowCoversProbe'
  BY <1>4 DEF ConnectFailed, RecordFailure, Saturate, Leave
<1>5. CASE Tick
  BY <1>5 DEF Tick
<1>6. CASE UNCHANGED vars
  BY <1>6 DEF vars
<1> QED
  BY <1>1, <1>2, <1>3, <1>4, <1>5, <1>6 DEF Next

\* A new probe is let through only when the window of every older one is used up.
LEMMA SpacingStep ==
  TypeOK /\ WindowCoversProbe /\ ProbeSpacing /\ [Next]_vars => ProbeSpacing'
<1> SUFFICES ASSUME TypeOK, WindowCoversProbe, ProbeSpacing, [Next]_vars
             PROVE  ProbeSpacing'
  OBVIOUS
<1> USE DEF TypeOK, ProbeSpacing, Spaced, Active, IsOpen, Closed
<1>1. ASSUME NEW c \in Caller, NEW t \in Target, Admit(c, t) PROVE ProbeSpacing'
  <2>1. ASSUME NEW d \in Caller, d # c, at[d] = t, probe[d], IsOpen(t)
        PROVE  age[d] >= Cooldown
    BY <1>1, <2>1 DEF Admit, Refuses, WindowCoversProbe
  <2>2. ASSUME NEW d \in Caller, NEW e \in Caller, d # e,
               at'[d] # Idle, at'[d] = at'[e], probe'[d], probe'[e]
        PROVE  Spaced(age'[d], age'[e]) \/ Spaced(age'[e], age'[d])
    <3>0. probe'[c] <=> IsOpen(t)
      BY <1>1, Zenon DEF Admit
    <3>0a. \A f \in Caller : f # c => probe'[f] = probe[f] /\ at'[f] = at[f] /\ age'[f] = age[f]
      BY <1>1 DEF Admit
    <3>0b. at'[c] = t /\ age'[c] = 0
      BY <1>1 DEF Admit
    <3>1. CASE d = c
      <4>1. at[e] = t /\ probe[e] /\ IsOpen(t) /\ age'[e] = age[e] /\ age'[d] = 0
        BY <2>2, <3>0, <3>0a, <3>0b, <3>1, Zenon
      <4> QED
        BY <2>1, <2>2, <3>1, <4>1
    <3>2. CASE e = c
      <4>1. at[d] = t /\ probe[d] /\ IsOpen(t) /\ age'[d] = age[d] /\ age'[e] = 0
        BY <2>2, <3>0, <3>0a, <3>0b, <3>2, Zenon
      <4> QED
        BY <2>1, <2>2, <3>2, <4>1
    <3>3. CASE d # c /\ e # c
      BY <1>1, <2>2, <3>3 DEF Admit
    <3> QED
      BY <3>1, <3>2, <3>3
  <2> QED
    BY <2>2
<1>2. ASSUME NEW c \in Caller, NEW t \in Target, FastFail(c, t) PROVE ProbeSpacing'
  BY <1>2 DEF FastFail, vars
<1>3. ASSUME NEW c \in Caller, Connected(c) PROVE ProbeSpacing'
  BY <1>3 DEF Connected, Leave
<1>4. ASSUME NEW c \in Caller, ConnectFailed(c) PROVE ProbeSpacing'
  BY <1>4 DEF ConnectFailed, Leave
<1>5. CASE Tick
  BY <1>5 DEF Tick
<1>6. CASE UNCHANGED vars
  BY <1>6 DEF vars
<1> QED
  BY <1>1, <1>2, <1>3, <1>4, <1>5, <1>6 DEF Next

\* The inductive invariant holds in every reachable state of the breaker.
THEOREM Invariance == Spec => []IInv
<1>1. Init => IInv
  BY DEF Init, IInv, TypeOK, OpenIffThreshold, WindowCoversProbe, ProbeSpacing,
         IsOpen, Active, Closed
<1>2. IInv /\ [Next]_vars => IInv'
  BY TypeStep, OpenStep, WindowStep, SpacingStep DEF IInv
<1> QED
  BY <1>1, <1>2, PTL DEF Spec

\* Type correctness of the breaker and of the callers inside a connect.
THEOREM TypeCorrect == Spec => []TypeOK
  BY Invariance, PTL DEF IInv

\* failures and open_until of a target never disagree, in any interleaving of
\* overlapping connects.
THEOREM OpenIffThresholdHolds == Spec => []OpenIffThreshold
  BY Invariance, PTL DEF IInv

\* Probes in flight together are a cool-down apart, however long a connect lasts.
THEOREM ProbeSpacingHolds == Spec => []ProbeSpacing
  BY Invariance, PTL DEF IInv

\* The breaker implements the outcome-level contract BreakerAbs.
THEOREM Refinement == Spec => ImplementsAbs
<1> USE DEF TypeOK, OpenIffThreshold, IsOpen, Closed, Streak
<1>1. Init => Abstract!Init
  BY DEF Init, Abstract!Init
<1>2. IInv /\ [Next]_vars => [Abstract!Next]_(Abstract!vars)
  <2> SUFFICES ASSUME IInv, [Next]_vars PROVE [Abstract!Next]_(Abstract!vars)
    OBVIOUS
  <2> USE DEF Active
  <2>0. TypeOK /\ OpenIffThreshold
    BY DEF IInv
  <2>1. ASSUME NEW c \in Caller, Connected(c) PROVE Abstract!Next
    <3>1. PICK t \in Target : t = at[c]
      BY <2>0, <2>1 DEF Connected
    <3>2. /\ failures' = [failures EXCEPT ![t] = 0]
          /\ UNCHANGED trips
      BY <2>1, <3>1 DEF Connected, RecordSuccess
    <3>3. \A u \in Target : Streak'[u] = IF u = t THEN 0 ELSE Streak[u]
      BY <2>0, <3>2
    <3>4. Streak' = [Streak EXCEPT ![t] = 0]
      BY <3>3
    <3>5. Abstract!Success(t)
      BY <3>2, <3>4 DEF Abstract!Success
    <3> QED
      BY <3>5 DEF Abstract!Next
  <2>2. ASSUME NEW c \in Caller, ConnectFailed(c) PROVE Abstract!Next
    <3>1. PICK t \in Target : t = at[c]
      BY <2>0, <2>2 DEF ConnectFailed
    <3>2. RecordFailure(at[c])
      BY <2>2 DEF ConnectFailed
    <3>3. CASE failures[t] + 1 = Threshold
      <4>1. /\ failures' = [failures EXCEPT ![t] = Threshold]
            /\ trips' = (trips + 1) % TripsModulus
        <5>1. Saturate(failures[t]) = Threshold /\ ~IsOpen(t)
          BY <2>0, <3>3 DEF Saturate
        <5> QED
          BY <3>1, <3>2, <5>1 DEF RecordFailure, TripsAfterFailure
      <4>2. \A u \in Target : Streak'[u] = IF u = t THEN Threshold ELSE Streak[u]
        BY <2>0, <4>1
      <4>3. Streak' = [Streak EXCEPT ![t] = Threshold]
        BY <4>2
      <4>4. Streak[t] + 1 = Threshold
        BY <2>0, <3>3
      <4>5. Abstract!Trip(t)
        BY <4>1, <4>3, <4>4 DEF Abstract!Trip
      <4> QED
        BY <4>5 DEF Abstract!Next
    <3>4. CASE failures[t] + 1 # Threshold
      <4>1. /\ failures' = [failures EXCEPT ![t] = Saturate(failures[t])]
            /\ UNCHANGED trips
        BY <2>0, <3>1, <3>2, <3>4 DEF RecordFailure, Saturate, TripsAfterFailure
      <4>2. \A u \in Target : Streak'[u] =
              IF u = t THEN (IF Streak[t] = Threshold THEN Streak[t] ELSE Streak[t] + 1)
                       ELSE Streak[u]
        BY <2>0, <3>4, <4>1 DEF Saturate
      <4>3. Streak' = [Streak EXCEPT ![t] = IF @ = Threshold THEN @ ELSE @ + 1]
        BY <4>2
      <4>4. Streak[t] + 1 < Threshold \/ Streak[t] = Threshold
        BY <2>0, <3>4
      <4>5. Abstract!Failure(t)
        BY <4>1, <4>3, <4>4 DEF Abstract!Failure
      <4> QED
        BY <4>5 DEF Abstract!Next
    <3> QED
      BY <3>3, <3>4
  <2>3. ASSUME UNCHANGED <<failures, trips>> PROVE UNCHANGED Abstract!vars
    BY <2>3 DEF Abstract!vars
  <2> QED
    BY <2>1, <2>2, <2>3 DEF Next, Admit, FastFail, Tick, vars
<1> QED
  BY <1>1, <1>2, Invariance, PTL DEF Spec, ImplementsAbs, Abstract!Spec
=============================================================================
