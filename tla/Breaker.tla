------------------------------ MODULE Breaker -------------------------------
(***************************************************************************)
(* The per-target circuit breaker (crates/fabric-wire/src/breaker.rs) under *)
(* its only caller, connect_through_breaker (crates/fabric-backends/src/    *)
(* db.rs): a thread asks `allow`, connects WITHOUT holding the breaker's    *)
(* mutex, and reports the outcome with `record`.  Both methods are atomic   *)
(* (one Mutex guards the map); connects of several threads overlap.         *)
(*                                                                         *)
(* Time is relative: openUntil[t] is what is left of the open window of t   *)
(* and age[c] how long ago the connect of c was admitted, both advanced by  *)
(* Tick.  A connect may last for ever: the connect_timeout of db.rs covers  *)
(* TCP only, the start-up exchange and the SET after it have no limit.      *)
(* `now.checked_add(cooldown)` cannot overflow: the cool-down is a   *)
(* u64 of milliseconds, far below the range of an Instant.                  *)
(***************************************************************************)
EXTENDS Integers

CONSTANTS Target,        \* the "host:port" keys
          Caller,        \* threads that may be inside connect_through_breaker
          Threshold,     \* BreakerConfig::threshold (new returns None for 0)
          Cooldown,      \* BreakerConfig::cooldown, in ticks
          AgeCap,        \* the age up to which connects are told apart
          FailureCap,    \* u32::MAX: where the failure count saturates
          TripsModulus,  \* 2^64: where the trips counter wraps
          Idle           \* no target: the caller is in no connect

ASSUME IdleAssumption == Idle \notin Target
ASSUME ThresholdAssumption == Threshold \in Nat \ {0}
ASSUME CooldownAssumption == Cooldown \in Nat
ASSUME AgeCapAssumption == AgeCap \in Nat /\ Cooldown <= AgeCap
ASSUME FailureCapAssumption == FailureCap \in Nat /\ Threshold <= FailureCap
ASSUME TripsModulusAssumption == TripsModulus \in Nat \ {0}

Closed == -1  \* open_until = None

VARIABLES
  failures,   \* TargetState::failures; an absent entry reads as 0
  openUntil,  \* TargetState::open_until: Closed, or ticks left of the window
  trips,      \* CircuitBreaker::trips
  at,         \* per caller, the target it is connecting to, or Idle
  age,        \* per caller, ticks since `allow` admitted it, AgeCap at most
  probe       \* per caller, whether `allow` admitted it as a half-open probe

breaker == <<failures, openUntil, trips>>
vars == <<failures, openUntil, trips, at, age, probe>>

\* The fields of CircuitBreaker stay in range: the failure count within a u32,
\* what is left of a window within the cool-down, every caller at one target.
TypeOK == /\ failures \in [Target -> 0..FailureCap]
          /\ openUntil \in [Target -> Closed..Cooldown]
          /\ trips \in 0..(TripsModulus - 1)
          /\ at \in [Caller -> Target \cup {Idle}]
          /\ age \in [Caller -> 0..AgeCap]
          /\ probe \in [Caller -> BOOLEAN]

IsOpen(t) == openUntil[t] # Closed
Active(c) == at[c] # Idle

Init == /\ failures = [t \in Target |-> 0]
        /\ openUntil = [t \in Target |-> Closed]
        /\ trips = 0
        /\ at = [c \in Caller |-> Idle]
        /\ age = [c \in Caller |-> 0]
        /\ probe = [c \in Caller |-> FALSE]

-----------------------------------------------------------------------------
(* allow *)

\* A half-open breaker that waits for its probe to resolve.
RefusesUntilResolved(t) ==
  openUntil[t] > 0 \/ \E c \in Caller : at[c] = t /\ probe[c]

\* Some(until) if now < until => false
Refuses(t) == openUntil[t] > 0

\* A probe that leaves the elapsed window as it is.
NeverRearmed(t) == openUntil[t]

\* Some(_) => { open_until = now + cooldown; true }: the half-open re-arm.
Rearmed(t) == IF IsOpen(t) THEN Cooldown ELSE Closed

\* allow returned true: the caller goes on to connect.
Admit(c, t) == /\ ~Active(c)
               /\ ~Refuses(t)
               /\ openUntil' = [openUntil EXCEPT ![t] = Rearmed(t)]
               /\ at' = [at EXCEPT ![c] = t]
               /\ age' = [age EXCEPT ![c] = 0]
               /\ probe' = [probe EXCEPT ![c] = IsOpen(t)]
               /\ UNCHANGED <<failures, trips>>

\* allow returned false: Err(CircuitOpen), no connect, nothing recorded.
FastFail(c, t) == /\ ~Active(c)
                  /\ Refuses(t)
                  /\ UNCHANGED vars

-----------------------------------------------------------------------------
(* record, after the connect of c ended *)

\* failures.saturating_add(1)
Saturate(n) == IF n < FailureCap THEN n + 1 ELSE n

\* Every failure at the threshold counts as a trip.
CountsEveryFailure(t) == (trips + 1) % TripsModulus

\* if open_until.is_none() { trips += 1 }
TripsAfterFailure(t) ==
  IF IsOpen(t) THEN trips ELSE (trips + 1) % TripsModulus

Leave(c) == /\ at' = [at EXCEPT ![c] = Idle]
            /\ age' = [age EXCEPT ![c] = 0]
            /\ probe' = [probe EXCEPT ![c] = FALSE]

\* A success that leaves the failure count behind.
SuccessKeepsFailures(t) == /\ openUntil' = [openUntil EXCEPT ![t] = Closed]
                           /\ UNCHANGED <<failures, trips>>

RecordSuccess(t) == /\ failures' = [failures EXCEPT ![t] = 0]
                    /\ openUntil' = [openUntil EXCEPT ![t] = Closed]
                    /\ UNCHANGED trips

RecordFailure(t) ==
  LET n == Saturate(failures[t]) IN
    /\ failures' = [failures EXCEPT ![t] = n]
    /\ IF n >= Threshold
         THEN /\ trips' = TripsAfterFailure(t)
              /\ openUntil' = [openUntil EXCEPT ![t] = Cooldown]
         ELSE UNCHANGED <<openUntil, trips>>

Connected(c) == /\ Active(c)
                /\ RecordSuccess(at[c])
                /\ Leave(c)

ConnectFailed(c) == /\ Active(c)
                    /\ RecordFailure(at[c])
                    /\ Leave(c)

-----------------------------------------------------------------------------

\* One tick of the clock, whatever the connects under way do.
Tick == /\ openUntil' = [t \in Target |-> IF openUntil[t] > 0 THEN openUntil[t] - 1
                                                              ELSE openUntil[t]]
        /\ age' = [c \in Caller |-> IF Active(c) /\ age[c] < AgeCap THEN age[c] + 1
                                                                   ELSE age[c]]
        /\ UNCHANGED <<failures, trips, at, probe>>

Next == \/ \E c \in Caller, t \in Target : Admit(c, t) \/ FastFail(c, t)
        \/ \E c \in Caller : Connected(c) \/ ConnectFailed(c)
        \/ Tick

Spec == Init /\ [][Next]_vars

\* Time passes.  Nothing makes a connect end.
Fairness == WF_vars(Tick)

FairSpec == Spec /\ Fairness

-----------------------------------------------------------------------------
(* Properties *)

\* A window stands exactly while the run of consecutive failures has reached
\* the threshold, whatever the order in which overlapping connects report to
\* `record` (a success that overtakes failures, failures that arrive while a
\* probe is out): the two fields of TargetState never disagree.
OpenIffThreshold == \A t \in Target : IsOpen(t) <=> failures[t] >= Threshold

\* `allow` re-arms the window when it lets a probe through, so two probes of
\* one target that are in flight together, as they are when a connect outlasts
\* the cool-down, were admitted at least one cool-down apart.  (An age at
\* AgeCap stands for every age from there on.)
Spaced(older, younger) == older >= younger + Cooldown \/ older = AgeCap
ProbeSpacing ==
  \A c, d \in Caller :
    (c # d /\ Active(c) /\ at[c] = at[d] /\ probe[c] /\ probe[d])
      => Spaced(age[c], age[d]) \/ Spaced(age[d], age[c])

\* What is left of an open window and the age of a probe of that target add
\* up to the cool-down at least: the strengthening ProbeSpacing needs.
WindowCoversProbe ==
  \A c \in Caller :
    (Active(c) /\ probe[c] /\ IsOpen(at[c])) => openUntil[at[c]] + age[c] >= Cooldown

\* Outcome-level contract: `trips` moves exactly when a run of consecutive
\* failures of a target reaches the threshold, and a success always starts a
\* new run.
Streak == [t \in Target |-> IF failures[t] < Threshold THEN failures[t] ELSE Threshold]
Abstract == INSTANCE BreakerAbs WITH streak <- Streak
ImplementsAbs == Abstract!Spec

\* No wedge: whatever becomes of the connects under way (they fail one after
\* the other and re-arm the window each time, succeed, or hang for ever, a
\* probe included), `allow` is again and again ready to let somebody through to
\* every target.  It needs only that time passes.
ReadyAgain == \A t \in Target : []<>~Refuses(t)
=============================================================================
