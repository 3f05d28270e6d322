----------------------------- MODULE HostProofs -----------------------------
(***************************************************************************)
(* The runtime pool and the bytecode cache, for any number of threads, any  *)
(* pool size and any sources.  A step moves one thread or none; what it     *)
(* does to the counters is read off the thread's old and new position.      *)
(***************************************************************************)
EXTENDS Host, FiniteSetTheorems, TLAPS

USE ThreadAssumption, SizeAssumption, SourceAssumption, NoneAssumption

\* TypeOK with the two counters as plain integers: that they never go below
\* zero needs the conservation laws.
TypeInv == /\ pc \in [Thread -> Pc]
           /\ job \in [Thread -> Job \cup {None}]
           /\ loaded \in [Thread -> Job \cup {None}]
           /\ idle \in 0..Size
           /\ live \in Int
           /\ inFlight \in Int
           /\ accepting \in BOOLEAN
           /\ cache \in [Job -> Job \cup {None}]
           /\ shutdown \in Shutdown
           /\ drained \in BOOLEAN

\* A thread inside run knows its job.
JobKnown == \A t \in Thread : pc[t] # "outside" => job[t] \in Job

\* A cache entry is what its own key was compiled from.
CacheSound == \A d \in Job : cache[d] # None => cache[d] = d

-----------------------------------------------------------------------------
(* Types *)

\* Every step keeps the types and the job of a thread inside run.
LEMMA TypeStep == TypeInv /\ JobKnown /\ [Next]_vars => TypeInv' /\ JobKnown'
<1> SUFFICES ASSUME TypeInv, JobKnown, [Next]_vars PROVE TypeInv' /\ JobKnown'
  OBVIOUS
<1> USE DEF TypeInv, JobKnown, Pc, Goto, pool
<1>1. ASSUME NEW t \in Thread, NEW j \in Job, Enter(t, j) PROVE TypeInv' /\ JobKnown'
  BY <1>1 DEF Enter
<1>2. ASSUME NEW t \in Thread, NotFound(t) \/ CreateFailed(t) PROVE TypeInv' /\ JobKnown'
  BY <1>2 DEF NotFound, CreateFailed
<1>3. ASSUME NEW t \in Thread, Take(t) PROVE TypeInv' /\ JobKnown'
  BY <1>3 DEF Take
<1>4. ASSUME NEW t \in Thread, Count(t) PROVE TypeInv' /\ JobKnown'
  BY <1>4 DEF Count
<1>5. ASSUME NEW t \in Thread, Hit(t) PROVE TypeInv' /\ JobKnown'
  BY <1>5 DEF Hit, Digest
<1>6. ASSUME NEW t \in Thread, Miss(t) PROVE TypeInv' /\ JobKnown'
  BY <1>6 DEF Miss
<1>7. ASSUME NEW t \in Thread, Compiled(t) PROVE TypeInv' /\ JobKnown'
  BY <1>7 DEF Compiled, Digest
<1>8. ASSUME NEW t \in Thread, LoadFailed(t) PROVE TypeInv' /\ JobKnown'
  BY <1>8 DEF LoadFailed
<1>9. ASSUME NEW t \in Thread, Finish(t) PROVE TypeInv' /\ JobKnown'
  BY <1>9 DEF Finish
<1>10. ASSUME NEW t \in Thread, Uncount(t) PROVE TypeInv' /\ JobKnown'
  BY <1>10 DEF Uncount
<1>11. ASSUME NEW t \in Thread, Keep(t) PROVE TypeInv' /\ JobKnown'
  BY <1>11 DEF Keep
<1>12. ASSUME NEW t \in Thread, Dispose(t) PROVE TypeInv' /\ JobKnown'
  BY <1>12 DEF Dispose, Leave
<1>13. ASSUME NEW t \in Thread, Push(t) PROVE TypeInv' /\ JobKnown'
  BY <1>13 DEF Push, Leave
<1>14. CASE ShutdownStore
  BY <1>14 DEF ShutdownStore, Shutdown
<1>15. CASE ShutdownPop
  BY <1>15 DEF ShutdownPop, Shutdown
<1>16. CASE PollSeesZero
  BY <1>16 DEF PollSeesZero
<1>17. ASSUME NEW d \in Job, Evict(d) PROVE TypeInv' /\ JobKnown'
  BY <1>17 DEF Evict
<1>18. CASE UNCHANGED vars
  BY <1>18 DEF vars
<1> QED
  BY <1>1, <1>2, <1>3, <1>4, <1>5, <1>6, <1>7, <1>8, <1>9, <1>10, <1>11, <1>12, <1>13, <1>14,
     <1>15, <1>16, <1>17, <1>18 DEF Next, Run

-----------------------------------------------------------------------------
(* Counting *)

HolderPc == Pc \ {"outside", "accepted"}
CountedPc == {"counted", "compiling", "loaded", "finished"}
In(f, S) == {t \in Thread : f[t] \in S}

\* The threads at one of a set of positions are finitely many.
LEMMA InFinite ==
  ASSUME NEW f, NEW S PROVE IsFiniteSet(In(f, S)) /\ Cardinality(In(f, S)) \in Nat
  BY FS_Subset, FS_CardinalityType DEF In

\* When one thread moves, the number of threads at a set of positions changes
\* by what that thread does.
LEMMA InMoves ==
  ASSUME NEW f, NEW g, NEW S, NEW t \in Thread, NEW l,
         \A u \in Thread : g[u] = IF u = t THEN l ELSE f[u]
  PROVE  Cardinality(In(g, S)) = Cardinality(In(f, S))
           + (IF l \in S THEN 1 ELSE 0) - (IF f[t] \in S THEN 1 ELSE 0)
<1>1. IsFiniteSet(In(f, S)) /\ Cardinality(In(f, S)) \in Nat
  BY InFinite
<1>2. CASE l \in S <=> f[t] \in S
  <2>1. In(g, S) = In(f, S)
    BY <1>2 DEF In
  <2> QED
    BY <1>1, <1>2, <2>1
<1>3. CASE l \in S /\ f[t] \notin S
  <2>1. In(g, S) = In(f, S) \cup {t} /\ t \notin In(f, S)
    BY <1>3 DEF In
  <2>2. Cardinality(In(g, S)) = Cardinality(In(f, S)) + 1
    BY <1>1, <2>1, FS_AddElement
  <2> QED
    BY <1>1, <1>3, <2>2
<1>4. CASE l \notin S /\ f[t] \in S
  <2>1. In(g, S) = In(f, S) \ {t} /\ t \in In(f, S)
    BY <1>4 DEF In
  <2>2. Cardinality(In(g, S)) = Cardinality(In(f, S)) - 1
    BY <1>1, <2>1, FS_RemoveElement
  <2> QED
    BY <1>1, <1>4, <2>2
<1> QED
  BY <1>2, <1>3, <1>4

\* The two sets the properties count.
LEMMA Counts == TypeInv => Holders = In(pc, HolderPc) /\ Counted = In(pc, CountedPc)
  BY DEF TypeInv, Holders, Counted, In, HolderPc, CountedPc

Counters == RuntimesConserved /\ GaugeCounts

\* The counters stay right in a step that moves t to l, when they change by as
\* much as the two numbers of threads do.
LEMMA CountersMove ==
  ASSUME TypeInv, TypeInv', Counters, NEW t \in Thread, NEW l, Goto(t, l),
         live' - idle' = live - idle + (IF l \in HolderPc THEN 1 ELSE 0)
                                     - (IF pc[t] \in HolderPc THEN 1 ELSE 0),
         inFlight' = inFlight + (IF l \in CountedPc THEN 1 ELSE 0)
                              - (IF pc[t] \in CountedPc THEN 1 ELSE 0)
  PROVE  Counters'
<1>1. Holders = In(pc, HolderPc) /\ Counted = In(pc, CountedPc)
  BY Counts
<1>2. Holders' = In(pc', HolderPc) /\ Counted' = In(pc', CountedPc)
  BY DEF TypeInv, Holders, Counted, In, HolderPc, CountedPc
<1>a. \A u \in Thread : pc'[u] = IF u = t THEN l ELSE pc[u]
  BY DEF Goto, TypeInv
<1>3. /\ Cardinality(In(pc', HolderPc)) = Cardinality(In(pc, HolderPc))
           + (IF l \in HolderPc THEN 1 ELSE 0) - (IF pc[t] \in HolderPc THEN 1 ELSE 0)
      /\ Cardinality(In(pc', CountedPc)) = Cardinality(In(pc, CountedPc))
           + (IF l \in CountedPc THEN 1 ELSE 0) - (IF pc[t] \in CountedPc THEN 1 ELSE 0)
  BY <1>a, InMoves
<1>4. /\ Cardinality(In(pc, HolderPc)) \in Nat
      /\ Cardinality(In(pc, CountedPc)) \in Nat
  BY InFinite
<1>5. RuntimesConserved'
  BY <1>1, <1>2, <1>3, <1>4 DEF Counters, RuntimesConserved, TypeInv
<1>6. GaugeCounts'
  BY <1>1, <1>2, <1>3, <1>4 DEF Counters, GaugeCounts, TypeInv
<1> QED
  BY <1>5, <1>6 DEF Counters

\* No step loses a runtime or miscounts an execution.
LEMMA CountersStep == TypeInv /\ TypeInv' /\ Counters /\ [Next]_vars => Counters'
<1> SUFFICES ASSUME TypeInv, TypeInv', Counters, [Next]_vars PROVE Counters'
  OBVIOUS
<1>1. ASSUME NEW t \in Thread, Run(t) \/ \E j \in Job : Enter(t, j) PROVE Counters'
  <2>1. PICK l : /\ Goto(t, l)
                 /\ live' - idle' = live - idle + (IF l \in HolderPc THEN 1 ELSE 0)
                                                - (IF pc[t] \in HolderPc THEN 1 ELSE 0)
                 /\ inFlight' = inFlight + (IF l \in CountedPc THEN 1 ELSE 0)
                                         - (IF pc[t] \in CountedPc THEN 1 ELSE 0)
    <3> USE DEF TypeInv, Pc, HolderPc, CountedPc, pool
    <3>1. CASE \E j \in Job : Enter(t, j)
      BY <3>1 DEF Enter
    <3>2. CASE NotFound(t)
      BY <3>2 DEF NotFound
    <3>3. CASE CreateFailed(t)
      BY <3>3 DEF CreateFailed
    <3>4. CASE Take(t)
      BY <3>4 DEF Take
    <3>5. CASE Count(t)
      BY <3>5 DEF Count
    <3>6. CASE Hit(t)
      BY <3>6 DEF Hit
    <3>7. CASE Miss(t)
      BY <3>7 DEF Miss
    <3>8. CASE Compiled(t)
      BY <3>8 DEF Compiled
    <3>9. CASE LoadFailed(t)
      BY <3>9 DEF LoadFailed
    <3>10. CASE Finish(t)
      BY <3>10 DEF Finish
    <3>11. CASE Uncount(t)
      BY <3>11 DEF Uncount
    <3>12. CASE Keep(t)
      BY <3>12 DEF Keep
    <3>13. CASE Dispose(t)
      BY <3>13 DEF Dispose, Leave
    <3>14. CASE Push(t)
      <4>1. Goto(t, "outside") /\ pc[t] = "pushing" /\ inFlight' = inFlight
        BY <3>14 DEF Push, Leave
      <4>2. CASE idle < Size
        <5>1. idle' = idle + 1 /\ live' = live
          BY <3>14, <4>2 DEF Push
        <5> QED
          BY <4>1, <5>1
      <4>3. CASE ~(idle < Size)
        <5>1. idle' = idle /\ live' = live - 1
          BY <3>14, <4>3 DEF Push
        <5> QED
          BY <4>1, <5>1
      <4> QED
        BY <4>2, <4>3
    <3> QED
      BY <1>1, <3>1, <3>2, <3>3, <3>4, <3>5, <3>6, <3>7, <3>8, <3>9, <3>10, <3>11, <3>12,
         <3>13, <3>14 DEF Run
  <2> QED
    BY <2>1, CountersMove
<1>2. ASSUME UNCHANGED pc, live' - idle' = live - idle, UNCHANGED inFlight PROVE Counters'
  <2>1. Holders' = Holders /\ Counted' = Counted
    BY <1>2 DEF Holders, Counted
  <2>2. Cardinality(Holders) \in Nat
    BY Counts, InFinite
  <2> QED
    BY <1>2, <2>1, <2>2 DEF Counters, RuntimesConserved, GaugeCounts, TypeInv
<1>3. CASE ShutdownStore
  BY <1>2, <1>3 DEF ShutdownStore, TypeInv
<1>4. CASE ShutdownPop
  <2>1. UNCHANGED pc /\ UNCHANGED inFlight
    BY <1>4 DEF ShutdownPop
  <2>2. (live' = live - 1 /\ idle' = idle - 1) \/ (live' = live /\ idle' = idle)
    BY <1>4 DEF ShutdownPop
  <2>a. live \in Int /\ idle \in Int
    BY DEF TypeInv
  <2>3. live' - idle' = live - idle
    BY <2>2, <2>a
  <2> QED
    BY <1>2, <2>1, <2>3
<1>5. CASE PollSeesZero
  BY <1>2, <1>5 DEF PollSeesZero, pool, TypeInv
<1>6. ASSUME NEW d \in Job, Evict(d) PROVE Counters'
  BY <1>2, <1>6 DEF Evict, pool, TypeInv
<1>7. CASE UNCHANGED vars
  BY <1>2, <1>7 DEF vars, TypeInv
<1> QED
  BY <1>1, <1>3, <1>4, <1>5, <1>6, <1>7 DEF Next

-----------------------------------------------------------------------------
(* The cache *)

\* No step puts a job's code where another job would find it.
LEMMA CacheStep ==
  TypeInv /\ JobKnown /\ CacheSound /\ RunsOwnCode /\ [Next]_vars
    => CacheSound' /\ RunsOwnCode'
<1> SUFFICES ASSUME TypeInv, JobKnown, CacheSound, RunsOwnCode, [Next]_vars
             PROVE  CacheSound' /\ RunsOwnCode'
  OBVIOUS
<1> USE DEF TypeInv, JobKnown, CacheSound, RunsOwnCode, Goto
<1>1. ASSUME NEW t \in Thread, NEW j \in Job, Enter(t, j) PROVE CacheSound' /\ RunsOwnCode'
  BY <1>1 DEF Enter
<1>2. ASSUME NEW t \in Thread, NotFound(t) \/ Take(t) \/ CreateFailed(t) \/ Count(t) \/ Miss(t)
      PROVE  CacheSound' /\ RunsOwnCode'
  BY <1>2 DEF NotFound, Take, CreateFailed, Count, Miss
<1>3. ASSUME NEW t \in Thread, Hit(t) PROVE CacheSound' /\ RunsOwnCode'
  BY <1>3 DEF Hit, Digest
<1>4. ASSUME NEW t \in Thread, Compiled(t) PROVE CacheSound' /\ RunsOwnCode'
  BY <1>4 DEF Compiled, Digest
<1>5. ASSUME NEW t \in Thread, LoadFailed(t) \/ Finish(t) PROVE CacheSound' /\ RunsOwnCode'
  BY <1>5 DEF LoadFailed, Finish
<1>6. ASSUME NEW t \in Thread, Uncount(t) \/ Keep(t) \/ Dispose(t) \/ Push(t)
      PROVE  CacheSound' /\ RunsOwnCode'
  BY <1>6 DEF Uncount, Keep, Dispose, Push, Leave
<1>7. CASE ShutdownStore \/ ShutdownPop \/ PollSeesZero
  BY <1>7 DEF ShutdownStore, ShutdownPop, PollSeesZero
<1>8. ASSUME NEW d \in Job, Evict(d) PROVE CacheSound' /\ RunsOwnCode'
  BY <1>8 DEF Evict
<1>9. CASE UNCHANGED vars
  BY <1>9 DEF vars
<1> QED
  BY <1>1, <1>2, <1>3, <1>4, <1>5, <1>6, <1>7, <1>8, <1>9 DEF Next, Run

-----------------------------------------------------------------------------

Inv == TypeInv /\ JobKnown /\ Counters /\ CacheSound /\ RunsOwnCode

\* The inductive invariant: no interleaving of acquire, release, shutdown,
\* compiles and evictions breaks any part of it.
THEOREM Invariance == Spec => []Inv
<1>1. Init => Inv
  <2> SUFFICES ASSUME Init PROVE Inv
    OBVIOUS
  <2>a. pc \in [Thread -> Pc] /\ shutdown \in Shutdown /\ JobKnown
    BY DEF Init, Pc, Shutdown, JobKnown
  <2>b. idle \in 0..Size /\ live \in Int /\ inFlight \in Int
    BY DEF Init
  <2>c. /\ job \in [Thread -> Job \cup {None}] /\ loaded \in [Thread -> Job \cup {None}]
        /\ cache \in [Job -> Job \cup {None}]
        /\ accepting \in BOOLEAN /\ drained \in BOOLEAN
    BY DEF Init
  <2>1. TypeInv /\ JobKnown
    BY <2>a, <2>b, <2>c DEF TypeInv
  <2>2. Holders = {} /\ Counted = {}
    BY DEF Init, Holders, Counted
  <2>3. Counters
    BY <2>2, FS_EmptySet DEF Init, Counters, RuntimesConserved, GaugeCounts
  <2>4. CacheSound /\ RunsOwnCode
    BY DEF Init, CacheSound, RunsOwnCode
  <2> QED
    BY <2>1, <2>3, <2>4 DEF Inv
<1>2. Inv /\ [Next]_vars => Inv'
  BY TypeStep, CountersStep, CacheStep DEF Inv
<1> QED
  BY <1>1, <1>2, PTL DEF Spec

\* Type correctness: in particular the in-flight gauge, which the code
\* decrements with a wrapping fetch_sub, never passes below zero, and the warm
\* queue never outgrows the pool.
THEOREM TypeCorrect == Spec => []TypeOK
<1>1. Inv => TypeOK
  <2> SUFFICES ASSUME Inv PROVE TypeOK
    OBVIOUS
  <2>1. Cardinality(Holders) \in Nat /\ Cardinality(Counted) \in Nat
    BY Counts, InFinite DEF Inv
  <2>2. live \in Nat /\ inFlight \in Nat
    BY <2>1 DEF Inv, TypeInv, Counters, RuntimesConserved, GaugeCounts
  <2> QED
    BY <2>2 DEF Inv, TypeInv, TypeOK
<1> QED
  BY <1>1, Invariance, PTL

\* acquire, release and shutdown neither leak a runtime nor hand one out twice.
THEOREM RuntimesConservedHolds == Spec => []RuntimesConserved
<1>1. Inv => RuntimesConserved
  BY DEF Inv, Counters
<1> QED
  BY <1>1, Invariance, PTL

\* The in-flight gauge counts the executions between acquire and release.
THEOREM GaugeCountsHolds == Spec => []GaugeCounts
<1>1. Inv => GaugeCounts
  BY DEF Inv, Counters
<1> QED
  BY <1>1, Invariance, PTL

\* A thread only evaluates what its own source compiled to in its own namespace.
THEOREM RunsOwnCodeHolds == Spec => []RunsOwnCode
<1>1. Inv => RunsOwnCode
  BY DEF Inv
<1> QED
  BY <1>1, Invariance, PTL
=============================================================================
