-------------------------------- MODULE Host --------------------------------
(***************************************************************************)
(* LogicHost::run over the warm runtime pool and the bytecode cache         *)
(* (crates/runlet-core/src/host.rs, pool.rs, bytecode.rs and the module      *)
(* loading of engine.rs), with the graceful teardown of LogicHost::shutdown. *)
(*                                                                         *)
(* The pool is lock-free: `accepting` and `in_flight` are atomics and the    *)
(* warm set is a bounded queue, so each access is a step of its own.  The    *)
(* accesses are interleaved in one order for all threads; the Relaxed        *)
(* ordering the code asks for may show a thread older values still.          *)
(***************************************************************************)
EXTENDS Integers, FiniteSets

CONSTANTS Thread,     \* threads that may be inside LogicHost::run
          Size,       \* JsPool::size, the capacity of the warm queue
          Namespace,  \* Invocation::cache_namespace (the partition key)
          Source,     \* script sources
          Large,      \* the sources at or above min_source_bytes
          None        \* no value

ASSUME ThreadAssumption == IsFiniteSet(Thread)
ASSUME SizeAssumption == Size \in Nat \ {0}
ASSUME SourceAssumption == Large \subseteq Source
ASSUME NoneAssumption == None \notin Namespace \X Source

Job == Namespace \X Source
Pc == {"outside", "accepted", "taken", "counted", "compiling", "loaded", "finished",
       "uncounted", "pushing"}
Shutdown == {"none", "popping", "returned"}

VARIABLES
  pc,         \* per thread, how far LogicHost::run has got
  job,        \* per thread, the namespace and source it was called with
  loaded,     \* per thread, the job whose bytecode its module came from
  idle,       \* runtimes in the warm queue
  live,       \* runtimes that exist: created and not yet dropped
  inFlight,   \* PoolState::in_flight
  accepting,  \* PoolState::accepting
  cache,      \* the bytecode cache: digest -> the job it was compiled for
  shutdown,   \* how far JsPool::shutdown has got
  drained     \* the consumer saw in_flight at zero after shutdown returned

pool == <<idle, live, inFlight, accepting>>
vars == <<pc, job, loaded, idle, live, inFlight, accepting, cache, shutdown, drained>>

\* A key of the source alone.
DigestOfSource(j) == <<CHOOSE n \in Namespace : TRUE, j[2]>>

\* digest: injective in namespace and source (the namespace is length-prefixed).
Digest(j) == j

Init == /\ pc = [t \in Thread |-> "outside"]
        /\ job = [t \in Thread |-> None]
        /\ loaded = [t \in Thread |-> None]
        /\ idle = Size
        /\ live = Size
        /\ inFlight = 0
        /\ accepting = TRUE
        /\ cache = [d \in Job |-> None]
        /\ shutdown = "none"
        /\ drained = FALSE

Goto(t, l) == pc' = [pc EXCEPT ![t] = l]

-----------------------------------------------------------------------------
(* LogicHost::run *)

\* is_accepting() was true: go on to acquire.
Enter(t, j) == /\ pc[t] = "outside"
               /\ accepting
               /\ Goto(t, "accepted")
               /\ job' = [job EXCEPT ![t] = j]
               /\ UNCHANGED <<loaded, idle, live, inFlight, accepting, cache, shutdown, drained>>

\* A registered script that is not there: Err(ScriptNotFound) before acquire.
NotFound(t) == /\ pc[t] = "accepted"
               /\ Goto(t, "outside")
               /\ job' = [job EXCEPT ![t] = None]
               /\ UNCHANGED <<loaded, pool, cache, shutdown, drained>>

\* acquire: pop a warm runtime, or create one when there is none.
Take(t) == /\ pc[t] = "accepted"
           /\ IF idle > 0 THEN idle' = idle - 1 /\ UNCHANGED live
                          ELSE live' = live + 1 /\ UNCHANGED idle
           /\ Goto(t, "taken")
           /\ UNCHANGED <<job, loaded, inFlight, accepting, cache, shutdown, drained>>

\* acquire: the fallback runtime could not be created, Err(Internal).
CreateFailed(t) == /\ pc[t] = "accepted"
                   /\ idle = 0
                   /\ Goto(t, "outside")
                   /\ job' = [job EXCEPT ![t] = None]
                   /\ UNCHANGED <<loaded, pool, cache, shutdown, drained>>

\* acquire: in_flight.fetch_add(1).
Count(t) == /\ pc[t] = "taken"
            /\ inFlight' = inFlight + 1
            /\ Goto(t, "counted")
            /\ UNCHANGED <<job, loaded, idle, live, accepting, cache, shutdown, drained>>

\* obtain_declared, a hit: load the cached bytecode.
Hit(t) == /\ pc[t] = "counted"
          /\ cache[Digest(job[t])] # None
          /\ loaded' = [loaded EXCEPT ![t] = cache[Digest(job[t])]]
          /\ Goto(t, "loaded")
          /\ UNCHANGED <<job, pool, cache, shutdown, drained>>

\* obtain_declared, a miss.
Miss(t) == /\ pc[t] = "counted"
           /\ cache[Digest(job[t])] = None
           /\ Goto(t, "compiling")
           /\ UNCHANGED <<job, loaded, pool, cache, shutdown, drained>>

\* The source compiles, and is cached when it clears the size floor and serializes.
Compiled(t) == /\ pc[t] = "compiling"
               /\ loaded' = [loaded EXCEPT ![t] = job[t]]
               /\ \/ /\ job[t][2] \in Large
                     /\ cache' = [cache EXCEPT ![Digest(job[t])] = job[t]]
                  \/ UNCHANGED cache
               /\ Goto(t, "loaded")
               /\ UNCHANGED <<job, pool, shutdown, drained>>

\* engine::run ends before the module is there: no context, the cached bytecode
\* does not load, the source does not compile or an import does not resolve.
LoadFailed(t) == /\ pc[t] \in {"counted", "compiling"}
                 /\ Goto(t, "finished")
                 /\ UNCHANGED <<job, loaded, pool, cache, shutdown, drained>>

\* engine::run returned: result, script error, timeout or memory limit.
Finish(t) == /\ pc[t] = "loaded"
             /\ Goto(t, "finished")
             /\ loaded' = [loaded EXCEPT ![t] = None]
             /\ UNCHANGED <<job, pool, cache, shutdown, drained>>

\* release that forgets the gauge.
UncountForgets(t) == /\ pc[t] = "finished"
                     /\ Goto(t, "uncounted")
                     /\ UNCHANGED <<job, loaded, pool, cache, shutdown, drained>>

\* release: in_flight.fetch_sub(1).
Uncount(t) == /\ pc[t] = "finished"
              /\ inFlight' = inFlight - 1
              /\ Goto(t, "uncounted")
              /\ UNCHANGED <<job, loaded, idle, live, accepting, cache, shutdown, drained>>

\* release, still accepting: gc, then push.
Keep(t) == /\ pc[t] = "uncounted"
           /\ accepting
           /\ Goto(t, "pushing")
           /\ UNCHANGED <<job, loaded, pool, cache, shutdown, drained>>

Leave(t) == Goto(t, "outside") /\ job' = [job EXCEPT ![t] = None]

\* release, no longer accepting: drop the runtime.
Dispose(t) == /\ pc[t] = "uncounted"
              /\ ~accepting
              /\ live' = live - 1
              /\ Leave(t)
              /\ UNCHANGED <<loaded, idle, inFlight, accepting, cache, shutdown, drained>>

\* A full queue that swallows the runtime without dropping it.
PushLeaks(t) == /\ pc[t] = "pushing"
                /\ IF idle < Size THEN idle' = idle + 1 ELSE UNCHANGED idle
                /\ UNCHANGED live
                /\ Leave(t)
                /\ UNCHANGED <<loaded, inFlight, accepting, cache, shutdown, drained>>

\* drop(queue.push(runtime)): a full queue gives the runtime back and it is dropped.
Push(t) == /\ pc[t] = "pushing"
           /\ IF idle < Size THEN idle' = idle + 1 /\ UNCHANGED live
                             ELSE live' = live - 1 /\ UNCHANGED idle
           /\ Leave(t)
           /\ UNCHANGED <<loaded, inFlight, accepting, cache, shutdown, drained>>

-----------------------------------------------------------------------------
(* Teardown, eviction and the consumer's drain loop *)

\* shutdown: accepting.store(false).
ShutdownStore == /\ shutdown = "none"
                 /\ shutdown' = "popping"
                 /\ accepting' = FALSE
                 /\ UNCHANGED <<pc, job, loaded, idle, live, inFlight, cache, drained>>

\* shutdown: while pop().is_some() {}
ShutdownPop == /\ shutdown = "popping"
               /\ IF idle > 0 THEN /\ idle' = idle - 1
                                   /\ live' = live - 1
                                   /\ UNCHANGED shutdown
                              ELSE /\ shutdown' = "returned"
                                   /\ UNCHANGED <<idle, live>>
               /\ UNCHANGED <<pc, job, loaded, inFlight, accepting, cache, drained>>

\* pool_stats shows in_flight = 0 after shutdown returned: the consumer exits.
PollSeesZero == /\ shutdown = "returned" /\ ~drained
                /\ inFlight = 0
                /\ drained' = TRUE
                /\ UNCHANGED <<pc, job, loaded, pool, cache, shutdown>>

\* moka evicts an entry whenever it likes.
Evict(d) == /\ cache[d] # None
            /\ cache' = [cache EXCEPT ![d] = None]
            /\ UNCHANGED <<pc, job, loaded, pool, shutdown, drained>>

Run(t) == \/ NotFound(t) \/ Take(t) \/ CreateFailed(t) \/ Count(t) \/ Hit(t) \/ Miss(t)
          \/ Compiled(t) \/ LoadFailed(t) \/ Finish(t) \/ Uncount(t) \/ Keep(t) \/ Dispose(t) \/ Push(t)

Next == \/ \E t \in Thread : Run(t) \/ \E j \in Job : Enter(t, j)
        \/ ShutdownStore \/ ShutdownPop \/ PollSeesZero
        \/ \E d \in Job : Evict(d)

Spec == Init /\ [][Next]_vars

\* Threads are scheduled and the engine's deadline ends every script; a
\* teardown that has begun goes on.
Fairness == /\ \A t \in Thread : WF_vars(Run(t))
            /\ WF_vars(ShutdownPop)
            /\ WF_vars(PollSeesZero)

FairSpec == Spec /\ Fairness

-----------------------------------------------------------------------------
(* Properties *)

\* The warm queue keeps within its capacity, the gauge and the number of
\* runtimes never go below zero.
TypeOK == /\ pc \in [Thread -> Pc]
          /\ job \in [Thread -> Job \cup {None}]
          /\ loaded \in [Thread -> Job \cup {None}]
          /\ idle \in 0..Size
          /\ live \in Nat
          /\ inFlight \in Nat
          /\ accepting \in BOOLEAN
          /\ cache \in [Job -> Job \cup {None}]
          /\ shutdown \in Shutdown
          /\ drained \in BOOLEAN

Holders == {t \in Thread : pc[t] \notin {"outside", "accepted"}}
Counted == {t \in Thread : pc[t] \in {"counted", "compiling", "loaded", "finished"}}

\* Every runtime that exists is in the warm queue or with exactly one thread:
\* the races between acquire, release and shutdown neither leak a runtime nor
\* hand it out twice.
RuntimesConserved == live = idle + Cardinality(Holders)

\* The in-flight gauge is the number of executions between acquire and
\* release, on every path through run.
GaugeCounts == inFlight = Cardinality(Counted)

\* An execution only ever evaluates what its own source compiled to, compiled
\* within its own namespace, however cache hits, misses, concurrent compiles
\* and evictions interleave.
RunsOwnCode == \A t \in Thread : pc[t] = "loaded" => loaded[t] = job[t]

\* Once shutdown has returned the host comes to rest: no thread stays inside
\* run, and the drain loop of a consumer ends.
ShutdownQuiesces ==
  (shutdown # "none") ~> [](drained /\ \A t \in Thread : pc[t] = "outside")
=============================================================================
