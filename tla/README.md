# runlet / fabricd: a TLA+ model of the jsbox runtime

`runlet` (the *box*) executes untrusted JavaScript handlers over HTTP: `POST /execute`
authenticates and admits a request, runs the script in a pooled QuickJS runtime on a blocking
thread, and answers. The box holds no credentials: driver capabilities (`db`, `mongo`, `mail`,
`redis`, `amq`, `auth`) go over a session to the sidecar daemon `fabricd`, which resolves logical
resource names within the caller's tenant and talks to the backends. This directory models the
parts of that system whose correctness depends on interleavings, failures and deadlines.

Paths below are relative to `src/crates/`.

## Inventory

| component | state | operations | what is hard |
|---|---|---|---|
| execute pipeline (`runlet/src/handler.rs`) | per request: how far it got, the guards it owns | `run_execute`: eleven gates, quota, session, two permits, blocking task, response | early returns, cancellation at an await, detached task |
| quota (`runlet/src/quota.rs`) | in-flight count per tenant | `admit`, guard drop | mixed and unknown plans, leak or double return |
| partition fairness (`runlet-core/src/partition.rs`), bulkhead (`AppState::limiter`) | semaphores | `try_acquire`, permit drop | two-step acquisition |
| events (`runlet/src/events.rs`) | bounded channel | `record`, writer, shutdown flush | which request is billed, drops, flush order |
| lifecycle (`runlet/src/main.rs`) | serving, draining, stopped | signal, graceful shutdown, host teardown | detached tasks outlive `axum::serve` |
| logic host and pool (`runlet-core/src/host.rs`, `pool.rs`) | warm queue, `in_flight`, `accepting` | `run`, `acquire`, `release`, `shutdown`, `stats` | lock-free, check-then-act |
| bytecode cache (`runlet-core/src/bytecode.rs`, `engine.rs`) | digest -> bytecode | lookup, compile, insert, evict | concurrent compiles, tenant isolation |
| engine (`runlet-core/src/engine.rs`) | one QuickJS context | evaluate, deadline, op limit, emit, output cap, error classification | deadline races, boundaries |
| `api` and `s3` globals (`runlet-core/src/http.rs`, `s3.rs`) | a metrics collector each, which is also the op budget | request with redirects; presign, usage page by page, delete | the server decides where a chain goes and how long a listing is; not polled by the interrupt handler |
| egress client (`runlet/src/sidecar.rs`) | one stream per session, one shared QUIC connection | `connect_session`, `call`, `drain_metrics` | late replies, torn frames, untimed steps |
| wire protocol (`fabric-wire/src/wire.rs`) | frames | `write_frame`, `read_frame` | end of stream, size cap |
| fabricd (`fabricd/src/main.rs`, `auth.rs`) | connection permits; per session: `BackendSet` | accept loops, `serve`, `dispatch`, authenticate | client gone, death mid-call, a slot per connection |
| resource table, backend set (`fabric-backends/src/resources.rs`, `backendset.rs`) | operator table; lazily connected slots | `resolve`, `call`, `metrics` | tenant scoping, cached failures |
| backends (`fabric-backends/src/db.rs`, `mongo.rs`, `kv.rs`, `mail.rs`, `amq.rs`, `auth.rs`) | a connection or client per session, a transaction, a deadline | `call` | effects that come after the call was given up, half-done batches, caps counted by metrics |
| circuit breaker (`fabric-wire/src/breaker.rs`, caller in `fabric-backends/src/db.rs`) | per target failures and window | `allow`, `record` | overlapping connects, probes, saturation |
| token verifier (`fabric-backends/src/sa_token.rs`) | cached JWKS | background refresh, `verify` | stale keys, stalled fetch |

How they interact: a handler calls the host on a blocking thread; the engine calls the egress
client synchronously from the script; the client and the daemon exchange frames on one stream per
request; the daemon calls the backends on a blocking thread of its own. Requests share the quota
map, the semaphores, the runtime pool, the bytecode cache and the QUIC connection. Sessions share
nothing but the read-only resource table.

## Modules

| module | models | state and actions |
|---|---|---|
| `Breaker` | `CircuitBreaker` under `connect_through_breaker` | `failures`, `openUntil`, `trips` are the fields; `at`, `age`, `probe` say what each thread is doing. `Admit` and `FastFail` are `allow`, `Connected` and `ConnectFailed` are `connect` plus `record`; `Tick` is the clock |
| `BreakerAbs` | what an observer of connect outcomes is promised | runs of consecutive failures and the trips counter |
| `Execute` | `run_execute`, quota, partitions, bulkhead, event ledger, shutdown | one slot per connection; every access to shared state is an action; `Disconnect` is a handler dropped at one of the two awaits; `Gates` lists the rejections before any shared state in the order of the code |
| `ConcurrencyLimit` | what a bulkhead promises | a set of clients inside, bounded |
| `Host` | `LogicHost::run`, `JsPool`, `BytecodeCache`, module loading, teardown, a consumer's drain loop | one program counter per thread, one action per atomic access |
| `Session` | one box-request session: `sidecar.rs`, `wire.rs`, `serve`, `resolve`, `BackendSet` | two sequences of frames and the two ends; the deadline may cut a read (`CallTimesOut`, which leaves the rest of a frame) or a write (`CallTorn`); an operation given up may take effect later (`late`, `LateEffect`); the daemon may die |
| `Engine` | `engine::run` on a pooled runtime, and the status answered | `pc` follows `run`; the script is an adversary that may emit, call, throw, return or loop in each of its three phases; `handlerOf`, `elapsed` and `timedOut` are the interrupt handler and its flag; `ran`, `accepted`, `performed` are history. An emit is JSON or not, for `__emit` takes any text and `drain_effects` leaves out what does not parse |
| `Capabilities` | the `api` and `s3` globals, on top of `Engine` | `native` is the function that runs; `host` and `previous` the chain of redirects, `listing`, `more` and `usage` the listing, `recorded` the two collectors, `sent` (history) what really went out. Every step is a step of `Engine` or leaves its variables alone (`CapabilitiesKeepEngine`) |
| `EventPipeline` | `events.rs`, the emit functions of `handler.rs` and the order in which `main` ends | handlers with their sinks, blocking tasks, the bounded channel, the writer, `main`; the channel closes when the last clone of the sink is gone |
| `TokenVerifier` | `JwksVerifier`, its refresh loop, `SaTokenAuthenticator`, the issuer and the kubelet | `version` is what the issuer publishes, `answers` the documents under way, `keys` and `loaded` the cache, `fetched` (history) the sets this daemon has had since it started; `LookupKey` or `UnknownKey`, then `Accept` or `Reject`, are the two halves of `verify`, with the swap of the cache possible between them; `Restart` is a new daemon |
| `Fabric` | `QuicClient` and `connect_session` against the accept loop, connections and streams of the daemon | `at` follows `connect_session` through the async mutex (`lock`), reuse, dial, failover and the second attempt; `link` and `server` are the two ends of a connection; `permits` the semaphore of the daemon |
| `Backends` | the calls of a session on its `BackendSet`, down to Postgres, MongoDB, Redis, SMTP, the OIDC provider and the brokers | `calls` is what the script asked and was told, `at` the session's thread; `wire`, `tx`, `block`, `saved` the Postgres side, `flying`, `performed` the others, `discovered` and `endpoints` the OIDC document, `published`, `taken` and `refused` the messages of a batch and what the broker made of them |
| `MCBreaker`, `MCExecute`, `MCHost`, `MCSession`, `MCEngine`, `MCEventPipeline`, `MCTokenVerifier`, `MCFabric`, `MCBackends` | the instances TLC checks | constants, inputs, symmetry |
| `BreakerProofs`, `ExecuteProofs`, `HostProofs`, `EngineProofs`, `EventPipelineProofs`, `SessionProofs`, `BackendsProofs`, `FabricProofs` (also those of `TokenVerifier`, hence its `Verifier...` names) | theorems | see below |

Operators whose comment describes a wrong variant (`NeverRearmed`, `GlobalBusyLeaks`,
`ServeAnyCall`, ...) are not part of any specification. They are the mutations that show that each
property can fail: put in place of the definition that follows them, they make TLC report it.

### Abstractions

* Time in `Breaker` is relative: what is left of a window, how long ago a connect was admitted.
  A poisoned mutex (fail open) cannot occur: the workspace is built with `panic = "abort"`.
* A blocking task of `Execute` that `host.run` took ends `finished`, when the script ran, or
  `aborted`, when there was no runtime or context for it; `build_response` treats both alike.
* A request of `Execute` carries the set of its flaws; header parsing, body parsing and the
  entitlement table decide them outside the model. A gate's audit reason is not always its
  response code, exactly as in the code.
* The digest of `Host` is the identity on (namespace, source): SHA-256 over a length-prefixed
  namespace is taken to be injective. Atomics are interleaved in one order for all threads.
  Scripts that are no ES modules never reach the cache and behave as sources below the size floor.
* A frame of `Session` carries its call's number, which the code's frames do not: it says where a
  reply came from and is never looked at by an action of the box.
* In `Engine` a refused or failed `emit`, `read` or `io.call` is an exception the script may catch,
  and so no step of its own; the tag of an error is a Boolean (a known source or not). The QuickJS
  job queue is not modelled.
* A URL of `Capabilities` is its host, and `Permitted` are the hosts that pass `is_host_allowed`
  and `block_private_ip`; that a name resolves to another address at connect time than at the check
  (what `SsrfResolver` is for) is a request that fails. A page of a listing is followed by another
  or not. Calls refused before they do anything are the script's own business, as above.
* An event of `EventPipeline` is its request and kind. Events are enabled; the sink that drops
  everything has nothing to show.
* A token of `TokenVerifier` names a key, was signed with that key of the issuer or not, and has
  claims that fit this daemon (issuer, audience, expiry) or not. The kubelet's token has all of it;
  a client may present any other.
* One replica of fabricd stands for all in `Fabric`: they share nothing, so another's address is
  one whose dial fails. A connection is reference counted, as `quinn`'s is, and its identity is
  used again once nobody holds it. The Unix-socket transport has neither cache nor permits.
* The calls of `Backends` come from a set of scripts, so that a run can hold every pair of calls
  and the longer sequences transactions need. A payload is good, malformed (the `BackendSet`
  refuses it) or invalid (the backend does). Postgres is a queue of messages and a server session
  with its transaction state; the other systems take a request and perform it or not, at any time,
  whether or not the call still waits. `db` and `mongo` share a session deadline each; the rest
  have a timeout in their client. Redis and the `request` of `amq` share the actions of the other
  single-request backends; that the redis client skips the reply of a command it gave up on before
  it reads the next is an assumption on that crate (redis 1.2.2), not something `kv.rs` does. The
  broker is RabbitMQ or NATS and takes the messages of a batch one by one or refuses the rest;
  `channel.close` returns when RabbitMQ has dealt with all of them.
* A frame cut in the middle is a `Torn` element. Written in part, it swallows what follows it: the
  daemon gets enough bytes to complete it and fails to decode (the session ends), or waits for more.
  Read in part, its rest is taken for a frame: for a length above the cap (an error that costs four
  bytes), or for one that reaches into the frames behind it (`Remains`).
* Time in `Breaker` is counted up to `AgeCap`, the age of a connect from which on it is old;
  `Capabilities` counts what it sends up to `SentCap`, the first count above the limit.

## Runs

| run | instance | properties |
|---|---|---|
| `breaker` | 2 targets, 3 callers, threshold 2, cool-down 2, ages told apart up to 4, failure cap 3, trips modulo 3 | `OpenIffThreshold`, `ProbeSpacing`, `ImplementsAbs`, `ReadyAgain` hold |
| `execute` | trusted mode, 3 slots, 3 tenants, 2 buckets of 2, bulkhead of 2, plans of 1 and 2 and an unknown one | `QuotaConserved`, `PermitsConserved`, `QuotaHonored`, `ResponseAccounted`, `ImplementsBulkhead` hold |
| `execute_local` | single-tenant mode, 2 slots, capacities of 1, with fairness | `PlainRequestsEnd` holds |
| `execute_bulkhead` | 2 slots, bulkhead of 1 | `BulkheadBoundsExecutions` is violated |
| `engine` | 2 invocations in turn on one runtime, a limit that the first tick passes, 2 operations, output cap of 1 with results of 1 and 2, both profiles, a permitted host and one that is not, chains of 2 requests, delete allowed, with fairness | `TimeoutIsTrue`, `EgressBudget`, `EffectsSurvive`, `NetworkConfined`, `UsageComplete`, `RunEnds` hold |
| `host` | 2 threads, 1 warm runtime, 2 namespaces, a source above and one below the size floor | `RuntimesConserved`, `RunsOwnCode`, `ShutdownQuiesces` hold |
| `session` | up to 3 calls, 2 kinds (one stateless), 6 kinds of `Init`, with fairness | `RepliesInOrder`, `EffectsInOrder`, `OnlyOwnResources`, `MetricsAreFinal`, `CallsReturn`, `SessionEnds`, `DaemonReleases` hold |
| `session_reply` | 2 calls | `ReplyAnswersCall` is violated |
| `fabric` | 2 requests, 2 connections, 2 addresses, 1 connection permit, 1 stream per connection, with fairness | `ConnectionSlots`, `NotCutByOthers`, `RequestsEnd` hold |
| `tokens` | 3 key sets that overlap, with a key that does not convert, 2 sessions, tokens of every kind | `FailClosed`, `KeysNeverGoBack`, `CacheConverges` hold |
| `events` | 3 requests, one of them with sidecar capabilities, a channel of 1, with fairness | `EventsAccounted`, `FlushedAtExit`, `ShutdownEnds` hold |
| `backends` | every pair of 20 kinds of call, triples of `db` and of `mail`, blocks of four `db` calls; caps of 1 row, 1 recipient, 1 send, batches of 2, an introspection URL in the configuration and none for user info | `TransactionsAreHeld`, `AnswersAreTrue`, `SendsBounded`, `EffectsMetered`, `CallsEnd` hold |

`TypeOK` of each module, `CapTypeOK`, `VerifierTypeOK` and `GaugeCounts` of `Host` are no properties
of a run: they are proved (below).

Why the bounds are enough. In `breaker` two probes can be out at once while a third caller reports
an old outcome, the failure count reaches its cap and `trips` wraps. In `execute` the third slot
meets a full bucket, a full bulkhead and a tenant at its cap; a slot serves any number of requests
one after the other, so there is no bound on the history. In `host` a second thread always finds
the queue empty and overflows it on the way back. In `engine` the deadline can fall in every phase,
the second invocation meets whatever the first left, and both caps are reached; invocations
alternate without bound. In `session` three calls are what a chain of
displaced replies needs (the reply to call 1 goes to call 2, that to call 2 to call 3), and an
effect that comes late has two others to come after. The op limit
of 2 in `engine` ends a listing after one page that names another as well as before its first, and
a second host lets a redirect stray from a permitted one. In `fabric` a request finds the stream of
the shared connection taken, the only permit taken by a connection that nobody uses any more, and
the mutex held by a request that dials, fails over or is dropped. In `tokens` an answer asked for
before a rotation can arrive after it, a key is in two consecutive sets, and a daemon that starts
late never fetches the first. In `events` a channel of
one is full as soon as an execution has two events. In `backends` one call can take effect during
the next; the four-call blocks (`begin`, `execute`, anything, `commit` or `rollback`) hold every way
to lose or keep a write of a transaction, and three mails meet a cap of one. Deadlock is
not checked where the system may stop for good (a stopped process, a finished session).

### Fairness

* `Breaker`: the clock advances, and nothing else. No connect has to end: only its TCP part has a
  timeout, the startup of the Postgres session and the `SET` after it have none. `ReadyAgain` is
  therefore about the window: it never stays shut on account of a probe that does not report.
* `Execute`: handlers are scheduled; a script without driver capabilities ends by itself or by the
  engine's deadline. No fairness for a request that uses the sidecar: the handshake and the drain
  have no timeout.
* `Host`: threads are scheduled, the deadline ends every script, a teardown that began goes on.
* `Engine`, `Capabilities`: the thread is scheduled, time passes, and native calls end (`api` and
  `s3` by their client's timeout; egress calls are `Session`'s subject). QuickJS counts down to its
  next poll across native calls, so a script that keeps making them is polled again and again:
  strong fairness of `Interrupted`. Nothing else is assumed of the script. A listing ends because
  every page that arrives uses up the op budget.
* `Session`: both ends are scheduled, the clock runs and every script ends. Nothing is assumed of a
  dispatch, which may hang, nor of a read that starts inside a frame. `CallsReturn` needs nothing
  more; `DaemonReleases` says in its statement that no dispatch hangs (`DispatchesEnd`), and
  `SessionEnds` that besides no frame was cut, for the drain has no deadline to fall back on.
* `Fabric`: the tasks of box and daemon are scheduled; `quinn` notices a dropped handle and times an
  idle or half-open connection out; the tokio mutex and the waiters of `open_bi` are queues, hence
  strong fairness for the requests that contend. A daemon that is up goes on accepting and answers
  an `Init`. Nothing is assumed of the network, and the daemon may stop and start at will.
* `TokenVerifier`: none. `CacheConverges` has as its hypothesis that refreshes go on to succeed.
* `EventPipeline`: handlers and blocking tasks of requests without sidecar capabilities are
  scheduled and end (the deadline ends their scripts), the writer and `main` are scheduled. A request
  with such capabilities may wait in the handshake or the drain for good, and shutdown waits with it:
  `ShutdownEnds` has as its hypothesis that those end (`IoEnds`). Nothing makes the signal come.
* `Backends`: the session's thread runs and the deadlines pass. No remote system is fair. Connecting
  to Postgres or Redis and publishing a batch have no time limit in the code, so they get no fairness
  and `CallsEnd` says nothing about them.

### What the violations show

1. **`BulkheadBoundsExecutions`**: when the client disconnects, axum drops
   the handler at the await of `spawn_blocking`; the permits and the quota guard are released and
   nothing is emitted, but the blocking task runs to its end.
2. **`ReplyAnswersCall`**: after `IO_TIMEOUT` the stream stays in use and frames have no call ids,
   so the next call takes the late reply for its own.

### Known limits of the code

What the models show, or what reading the code for them showed, that no run states as a property.

* `allow` re-arms the window for one cool-down: a connect that lasts longer is joined by another
  probe, contrary to the comment on `allow`. `ProbeSpacing` is what holds: probes are a cool-down
  apart, not one at a time. A probe that hangs neither trips nor closes anything. `fabricd` passes
  `breaker: None`, so the breaker guards nothing in the shipped daemon.
* `LogicHost::run` checks `is_accepting` long before `acquire` counts it, so a consumer's drain loop
  can see zero before a script starts. `ShutdownQuiesces` is what holds.
* A cyclic value or a throwing `toJSON` is `Internal`, a retryable 500, after the egress calls took
  effect; so is a `harden` that fails after top-level calls. A deadline that strikes while the top
  level is evaluated is answered `SYNTAX_ERROR`. A failing `Context::full` leaves the interrupt
  handler installed (harmless: the next invocation replaces it, see `TimeoutIsTrue`).
* An execution whose client disconnected has no `usage` and no audit event, which are emitted after
  the await, although `openspec/specs/tenant-metering/spec.md:17` says "for every request that runs
  to execution (any terminal outcome)"; the trace of `BulkheadBoundsExecutions` begins with such an
  execution.
* An engine error before the script runs (no runtime, no context) is metered and audited as
  `allowed`, like an execution (`handler.rs:924`).
* What a script passes to `__emit` and is no JSON is accepted and then left out without an error.
* The drain of the metrics is the one round-trip without a timeout. A frame of which the deadline
  cut the writing makes both ends wait for each other until the connection goes; one of which it cut
  the reading leaves the drain with the rest, on which it may wait as well. A dispatch that hangs
  holds the session, its connections and, through the drain, the execution behind it. The handshake
  has no timeout either: a daemon that accepts and stays silent holds the request while its client
  waits.
* The sessions of a QUIC connection that is lost run on while its permit is free again, so more
  sessions than `max_connections` connections can carry may run (`fabric-wire/src/quic.rs:46`).
  `fabricd` ends when accepting on its Unix socket fails.
* The JWKS client has no timeout: a stalled fetch stops the refreshing.
* `commit` in a transaction that has failed answers ok and saves nothing, as Postgres does; the
  script has seen the failure before (`AnswersAreTrue` covers blocks in which nothing failed).
* `amq.send` and the connects of `db` and `redis` have no time limit, contrary to the comment at
  `fabricd/src/main.rs:400`. A batch that failed is metered with 0 messages although some are out
  (`amq.rs:457`). NATS' flush says that the messages went out on the connection, no more.
* The first outcome of a connect is kept for the session, a failure too.
* An operation that timed out may take effect after operations the script asked for later; for
  Postgres not on the same connection, which serves its messages in order (`Backends`).
* A page or delete of `s3` that fails is sent and not recorded (`s3.rs:532`, `s3.rs:752`), and the op
  limit counts what is recorded: a script that catches the error may send any number of them,
  although `openspec/specs/s3/spec.md:108` says "each list page SHALL count as one operation against
  `max_ops`" and `:142` "Every `s3` operation SHALL be recorded as a metric". `NetworkConfined`
  therefore bounds what goes to the store only by what is recorded, and what `api` sends by `max_ops`.
* RabbitMQ refuses a message by closing the channel; `publish_batch` asks for no confirms and drops
  what the closing says (`amq.rs:326`), so a refused batch may be answered `{published: n}`, although
  `openspec/specs/amq/spec.md:185` says that `amq.send` throws "WHEN a message fails to publish after
  the connection is open". `Backends` has that outcome, and `AnswersAreTrue` claims of a batch only
  that it was handed over.
* `MAX_REDIRECTS` counts the requests of a chain with the first: 5 allow four redirects.
* The audit reason differs from the response code for several rejections, and a 401 has no audit
  event (`openspec/specs/tenant-audit/spec.md:17` asks for one per request); a runtime may be pushed
  back after `shutdown` emptied the queue and stays there (conserved, not disposed); an outcome
  counted as a success may still be answered as `MALFORMED_RESPONSE`.

## Proofs

TLAPS checks the theorems below for every value of the constants, from the named assumptions of
the modules: finite sets of requests and threads, positive threshold and pool size, ranges of
limits, a `None` that is no key, plan, response code or frame, scripts of `Backends` that are
sequences of calls no longer than the engine's operation limit. Every invariant of a passing run
is a theorem, and so are the action property `KeysNeverGoBack` and the two refinements.

* **`BreakerProofs`**. `IInv` is `TypeOK`, `OpenIffThreshold`, `WindowCoversProbe` and
  `ProbeSpacing`. `ProbeSpacing` alone is not inductive: a new probe is a cool-down younger than
  an old one only because what is left of the window and the age of the old probe add up to the
  cool-down (`WindowCoversProbe`), which `allow` re-establishes and `Tick` preserves.
  `Refinement` maps the failure count, cut off at the threshold, to the abstract run: every
  `record` is a `Success`, `Failure` or `Trip`, everything else stutters. The step that trips needs
  `OpenIffThreshold`, for the code decides by the window and the abstraction by the count.
* **`ExecuteProofs`**. The invariant adds to the types that a slot which is not idle has a request
  (`Occupied`), and states both conservation laws and the plan caps. The proof classifies every step
  once (`StepEffect`: which guard of which slot is taken or given back) and then counts.
  `QuotaHonored` follows from the stronger fact that no cap is exceeded by the holders under it.
  `BulkheadRefinement` maps the handlers that hold a permit to the clients inside.
  `ResponseAccounted` has an invariant of its own (`BooksKept`): a handler records nothing before it
  answers, and its task has not begun at the stages before the permits and has ended at those after
  the await, so that the one step that answers decides the whole ledger. `executed` means there that
  `host.run` took the invocation, which is what the code bills, and only a script that ran is
  answered `OK`. Two kinds of ledger arise, a refusal's and an execution's; lemmas about their few
  entries say that each balances.
* **`HostProofs`**. Runtimes and gauge are counted by two sets of program points; one lemma says how
  the size of such a set changes when a thread moves. `RunsOwnCode` needs that every cache entry
  was compiled from the job its digest stands for.
* **`EngineProofs`**. `TimeoutIsTrue` needs that the flag is set only past the limit, which needs
  that the handler polled is the invocation's own and measures its running time (`OwnHandler`);
  `EgressBudget` and `EffectsSurvive` need that counter and buffer equal what the script was
  granted; the effects are then the part of the buffer that parses. One lemma serves all the steps
  that end the user code (`ConcludeIInv`). `CapabilitiesKeepEngine` shows that the `api` and `s3`
  globals add steps the engine has already or does not see, so that all of this holds with them.
  `NetworkConfined` and `UsageComplete` need `UnderWay`: a request under way was below the limit
  when it was sent and nothing of its collector is recorded before it ends.
* **`EventPipelineProofs`**. `EventsAccounted` is inductive with the types; `FlushedAtExit` needs
  `Quiet`: as `main` goes through its stages the senders, the channel and the writer's hand are
  empty for good, in that order.
* **`SessionProofs`**. The calls of a session form one line: results the script has, replies in the
  stream, the call the daemon dispatches, calls still queued (`InOrder`); every step moves calls
  along it and none past another. `RepliesInOrder` further needs `Displaced`: whatever is still to
  come back belongs to the call the script waits for, or to one at or behind a call that was given
  up. `EffectsInOrder` needs `Truthful` (a reply of success in the stream stands for an effect that
  was not given up) and that what was given up is behind the call in hand, so that an effect in its
  time comes after all others that were not late. `MetricsAreFinal` needs `Phases` and `Metered`:
  metrics are sent when the stream to the daemon is empty for good. `OnlyOwnResources` follows from
  what `resolve` checks before it fills a slot (`Resolved`). Most of the actions of the box and the
  daemon share lemmas on writing a frame, taking the first one, and a call that comes to nothing
  (`LostCall`).
* **`BackendsProofs`**. About forty actions fall into a few classes by what they change
  (`StepClass`); a class that leaves the Postgres connection alone preserves what is said about it
  by one lemma (`DbFrame`), and a returning call by another (`ReturnDb`). `SendsBounded` is
  inductive given that the metrics count every mail that is under way or sent (`MetersOnce`), which
  is also `EffectsMetered`. Of a batch `AnswersAreTrue` claims what the code knows, that it was
  handed over and (RabbitMQ) dealt with, and no more. `TransactionsAreHeld` and the commit clause of
  `AnswersAreTrue` rest on the state of the wire: messages are in the order of the calls and later
  than everything answered or in the transaction (`WireOrder`); a server that takes a message of a
  block is in a transaction, as it is while the script may still send one (`BlocksOpen`), for
  otherwise a write would be saved at once; and a rollback asked for after a write that is not saved
  yet is still to be taken, or was never sent because the connection was gone, and then nothing
  behind it comes either (`RollbacksDue`), for otherwise a later commit would save what the script
  had given up. `CleanBlocks` says that as long as nothing in a block has failed, the server holds
  all its writes and nothing but the call under way is on the wire; a successful commit of it
  therefore saves all of them.
* **`FabricProofs`**. The invariant adds that a request past `live_connection` holds a connection
  (`HoldsOne`). `ConnectionSlots` is a count: each of the daemon's steps moves at most one
  connection in or out of the admitted set, and a restart empties it. `NotCutByOthers` goes through
  because a connection closes only when its last holder lets go or the link fails. The verifier has
  an invariant of its own: the cache is the key map of one published set (`CacheIsOneSet`), and a
  document is under way only while the loop waits for it and is no older than the cache
  (`OneFetch`): the loop has one fetch at a time, which is why a slow answer cannot overwrite a
  newer one. `FailClosed` must speak of every set fetched since the start, for the cache may be
  swapped between lookup and acceptance; `fetched` begins empty with every daemon.

Only model-checked: the liveness properties (`ReadyAgain`, `PlainRequestsEnd`, `RunEnds`,
`ShutdownQuiesces`, `CallsReturn`, `SessionEnds`, `DaemonReleases`, `RequestsEnd`, `CacheConverges`,
`ShutdownEnds`, `CallsEnd`): fairness is out of the prover's reach.

## Not modelled

Response bodies, `meta`, logging and spans; header, body and payload parsing; SQL, BSON, mail and
message conversions; S3 signatures and the address classes of the SSRF filter; TLS and QUIC endpoint
configuration; the `sys` capability and the read hook; the job queue of QuickJS; start-up,
configuration and telemetry. `PROJECT.json` lists every component with its reason.

## Plan

1. The safety facts that liveness rests on, as invariants with proofs: what a request, a session or
   a shutdown that has not ended can still do, and who holds what it waits for.
2. Lemmas shared between the proof modules (streams, counts of slots) stated once.
