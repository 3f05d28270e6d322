------------------------------ MODULE Execute -------------------------------
(***************************************************************************)
(* The `POST /execute` pipeline of the box (crates/runlet/src/handler.rs,   *)
(* run_execute) with the state its requests share: the per-tenant quota     *)
(* (quota.rs), the partition buckets (runlet-core/src/partition.rs), the    *)
(* global bulkhead (AppState::limiter), the event ledger and the process'   *)
(* shutdown (main.rs).                                                      *)
(*                                                                         *)
(* A slot r of Req serves one request after another.  Handlers run in       *)
(* parallel on the multi-threaded runtime, so every access to shared state  *)
(* is a step of its own; what a handler does between two accesses is folded *)
(* into the access.  The two `.await`s (the session handshake and the       *)
(* blocking task) are where hyper drops the handler when the client goes    *)
(* away: Disconnect.  The blocking task is detached then and runs on.       *)
(***************************************************************************)
EXTENDS Integers, Sequences, FiniteSets

CONSTANTS Req,            \* request slots
          Key,            \* tenant ids / partition keys
          Bucket,         \* PartitionLimiter::buckets
          BucketOf,       \* bucket_for: the stable hash of a key
          PlanName,       \* the plan names a request may carry
          PlanLimit,      \* PlanLimits::plans: plan name -> max_concurrent
          Inputs,         \* the requests a client may send
          Trusted,        \* AppState::trusted is Some
          QuotaOn,        \* TrustedState::quota is Some
          PerPartition,   \* permits of a bucket; 0 = no PartitionLimiter
          MaxConcurrent,  \* permits of AppState::limiter
          None            \* an absent tenant, partition or input

(***************************************************************************)
(* The gates before any shared state is touched, in the order of the code:  *)
(* the flaw that fails the gate, the code of the response, the reason of    *)
(* the audit event (None: no event) and whether only trusted mode has it.   *)
(***************************************************************************)
Gate(flaw, code, audit, trustedOnly) ==
  [flaw |-> flaw, code |-> code, audit |-> audit, trustedOnly |-> trustedOnly]

BearerGate == Gate("token", "UNAUTHORIZED", None, FALSE)
IdentityGate(flaw, c) == Gate(flaw, c, c, TRUE)
BodyGate == Gate("body", "MALFORMED_REQUEST", "MALFORMED_REQUEST", FALSE)
MemberGate == Gate("entitlement", "ENTITLEMENT_REQUIRED", "ENTITLEMENT_REQUIRED", TRUE)
ScriptGate(flaw, c) == Gate(flaw, c, "SCRIPT_NOT_FOUND", FALSE)
SizeGate(flaw, c) == Gate(flaw, c, "INPUT_TOO_LARGE", FALSE)

Gates == << BearerGate,
            IdentityGate("anonymous", "ANONYMOUS_FORBIDDEN"),
            IdentityGate("suspended", "SUSPENDED_FORBIDDEN"),
            IdentityGate("tenantless", "TENANT_REQUIRED"),
            IdentityGate("scope", "ACTING_SCOPE_REQUIRED"),
            BodyGate,
            MemberGate,
            ScriptGate("xor", "SCRIPT_XOR_KEY"),
            ScriptGate("unknown", "SCRIPT_NOT_FOUND"),
            SizeGate("script_size", "SCRIPT_TOO_LARGE"),
            SizeGate("context_size", "CONTEXT_TOO_LARGE") >>

Flaw == {Gates[i].flaw : i \in DOMAIN Gates}
GateCode == {Gates[i].code : i \in DOMAIN Gates}

Plan == DOMAIN PlanLimit
Input == [flaws : SUBSET Flaw, tenant : Key \cup {None}, partition : Key \cup {None},
          plan : PlanName \cup {None}, io : BOOLEAN]

ASSUME ReqAssumption == IsFiniteSet(Req)
ASSUME KeyAssumption == None \notin Key /\ None \notin Bucket
ASSUME BucketOfAssumption == BucketOf \in [Key -> Bucket]
ASSUME PlanAssumption == PlanLimit \in [Plan -> Nat] /\ None \notin Plan
ASSUME InputsAssumption == Inputs \subseteq Input /\ None \notin Input
ASSUME ModeAssumption == Trusted \in BOOLEAN /\ QuotaOn \in BOOLEAN
ASSUME ReasonAssumption ==
  None \notin GateCode \cup {"INPUT_TOO_LARGE", "QUOTA_EXCEEDED", "EGRESS_UNAVAILABLE",
                             "OVERLOADED", "allowed"}
ASSUME LimitAssumption == PerPartition \in Nat /\ MaxConcurrent \in Nat

Stage == {"idle", "connecting", "partition", "global", "running", "unwinding",
          "responding", "shed", "done", "gone"}
Task == {"none", "queued", "running", "finished", "aborted", "refused"}
Returned == {"finished", "aborted"}  \* host.run took the invocation and came back
Phase == {"serving", "draining", "stopped"}
SessionCode == {"RESOURCE_UNRESOLVED", "EGRESS_UNAVAILABLE", "EGRESS_PROTOCOL"}
RunCode == {"OK", "ENGINE_ERROR"}
Code == GateCode \cup SessionCode \cup RunCode
          \cup {"QUOTA_EXCEEDED", "PARTITION_OVERLOADED", "OVERLOADED", None}

VARIABLES
  stage,     \* per slot, how far run_execute has got
  input,     \* per slot, the request being served
  task,      \* per slot, the spawn_blocking task of that request
  code,      \* per slot, the code of the response sent (None: none yet)
  ledger,    \* per slot, the events and outcome counters recorded, in order
  inflight,  \* TenantQuota::inflight; an absent entry reads as 0
  bucket,    \* per bucket, its available permits
  permits,   \* available permits of the global limiter
  phase      \* axum::serve, its graceful shutdown, and after it returned

shared == <<inflight, bucket, permits>>
local == <<stage, input, task, code, ledger>>
vars == <<stage, input, task, code, ledger, inflight, bucket, permits, phase>>

Init == /\ stage = [r \in Req |-> "idle"]
        /\ input = [r \in Req |-> None]
        /\ task = [r \in Req |-> "none"]
        /\ code = [r \in Req |-> None]
        /\ ledger = [r \in Req |-> <<>>]
        /\ inflight = [k \in Key |-> 0]
        /\ bucket = [b \in Bucket |-> PerPartition]
        /\ permits = MaxConcurrent
        /\ phase = "serving"

-----------------------------------------------------------------------------
(* Gates, quota and partition keys *)

Flaws(in) == in.flaws \cup (IF in.tenant = None THEN {"tenantless"} ELSE {})

Fails(g, in) == g.flaw \in Flaws(in) /\ (g.trustedOnly => Trusted)
FailedGates(in) == {i \in DOMAIN Gates : Fails(Gates[i], in)}
FirstFailed(in) == Gates[CHOOSE i \in FailedGates(in) : \A j \in FailedGates(in) : i <= j]

\* The minimum of the table, or deny-all when it is empty.
MostRestrictive(plans) ==
  IF plans = {} THEN 0 ELSE CHOOSE n \in {PlanLimit[p] : p \in plans} : \A p \in plans : n <= PlanLimit[p]

LimitFor(plan) == IF plan \in Plan THEN PlanLimit[plan] ELSE MostRestrictive(Plan)

\* Enforced in trusted mode with quota configured; the gates guarantee a tenant.
Metered(in) == Trusted /\ QuotaOn /\ in.tenant # None

\* Refuses only above the limit.
ExceedsStrictly(in) == Metered(in) /\ inflight[in.tenant] > LimitFor(in.plan)

\* check: at or above refuses.
Exceeds(in) == Metered(in) /\ inflight[in.tenant] >= LimitFor(in.plan)

\* QuotaGuard taken and dropped.
Counted(in) == IF Metered(in) THEN [inflight EXCEPT ![in.tenant] = @ + 1] ELSE inflight
Uncounted(in) == IF Metered(in) THEN [inflight EXCEPT ![in.tenant] = IF @ > 0 THEN @ - 1 ELSE 0]
                                ELSE inflight

\* resolve_partition, then whether the limiter is on: the bucket to draw from.
PartitionOf(in) == IF Trusted THEN in.tenant ELSE in.partition
HasBucket(in) == PerPartition > 0 /\ PartitionOf(in) # None
BucketFor(in) == BucketOf[PartitionOf(in)]

-----------------------------------------------------------------------------
(* Events and counters *)

Metric(class) == <<[kind |-> "metric", value |-> class]>>
Audit(reason) == IF reason = None THEN <<>> ELSE <<[kind |-> "audit", value |-> reason]>>
Usage == <<[kind |-> "usage", value |-> "executed"]>>

\* Send the response and return from run_execute; the ledger entries go with it.
Respond(r, c, entries) == /\ code' = [code EXCEPT ![r] = c]
                          /\ ledger' = [ledger EXCEPT ![r] = @ \o entries]
                          /\ stage' = [stage EXCEPT ![r] = "done"]

Goto(r, s) == /\ stage' = [stage EXCEPT ![r] = s]
              /\ UNCHANGED <<code, ledger>>

-----------------------------------------------------------------------------
(* run_execute *)

\* A request that fails a gate, from enforce_auth to validate_input_sizes.
Reject(r, in) ==
  /\ stage[r] = "idle" /\ phase = "serving"
  /\ FailedGates(in) # {}
  /\ input' = [input EXCEPT ![r] = in]
  /\ Respond(r, FirstFailed(in).code, Metric("rejection") \o Audit(FirstFailed(in).audit))
  /\ UNCHANGED <<task, inflight, bucket, permits, phase>>

\* enforce_quota refuses.
QuotaExceeded(r, in) ==
  /\ stage[r] = "idle" /\ phase = "serving"
  /\ FailedGates(in) = {}
  /\ Exceeds(in)
  /\ input' = [input EXCEPT ![r] = in]
  /\ Respond(r, "QUOTA_EXCEEDED", Audit("QUOTA_EXCEEDED") \o Metric("rejection"))
  /\ UNCHANGED <<task, inflight, bucket, permits, phase>>

\* enforce_quota admits: the guard is held until run_execute returns.
Accept(r, in) ==
  /\ stage[r] = "idle" /\ phase = "serving"
  /\ FailedGates(in) = {}
  /\ ~Exceeds(in)
  /\ input' = [input EXCEPT ![r] = in]
  /\ inflight' = Counted(in)
  /\ Goto(r, IF in.io THEN "connecting" ELSE "partition")
  /\ UNCHANGED <<task, bucket, permits, phase>>

\* connect_session returned a session.
SessionOpened(r) ==
  /\ stage[r] = "connecting"
  /\ Goto(r, "partition")
  /\ UNCHANGED <<input, task, inflight, bucket, permits, phase>>

\* connect_session failed.
SessionFailed(r, c) ==
  /\ stage[r] = "connecting"
  /\ Respond(r, c, Metric("rejection") \o Audit("EGRESS_UNAVAILABLE"))
  /\ inflight' = Uncounted(input[r])
  /\ UNCHANGED <<input, task, bucket, permits, phase>>

\* acquire_permits, first half: the bucket of the partition, when there is one.
AcquirePartition(r) ==
  /\ stage[r] = "partition"
  /\ HasBucket(input[r]) => bucket[BucketFor(input[r])] > 0
  /\ bucket' = IF HasBucket(input[r]) THEN [bucket EXCEPT ![BucketFor(input[r])] = @ - 1]
                                      ELSE bucket
  /\ Goto(r, "global")
  /\ UNCHANGED <<input, task, inflight, permits, phase>>

PartitionBusy(r) ==
  /\ stage[r] = "partition"
  /\ HasBucket(input[r]) /\ bucket[BucketFor(input[r])] = 0
  /\ Respond(r, "PARTITION_OVERLOADED", Metric("overload_partition") \o Audit("OVERLOADED"))
  /\ inflight' = Uncounted(input[r])
  /\ UNCHANGED <<input, task, bucket, permits, phase>>

BucketReturned(in) ==
  IF HasBucket(in) THEN [bucket EXCEPT ![BucketFor(in)] = @ + 1] ELSE bucket

\* A limiter that lets the next request in when it is empty.
AcquireGlobalUnchecked(r) ==
  /\ stage[r] = "global"
  /\ permits' = IF permits > 0 THEN permits - 1 ELSE 0
  /\ task' = [task EXCEPT ![r] = "queued"]
  /\ Goto(r, "running")
  /\ UNCHANGED <<input, inflight, bucket, phase>>

\* acquire_permits, second half, and spawn_blocking.
AcquireGlobal(r) ==
  /\ stage[r] = "global"
  /\ permits > 0
  /\ permits' = permits - 1
  /\ task' = [task EXCEPT ![r] = "queued"]
  /\ Goto(r, "running")
  /\ UNCHANGED <<input, inflight, bucket, phase>>

\* A shed request that keeps its partition permit.
GlobalBusyLeaks(r) ==
  /\ stage[r] = "global"
  /\ permits = 0
  /\ Goto(r, "shed")
  /\ UNCHANGED <<input, task, inflight, bucket, permits, phase>>

\* A request that waits for a permit instead of being shed.
GlobalBusyWaits(r) ==
  /\ stage[r] = "global"
  /\ permits = 0
  /\ UNCHANGED vars

\* The partition permit goes out of scope when acquire_permits returns.
GlobalBusy(r) ==
  /\ stage[r] = "global"
  /\ permits = 0
  /\ bucket' = BucketReturned(input[r])
  /\ Goto(r, "shed")
  /\ UNCHANGED <<input, task, inflight, permits, phase>>

Shed(r) ==
  /\ stage[r] = "shed"
  /\ Respond(r, "OVERLOADED", Metric("overload_global") \o Audit("OVERLOADED"))
  /\ inflight' = Uncounted(input[r])
  /\ UNCHANGED <<input, task, bucket, permits, phase>>

\* The await returned: drop(permit).
DropPermit(r) ==
  /\ stage[r] = "running" /\ task[r] \in Returned
  /\ permits' = permits + 1
  /\ Goto(r, "unwinding")
  /\ UNCHANGED <<input, task, inflight, bucket, phase>>

\* drop(partition_permit).
DropPartitionPermit(r) ==
  /\ stage[r] = "unwinding"
  /\ bucket' = BucketReturned(input[r])
  /\ Goto(r, "responding")
  /\ UNCHANGED <<input, task, inflight, permits, phase>>

\* build_response for an execution, without the guard's drop.
BuildResponseKeepsQuota(r, c) ==
  /\ stage[r] = "responding" /\ (c = "OK" => task[r] = "finished")
  /\ Respond(r, c, Usage \o Audit("allowed") \o Metric("execution"))
  /\ UNCHANGED <<input, task, inflight, bucket, permits, phase>>

\* build_response for an execution that only counts successes.
BuildResponseBillsSuccess(r, c) ==
  /\ stage[r] = "responding" /\ (c = "OK" => task[r] = "finished")
  /\ Respond(r, c, (IF c = "OK" THEN Usage ELSE <<>>) \o Audit("allowed") \o Metric("execution"))
  /\ inflight' = Uncounted(input[r])
  /\ UNCHANGED <<input, task, bucket, permits, phase>>

\* build_response, then the quota guard is dropped.  An invocation that failed
\* before its script ran is answered, billed and audited as an execution.
BuildResponse(r, c) ==
  /\ stage[r] = "responding" /\ (c = "OK" => task[r] = "finished")
  /\ Respond(r, c, Usage \o Audit("allowed") \o Metric("execution"))
  /\ inflight' = Uncounted(input[r])
  /\ UNCHANGED <<input, task, bucket, permits, phase>>

\* The client goes away at an await: the handler is dropped with its guards,
\* the JoinHandle is detached, the blocking task goes on.
Disconnect(r) ==
  /\ stage[r] \in {"connecting", "running"}
  /\ inflight' = Uncounted(input[r])
  /\ bucket' = IF stage[r] = "running" THEN BucketReturned(input[r]) ELSE bucket
  /\ permits' = IF stage[r] = "running" THEN permits + 1 ELSE permits
  /\ Goto(r, "gone")
  /\ UNCHANGED <<input, task, phase>>

-----------------------------------------------------------------------------
(* The blocking task: host.run, then the session's metrics are drained *)

TaskStarts(r) == /\ task[r] = "queued" /\ phase # "stopped"
                 /\ task' = [task EXCEPT ![r] = "running"]
                 /\ UNCHANGED <<stage, input, code, ledger, inflight, bucket, permits, phase>>

\* host.run finds the pool closed: Err(ShuttingDown), the script never runs.
TaskRefused(r) == /\ task[r] = "queued" /\ phase = "stopped"
                  /\ task' = [task EXCEPT ![r] = "refused"]
                  /\ UNCHANGED <<stage, input, code, ledger, inflight, bucket, permits, phase>>

\* host.run has no runtime to give, or engine::run no context: an error before
\* the script runs.
TaskAborts(r) == /\ task[r] = "running"
                 /\ task' = [task EXCEPT ![r] = "aborted"]
                 /\ UNCHANGED <<stage, input, code, ledger, inflight, bucket, permits, phase>>

\* The script ran, to its result or to its error.
TaskEnds(r) == /\ task[r] = "running"
               /\ task' = [task EXCEPT ![r] = "finished"]
               /\ UNCHANGED <<stage, input, code, ledger, inflight, bucket, permits, phase>>

-----------------------------------------------------------------------------
(* Connections and the process *)

\* The slot is free for another request once its task is over.
NextRequest(r) == /\ stage[r] \in {"done", "gone"} /\ task[r] \in Returned \cup {"none"}
                  /\ phase = "serving"
                  /\ stage' = [stage EXCEPT ![r] = "idle"]
                  /\ input' = [input EXCEPT ![r] = None]
                  /\ task' = [task EXCEPT ![r] = "none"]
                  /\ code' = [code EXCEPT ![r] = None]
                  /\ ledger' = [ledger EXCEPT ![r] = <<>>]
                  /\ UNCHANGED <<inflight, bucket, permits, phase>>

\* SIGTERM or Ctrl+C: no new request is accepted.
Signal == /\ phase = "serving"
          /\ phase' = "draining"
          /\ UNCHANGED <<local, shared>>

\* axum::serve returned, host_lifecycle.shutdown().
Stop == /\ phase = "draining"
        /\ \A r \in Req : stage[r] \in {"idle", "done", "gone"}
        /\ phase' = "stopped"
        /\ UNCHANGED <<local, shared>>

Arrive(r) == \E in \in Inputs : Reject(r, in) \/ QuotaExceeded(r, in) \/ Accept(r, in)

\* What the handler of r does by itself, without anything from outside.
Handle(r) == \/ AcquirePartition(r) \/ PartitionBusy(r) \/ AcquireGlobal(r)
             \/ GlobalBusy(r) \/ Shed(r) \/ DropPermit(r) \/ DropPartitionPermit(r)
             \/ \E c \in RunCode : BuildResponse(r, c)

RunTask(r) == TaskStarts(r) \/ TaskRefused(r) \/ TaskAborts(r) \/ TaskEnds(r)

Next == \/ \E r \in Req : \/ Arrive(r) \/ Handle(r) \/ RunTask(r)
                          \/ SessionOpened(r) \/ Disconnect(r) \/ NextRequest(r)
                          \/ \E c \in SessionCode : SessionFailed(r, c)
        \/ Signal \/ Stop

Spec == Init /\ [][Next]_vars

\* Handlers are scheduled; a script without driver capabilities ends, by itself
\* or by the engine's deadline.  Nothing bounds the session handshake or the
\* final drain, so no fairness is assumed of a request that uses the sidecar.
Fairness == \A r \in Req : /\ WF_vars(Handle(r))
                           /\ WF_vars(input[r] # None /\ ~input[r].io /\ RunTask(r))

FairSpec == Spec /\ Fairness

-----------------------------------------------------------------------------
(* Properties *)

GateReason == {Gates[i].audit : i \in DOMAIN Gates} \ {None}
EntryValue == GateReason
  \cup {"QUOTA_EXCEEDED", "EGRESS_UNAVAILABLE", "OVERLOADED", "allowed"}
  \cup {"rejection", "overload_partition", "overload_global", "execution", "executed"}
Entry == [kind : {"metric", "audit", "usage"}, value : EntryValue]

\* Every slot is at a known point of run_execute, and no counter or semaphore
\* leaves its range (a permit is never given back twice).
TypeOK == /\ stage \in [Req -> Stage]
          /\ input \in [Req -> Input \cup {None}]
          /\ task \in [Req -> Task]
          /\ code \in [Req -> Code]
          /\ ledger \in [Req -> Seq(Entry)]
          /\ inflight \in [Key -> Nat]
          /\ bucket \in [Bucket -> 0..PerPartition]
          /\ permits \in 0..MaxConcurrent
          /\ phase \in Phase

\* The guards a handler owns at each point of run_execute.
HoldsQuota(r) == /\ stage[r] \in {"connecting", "partition", "global", "running",
                                  "unwinding", "responding", "shed"}
                 /\ Metered(input[r])
HoldsBucket(r) == stage[r] \in {"global", "running", "unwinding"} /\ HasBucket(input[r])
HoldsPermit(r) == stage[r] = "running"

QuotaHolders(k) == {r \in Req : HoldsQuota(r) /\ input[r].tenant = k}
BucketHolders(b) == {r \in Req : HoldsBucket(r) /\ BucketFor(input[r]) = b}
PermitHolders == {r \in Req : HoldsPermit(r)}

\* On every path out of run_execute (each early return, each shed, completion,
\* a handler dropped at an await) the tenant's in-flight count goes back by
\* exactly what the request took: it always equals the live guards.
QuotaConserved == \A k \in Key : inflight[k] = Cardinality(QuotaHolders(k))

\* The same for both semaphores: what is available and what live handlers
\* hold add up to the configured capacity, so nothing leaks and nothing is
\* given back twice.
PermitsConserved ==
  /\ permits + Cardinality(PermitHolders) = MaxConcurrent
  /\ \A b \in Bucket : bucket[b] + Cardinality(BucketHolders(b)) = PerPartition

\* The caps a request's plan puts on its tenant: the plan's own, or every cap
\* of the table for an unknown plan, and none at all without a table.
CapsOn(plan) == IF plan \in Plan THEN {PlanLimit[plan]}
                ELSE IF Plan = {} THEN {0} ELSE {PlanLimit[p] : p \in Plan}

\* A cap is never exceeded by the requests it applies to and those under a
\* stricter one, although one counter per tenant serves requests of different
\* plans; and an unknown plan buys no more than the strictest plan.
QuotaHonored ==
  \A k \in Key : \A r \in QuotaHolders(k) : \A cap \in CapsOn(input[r].plan) :
    Cardinality({s \in QuotaHolders(k) : \E c \in CapsOn(input[s].plan) : c <= cap}) <= cap

Entries(events, kind) == {n \in DOMAIN events : events[n].kind = kind}

\* The events behind a response with code c, to a request executed or not.
Balanced(events, c, executed) ==
  /\ c \in RunCode <=> executed
  /\ Cardinality(Entries(events, "metric")) = 1
  /\ Cardinality(Entries(events, "usage")) = IF executed THEN 1 ELSE 0
  /\ IF c = "UNAUTHORIZED" THEN Entries(events, "audit") = {}
     ELSE \E n \in DOMAIN events : /\ Entries(events, "audit") = {n}
                                  /\ events[n].value = "allowed" <=> executed

\* Every response has exactly one outcome counter and one audit decision
\* behind it (a 401 has no audit event), `allowed` and a usage record exactly
\* when the host took the invocation: no request that a gate, the quota, the
\* session or a shed ended is billed, and none that was executed and answered
\* escapes billing.  An invocation that failed before its script ran is billed
\* as well, but never answered as a success.
ResponseAccounted ==
  \A r \in Req : stage[r] = "done" =>
    /\ Balanced(ledger[r], code[r], task[r] \in Returned)
    /\ code[r] = "OK" => task[r] = "finished"

\* The global limiter is a bulkhead of MaxConcurrent handlers.
Bulkhead == INSTANCE ConcurrencyLimit
              WITH Client <- Req, Capacity <- MaxConcurrent, inside <- PermitHolders
ImplementsBulkhead == Bulkhead!Spec

\* A request without driver capabilities is answered (or its client left): no
\* admission queue, shed or permit wait can hold it up for good.
PlainRequestsEnd ==
  \A r \in Req : (input[r] # None /\ ~input[r].io) ~> stage[r] \in {"done", "gone", "idle"}

\* handler.rs, AppState::limiter: "Bulkhead bounding concurrent executions: a
\* permit is held across the blocking execution span".
BulkheadBoundsExecutions ==
  Cardinality({r \in Req : task[r] = "running"}) <= MaxConcurrent
=============================================================================
