--------------------------- MODULE ExecuteProofs ----------------------------
(***************************************************************************)
(* The accounting of the `/execute` pipeline, for any number of requests,   *)
(* any plan table and any limits.  Every step is first reduced to what it   *)
(* does to the guards of one request (StepEffect); the invariants then       *)
(* follow from that without looking at the actions again.                   *)
(***************************************************************************)
EXTENDS Execute, FiniteSetTheorems, SequenceTheorems, WellFoundedInduction, TLAPS

USE ReqAssumption, KeyAssumption, BucketOfAssumption, PlanAssumption, InputsAssumption,
    ModeAssumption, LimitAssumption

-----------------------------------------------------------------------------
(* The operators the pipeline is built from *)

\* A nonempty set of numbers has a least element: what both CHOOSEs rely on.
LEMMA NatMin == ASSUME NEW S \in SUBSET Nat, S # {} PROVE \E i \in S : \A j \in S : i <= j
<1>1. PICK i \in S : \A j \in S : ~(<<j, i>> \in OpToRel(<, Nat))
  BY NatLessThanWellFounded, WFMin, Zenon
<1>2. \A j \in S : ~(j < i)
  BY <1>1 DEF OpToRel
<1> QED
  BY <1>2

\* Every gate of the table has a response code and, but for the 401, a reason.
LEMMA GateTable ==
  ASSUME NEW i \in DOMAIN Gates
  PROVE  /\ i \in Nat
         /\ Gates[i].code \in GateCode
         /\ Gates[i].audit # None => Gates[i].audit \in GateReason
<1>1. DOMAIN Gates = 1..11
  BY DEF Gates
<1> QED
  BY <1>1 DEF GateCode, GateReason

\* The gate that answers a rejected request is one of the table.
LEMMA FirstFailedIsGate ==
  ASSUME NEW in \in Input, FailedGates(in) # {}
  PROVE  /\ FirstFailed(in).code \in GateCode
         /\ FirstFailed(in).audit # None => FirstFailed(in).audit \in GateReason
<1>1. FailedGates(in) \subseteq DOMAIN Gates
  BY DEF FailedGates
<1>2. \E i \in FailedGates(in) : \A j \in FailedGates(in) : i <= j
  BY <1>1, GateTable, NatMin
<1>3. PICK i \in DOMAIN Gates : FirstFailed(in) = Gates[i]
  BY <1>1, <1>2, Zenon DEF FirstFailed
<1> QED
  BY <1>3, GateTable

\* limit_for picks one of the caps that apply to a plan, and no other is lower.
LEMMA LimitIsStrictest ==
  ASSUME NEW plan
  PROVE  /\ LimitFor(plan) \in Nat
         /\ LimitFor(plan) \in CapsOn(plan)
         /\ \A c \in CapsOn(plan) : c \in Nat /\ LimitFor(plan) <= c
<1>1. CASE plan \in Plan
  BY <1>1 DEF LimitFor, CapsOn
<1>2. CASE plan \notin Plan /\ Plan = {}
  BY <1>2 DEF LimitFor, CapsOn, MostRestrictive
<1>3. CASE plan \notin Plan /\ Plan # {}
  <2> DEFINE S == {PlanLimit[p] : p \in Plan}
  <2>1. S \in SUBSET Nat /\ S # {}
    BY <1>3
  <2>2. \E n \in S : \A j \in S : n <= j
    BY <2>1, NatMin
  <2>3. \E n \in S : \A p \in Plan : n <= PlanLimit[p]
    BY <2>2
  <2>4. /\ MostRestrictive(Plan) \in S
        /\ \A p \in Plan : MostRestrictive(Plan) <= PlanLimit[p]
    BY <1>3, <2>3 DEF MostRestrictive
  <2> QED
    BY <1>3, <2>1, <2>4 DEF LimitFor, CapsOn
<1> QED
  BY <1>1, <1>2, <1>3

-----------------------------------------------------------------------------
(* Types *)

\* A slot that serves a request knows which.
Occupied == \A r \in Req : stage[r] # "idle" => input[r] \in Input

\* TypeOK without the upper bounds, which need the conservation laws.
TypeInv == /\ stage \in [Req -> Stage]
           /\ input \in [Req -> Input \cup {None}]
           /\ task \in [Req -> Task]
           /\ code \in [Req -> Code]
           /\ ledger \in [Req -> Seq(Entry)]
           /\ inflight \in [Key -> Nat]
           /\ bucket \in [Bucket -> Nat]
           /\ permits \in Nat
           /\ phase \in Phase

\* The ledger entries of every response.
LEMMA EntriesType ==
  /\ \A class \in {"rejection", "overload_partition", "overload_global", "execution"} :
       Metric(class) \in Seq(Entry)
  /\ \A reason \in GateReason \cup {"QUOTA_EXCEEDED", "EGRESS_UNAVAILABLE", "OVERLOADED",
                                     "allowed", None} :
       Audit(reason) \in Seq(Entry)
  /\ Usage \in Seq(Entry)
<1>1. \A k \in {"metric", "audit", "usage"}, v \in EntryValue : <<[kind |-> k, value |-> v]>> \in Seq(Entry)
  BY DEF Entry
<1>2. <<>> \in Seq(Entry)
  OBVIOUS
<1> QED
  BY <1>1, <1>2 DEF Metric, Audit, Usage, EntryValue

\* The quota table stays a table of numbers whoever takes or drops a guard.
LEMMA QuotaType ==
  ASSUME NEW in \in Input, inflight \in [Key -> Nat]
  PROVE  Counted(in) \in [Key -> Nat] /\ Uncounted(in) \in [Key -> Nat]
<1>1. Metered(in) => in.tenant \in Key
  BY DEF Metered, Input
<1> QED
  BY <1>1 DEF Counted, Uncounted

\* The bucket a request draws from exists.
LEMMA BucketType ==
  ASSUME NEW in \in Input, HasBucket(in) PROVE BucketFor(in) \in Bucket
  BY DEF HasBucket, BucketFor, PartitionOf, Input

\* A response records well-formed entries and ends the handler.
LEMMA RespondType ==
  ASSUME TypeInv, NEW r \in Req, NEW c \in Code, NEW entries \in Seq(Entry),
         Respond(r, c, entries)
  PROVE  /\ stage' \in [Req -> Stage]
         /\ code' \in [Req -> Code]
         /\ ledger' \in [Req -> Seq(Entry)]
<1>1. ledger[r] \o entries \in Seq(Entry)
  BY DEF TypeInv
<1> QED
  BY <1>1 DEF TypeInv, Respond, Stage

\* Every step keeps the types, and a slot that is not idle keeps its request.
LEMMA TypeStep == TypeInv /\ Occupied /\ [Next]_vars => TypeInv' /\ Occupied'
<1> SUFFICES ASSUME TypeInv, Occupied, [Next]_vars PROVE TypeInv' /\ Occupied'
  OBVIOUS
<1>0. /\ "rejection" \in {"rejection", "overload_partition", "overload_global", "execution"}
      /\ RunCode \subseteq Code /\ SessionCode \subseteq Code /\ GateCode \subseteq Code
      /\ {"QUOTA_EXCEEDED", "PARTITION_OVERLOADED", "OVERLOADED", None} \subseteq Code
  BY DEF Code
<1>a. /\ Metric("rejection") \o Audit("EGRESS_UNAVAILABLE") \in Seq(Entry)
      /\ Audit("QUOTA_EXCEEDED") \o Metric("rejection") \in Seq(Entry)
      /\ Metric("overload_partition") \o Audit("OVERLOADED") \in Seq(Entry)
      /\ Metric("overload_global") \o Audit("OVERLOADED") \in Seq(Entry)
      /\ Usage \o Audit("allowed") \o Metric("execution") \in Seq(Entry)
  BY EntriesType
<1>b. \A r \in Req : stage[r] # "idle" => input[r] \in Input
  BY DEF Occupied
<1>1. ASSUME NEW r \in Req, NEW in \in Inputs, Reject(r, in) PROVE TypeInv' /\ Occupied'
  <2>1. in \in Input
    OBVIOUS
  <2>2. Metric("rejection") \o Audit(FirstFailed(in).audit) \in Seq(Entry)
    BY <1>1, <2>1, FirstFailedIsGate, EntriesType DEF Reject
  <2>3. FirstFailed(in).code \in Code
    BY <1>0, <1>1, <2>1, FirstFailedIsGate DEF Reject
  <2>4. /\ stage' \in [Req -> Stage]
        /\ code' \in [Req -> Code]
        /\ ledger' \in [Req -> Seq(Entry)]
    BY <1>1, <2>2, <2>3, RespondType DEF Reject
  <2> QED
    BY <1>1, <2>1, <2>4 DEF Reject, Respond, TypeInv, Occupied
<1>2. ASSUME NEW r \in Req, NEW in \in Inputs, QuotaExceeded(r, in) PROVE TypeInv' /\ Occupied'
  <2>1. /\ stage' \in [Req -> Stage]
        /\ code' \in [Req -> Code]
        /\ ledger' \in [Req -> Seq(Entry)]
    BY <1>0, <1>a, <1>2, RespondType DEF QuotaExceeded
  <2> QED
    BY <1>2, <2>1 DEF QuotaExceeded, Respond, TypeInv, Occupied
<1>3. ASSUME NEW r \in Req, NEW in \in Inputs, Accept(r, in) PROVE TypeInv' /\ Occupied'
  <2>1. inflight' \in [Key -> Nat]
    BY <1>3, QuotaType DEF Accept, TypeInv
  <2> QED
    BY <1>3, <2>1 DEF Accept, Goto, TypeInv, Occupied, Stage
<1>4. ASSUME NEW r \in Req, SessionOpened(r) PROVE TypeInv' /\ Occupied'
  BY <1>4 DEF SessionOpened, Goto, TypeInv, Occupied, Stage
<1>5. ASSUME NEW r \in Req, NEW c \in SessionCode, SessionFailed(r, c) PROVE TypeInv' /\ Occupied'
  <2>1. /\ stage' \in [Req -> Stage]
        /\ code' \in [Req -> Code]
        /\ ledger' \in [Req -> Seq(Entry)]
    BY <1>0, <1>a, <1>5, RespondType DEF SessionFailed
  <2>2. inflight' \in [Key -> Nat]
    BY <1>b, <1>5, QuotaType DEF SessionFailed, TypeInv
  <2> QED
    BY <1>5, <2>1, <2>2 DEF SessionFailed, Respond, TypeInv, Occupied
<1>6. ASSUME NEW r \in Req, AcquirePartition(r) PROVE TypeInv' /\ Occupied'
  <2>1. bucket' \in [Bucket -> Nat]
    BY <1>b, <1>6, BucketType DEF AcquirePartition, TypeInv
  <2> QED
    BY <1>6, <2>1 DEF AcquirePartition, Goto, TypeInv, Occupied, Stage
<1>7. ASSUME NEW r \in Req, PartitionBusy(r) PROVE TypeInv' /\ Occupied'
  <2>1. /\ stage' \in [Req -> Stage]
        /\ code' \in [Req -> Code]
        /\ ledger' \in [Req -> Seq(Entry)]
    BY <1>0, <1>a, <1>7, RespondType DEF PartitionBusy
  <2>2. inflight' \in [Key -> Nat]
    BY <1>b, <1>7, QuotaType DEF PartitionBusy, TypeInv
  <2> QED
    BY <1>7, <2>1, <2>2 DEF PartitionBusy, Respond, TypeInv, Occupied
<1>8. ASSUME NEW r \in Req, AcquireGlobal(r) PROVE TypeInv' /\ Occupied'
  BY <1>8 DEF AcquireGlobal, Goto, TypeInv, Occupied, Stage, Task
<1>9. ASSUME NEW r \in Req, GlobalBusy(r) PROVE TypeInv' /\ Occupied'
  <2>1. bucket' \in [Bucket -> Nat]
    BY <1>b, <1>9, BucketType DEF GlobalBusy, BucketReturned, TypeInv
  <2> QED
    BY <1>9, <2>1 DEF GlobalBusy, Goto, TypeInv, Occupied, Stage
<1>10. ASSUME NEW r \in Req, Shed(r) PROVE TypeInv' /\ Occupied'
  <2>1. /\ stage' \in [Req -> Stage]
        /\ code' \in [Req -> Code]
        /\ ledger' \in [Req -> Seq(Entry)]
    BY <1>0, <1>a, <1>10, RespondType DEF Shed
  <2>2. inflight' \in [Key -> Nat]
    BY <1>b, <1>10, QuotaType DEF Shed, TypeInv
  <2> QED
    BY <1>10, <2>1, <2>2 DEF Shed, Respond, TypeInv, Occupied
<1>11. ASSUME NEW r \in Req, DropPermit(r) PROVE TypeInv' /\ Occupied'
  BY <1>11 DEF DropPermit, Goto, TypeInv, Occupied, Stage
<1>12. ASSUME NEW r \in Req, DropPartitionPermit(r) PROVE TypeInv' /\ Occupied'
  <2>1. bucket' \in [Bucket -> Nat]
    BY <1>b, <1>12, BucketType DEF DropPartitionPermit, BucketReturned, TypeInv
  <2> QED
    BY <1>12, <2>1 DEF DropPartitionPermit, Goto, TypeInv, Occupied, Stage
<1>13. ASSUME NEW r \in Req, NEW c \in RunCode, BuildResponse(r, c) PROVE TypeInv' /\ Occupied'
  <2>1. /\ stage' \in [Req -> Stage]
        /\ code' \in [Req -> Code]
        /\ ledger' \in [Req -> Seq(Entry)]
    BY <1>0, <1>a, <1>13, RespondType DEF BuildResponse
  <2>2. inflight' \in [Key -> Nat]
    BY <1>b, <1>13, QuotaType DEF BuildResponse, TypeInv
  <2> QED
    BY <1>13, <2>1, <2>2 DEF BuildResponse, Respond, TypeInv, Occupied
<1>14. ASSUME NEW r \in Req, Disconnect(r) PROVE TypeInv' /\ Occupied'
  <2>1. inflight' \in [Key -> Nat]
    BY <1>b, <1>14, QuotaType DEF Disconnect, TypeInv
  <2>2. bucket' \in [Bucket -> Nat]
    BY <1>b, <1>14, BucketType DEF Disconnect, BucketReturned, TypeInv
  <2> QED
    BY <1>14, <2>1, <2>2 DEF Disconnect, Goto, TypeInv, Occupied, Stage
<1>15. ASSUME NEW r \in Req, RunTask(r) PROVE TypeInv' /\ Occupied'
  BY <1>15 DEF RunTask, TaskStarts, TaskRefused, TaskAborts, TaskEnds, TypeInv, Occupied, Task
<1>16. ASSUME NEW r \in Req, NextRequest(r) PROVE TypeInv' /\ Occupied'
  BY <1>0, <1>16 DEF NextRequest, TypeInv, Occupied, Stage, Task
<1>17. CASE Signal \/ Stop
  BY <1>17 DEF Signal, Stop, local, shared, TypeInv, Occupied, Phase
<1>18. CASE UNCHANGED vars
  BY <1>18 DEF vars, TypeInv, Occupied
<1> QED
  BY <1>1, <1>2, <1>3, <1>4, <1>5, <1>6, <1>7, <1>8, <1>9, <1>10, <1>11, <1>12, <1>13, <1>14,
     <1>15, <1>16, <1>17, <1>18 DEF Next, Arrive, Handle

-----------------------------------------------------------------------------
(* What a step does to the guards of the one request it moves *)

Moves(r) == \A q \in Req \ {r} : stage'[q] = stage[q] /\ input'[q] = input[q]

PermitEffect(r) ==
  \/ (HoldsPermit(r)' <=> HoldsPermit(r)) /\ permits' = permits
  \/ ~HoldsPermit(r) /\ HoldsPermit(r)' /\ permits > 0 /\ permits' = permits - 1
  \/ HoldsPermit(r) /\ ~HoldsPermit(r)' /\ permits' = permits + 1

BucketEffect(r) ==
  \/ /\ HoldsBucket(r)' <=> HoldsBucket(r)
     /\ HoldsBucket(r) => input'[r] = input[r]
     /\ bucket' = bucket
  \/ /\ ~HoldsBucket(r) /\ HoldsBucket(r)'
     /\ bucket' = [bucket EXCEPT ![BucketFor(input'[r])] = @ - 1]
  \/ /\ HoldsBucket(r) /\ ~HoldsBucket(r)'
     /\ bucket' = [bucket EXCEPT ![BucketFor(input[r])] = @ + 1]

QuotaEffect(r) ==
  \/ /\ HoldsQuota(r)' <=> HoldsQuota(r)
     /\ HoldsQuota(r) => input'[r] = input[r]
     /\ inflight' = inflight
  \/ /\ ~HoldsQuota(r) /\ HoldsQuota(r)'
     /\ inflight[input'[r].tenant] < LimitFor(input'[r].plan)
     /\ inflight' = [inflight EXCEPT ![input'[r].tenant] = @ + 1]
  \/ /\ HoldsQuota(r) /\ ~HoldsQuota(r)'
     /\ inflight' = [inflight EXCEPT ![input[r].tenant] = IF @ > 0 THEN @ - 1 ELSE 0]

Effect(r) == Moves(r) /\ PermitEffect(r) /\ BucketEffect(r) /\ QuotaEffect(r)

\* Every step leaves the guards alone or moves those of one request, as RAII would.
LEMMA StepEffect ==
  ASSUME TypeInv, Occupied, [Next]_vars
  PROVE  UNCHANGED <<stage, input, inflight, bucket, permits>> \/ \E r \in Req : Effect(r)
<1> USE DEF Effect, Moves, PermitEffect, BucketEffect, QuotaEffect,
            HoldsPermit, HoldsBucket, HoldsQuota
<1>0. \A r \in Req : stage[r] # "idle" => input[r] \in Input
  BY DEF Occupied
<1>1. ASSUME NEW r \in Req, NEW in \in Inputs, Reject(r, in) PROVE Effect(r)
  BY <1>1 DEF Reject, Respond, TypeInv
<1>2. ASSUME NEW r \in Req, NEW in \in Inputs, QuotaExceeded(r, in) PROVE Effect(r)
  BY <1>2 DEF QuotaExceeded, Respond, TypeInv
<1>3. ASSUME NEW r \in Req, NEW in \in Inputs, Accept(r, in) PROVE Effect(r)
  <2>1. Moves(r) /\ PermitEffect(r) /\ BucketEffect(r)
    BY <1>3 DEF Accept, Goto, TypeInv
  <2>2. input'[r] = in /\ in \in Input
    BY <1>3 DEF Accept, TypeInv
  <2>3. CASE Metered(in)
    <3>1. in.tenant \in Key /\ LimitFor(in.plan) \in Nat
      BY <2>2, <2>3, LimitIsStrictest DEF Metered, Input
    <3> QED
      BY <1>3, <2>1, <2>2, <2>3, <3>1 DEF Accept, Goto, Exceeds, Counted, TypeInv
  <2>4. CASE ~Metered(in)
    BY <1>3, <2>1, <2>2, <2>4 DEF Accept, Goto, Counted, TypeInv
  <2> QED
    BY <2>3, <2>4
<1>4. ASSUME NEW r \in Req, SessionOpened(r) PROVE Effect(r)
  BY <1>4 DEF SessionOpened, Goto, TypeInv
<1>5. ASSUME NEW r \in Req, NEW c \in SessionCode, SessionFailed(r, c) PROVE Effect(r)
  BY <1>5 DEF SessionFailed, Respond, Uncounted, TypeInv
<1>6. ASSUME NEW r \in Req, AcquirePartition(r) PROVE Effect(r)
  BY <1>6 DEF AcquirePartition, Goto, TypeInv
<1>7. ASSUME NEW r \in Req, PartitionBusy(r) PROVE Effect(r)
  BY <1>7 DEF PartitionBusy, Respond, Uncounted, TypeInv
<1>8. ASSUME NEW r \in Req, AcquireGlobal(r) PROVE Effect(r)
  BY <1>8 DEF AcquireGlobal, Goto, TypeInv
<1>9. ASSUME NEW r \in Req, GlobalBusy(r) PROVE Effect(r)
  BY <1>9 DEF GlobalBusy, BucketReturned, Goto, TypeInv
<1>10. ASSUME NEW r \in Req, Shed(r) PROVE Effect(r)
  BY <1>10 DEF Shed, Respond, Uncounted, TypeInv
<1>11. ASSUME NEW r \in Req, DropPermit(r) PROVE Effect(r)
  BY <1>11 DEF DropPermit, Goto, TypeInv
<1>12. ASSUME NEW r \in Req, DropPartitionPermit(r) PROVE Effect(r)
  BY <1>12 DEF DropPartitionPermit, BucketReturned, Goto, TypeInv
<1>13. ASSUME NEW r \in Req, NEW c \in RunCode, BuildResponse(r, c) PROVE Effect(r)
  BY <1>13 DEF BuildResponse, Respond, Uncounted, TypeInv
<1>14. ASSUME NEW r \in Req, Disconnect(r) PROVE Effect(r)
  <2>1. Moves(r) /\ PermitEffect(r)
    BY <1>14 DEF Disconnect, Goto, TypeInv
  <2>2. BucketEffect(r)
    BY <1>14 DEF Disconnect, Goto, BucketReturned, TypeInv
  <2>3. QuotaEffect(r)
    BY <1>14 DEF Disconnect, Goto, Uncounted, TypeInv
  <2> QED
    BY <2>1, <2>2, <2>3
<1>15. ASSUME NEW r \in Req, RunTask(r) PROVE UNCHANGED <<stage, input, inflight, bucket, permits>>
  BY <1>15 DEF RunTask, TaskStarts, TaskRefused, TaskAborts, TaskEnds
<1>16. ASSUME NEW r \in Req, NextRequest(r) PROVE Effect(r)
  BY <1>16 DEF NextRequest, TypeInv
<1>17. CASE Signal \/ Stop
  BY <1>17 DEF Signal, Stop, local, shared
<1>18. CASE UNCHANGED vars
  BY <1>18 DEF vars
<1> HIDE DEF Effect
<1> QED
  BY <1>1, <1>2, <1>3, <1>4, <1>5, <1>6, <1>7, <1>8, <1>9, <1>10, <1>11, <1>12, <1>13, <1>14,
     <1>15, <1>16, <1>17, <1>18 DEF Next, Arrive, Handle

-----------------------------------------------------------------------------
(* Conservation *)

\* Sets of slots are finite; adding or removing a slot counts as it should.
LEMMA SlotSets ==
  ASSUME NEW S \in SUBSET Req, NEW r
  PROVE  /\ IsFiniteSet(S) /\ Cardinality(S) \in Nat
         /\ r \notin S => Cardinality(S \cup {r}) = Cardinality(S) + 1
         /\ r \in S => Cardinality(S \ {r}) = Cardinality(S) - 1 /\ Cardinality(S) > 0
<1>1. IsFiniteSet(S)
  BY FS_Subset
<1>2. Cardinality(S) \in Nat /\ (Cardinality(S) = 0 <=> S = {})
  BY <1>1, FS_CardinalityType, FS_EmptySet
<1>3. Cardinality(S \cup {r}) = IF r \in S THEN Cardinality(S) ELSE Cardinality(S) + 1
  BY <1>1, FS_AddElement
<1>4. Cardinality(S \ {r}) = IF r \in S THEN Cardinality(S) - 1 ELSE Cardinality(S)
  BY <1>1, FS_RemoveElement
<1>5. r \in S => S # {}
  OBVIOUS
<1> QED
  BY <1>1, <1>2, <1>3, <1>4, <1>5

GlobalConserved == permits + Cardinality(PermitHolders) = MaxConcurrent
BucketsConserved == \A b \in Bucket : bucket[b] + Cardinality(BucketHolders(b)) = PerPartition

\* The global limiter never loses or gains a permit.
LEMMA GlobalStep ==
  ASSUME TypeInv, GlobalConserved, NEW r \in Req, Effect(r)
  PROVE  GlobalConserved'
<1> USE DEF GlobalConserved, TypeInv
<1>0. PermitHolders \in SUBSET Req /\ Moves(r)
  BY DEF PermitHolders, Effect
<1>1. CASE (HoldsPermit(r)' <=> HoldsPermit(r)) /\ permits' = permits
  <2>1. PermitHolders' = PermitHolders
    BY <1>0, <1>1 DEF PermitHolders, HoldsPermit, Moves
  <2> QED
    BY <1>1, <2>1
<1>2. CASE ~HoldsPermit(r) /\ HoldsPermit(r)' /\ permits > 0 /\ permits' = permits - 1
  <2>1. PermitHolders' = PermitHolders \cup {r} /\ r \notin PermitHolders
    BY <1>0, <1>2 DEF PermitHolders, HoldsPermit, Moves
  <2>2. /\ Cardinality(PermitHolders) \in Nat
        /\ Cardinality(PermitHolders \cup {r}) = Cardinality(PermitHolders) + 1
    BY <1>0, <2>1, SlotSets
  <2> QED
    BY <1>2, <2>1, <2>2
<1>3. CASE HoldsPermit(r) /\ ~HoldsPermit(r)' /\ permits' = permits + 1
  <2>1. PermitHolders' = PermitHolders \ {r} /\ r \in PermitHolders
    BY <1>0, <1>3 DEF PermitHolders, HoldsPermit, Moves
  <2>2. /\ Cardinality(PermitHolders) \in Nat
        /\ Cardinality(PermitHolders \ {r}) = Cardinality(PermitHolders) - 1
    BY <1>0, <2>1, SlotSets
  <2> QED
    BY <1>3, <2>1, <2>2
<1> QED
  BY <1>1, <1>2, <1>3 DEF Effect, PermitEffect

\* No bucket loses or gains a permit, also when two tenants hash to it.
LEMMA BucketStep ==
  ASSUME TypeInv, Occupied, TypeInv', Occupied', BucketsConserved, NEW r \in Req, Effect(r)
  PROVE  BucketsConserved'
<1> SUFFICES ASSUME NEW b \in Bucket
             PROVE  bucket'[b] + Cardinality(BucketHolders(b)') = PerPartition
  BY DEF BucketsConserved
<1>0. /\ BucketHolders(b) \in SUBSET Req
      /\ Moves(r)
      /\ bucket[b] + Cardinality(BucketHolders(b)) = PerPartition
  BY DEF BucketHolders, BucketsConserved, Effect
<1>1. CASE /\ HoldsBucket(r)' <=> HoldsBucket(r)
           /\ HoldsBucket(r) => input'[r] = input[r]
           /\ bucket' = bucket
  <2>1. BucketHolders(b)' = BucketHolders(b)
    BY <1>0, <1>1 DEF BucketHolders, HoldsBucket, Moves
  <2> QED
    BY <1>0, <1>1, <2>1
<1>2. CASE /\ ~HoldsBucket(r) /\ HoldsBucket(r)'
           /\ bucket' = [bucket EXCEPT ![BucketFor(input'[r])] = @ - 1]
  <2>1. BucketFor(input'[r]) \in Bucket
    BY <1>2, BucketType DEF HoldsBucket, Occupied, TypeInv
  <2>2. CASE b = BucketFor(input'[r])
    <3>1. BucketHolders(b)' = BucketHolders(b) \cup {r} /\ r \notin BucketHolders(b)
      BY <1>0, <1>2, <2>2 DEF BucketHolders, HoldsBucket, Moves
    <3>2. /\ Cardinality(BucketHolders(b)) \in Nat
          /\ Cardinality(BucketHolders(b) \cup {r}) = Cardinality(BucketHolders(b)) + 1
      BY <1>0, <3>1, SlotSets
    <3>3. bucket'[b] = bucket[b] - 1 /\ bucket[b] \in Nat
      BY <1>2, <2>2 DEF TypeInv
    <3> QED
      BY <1>0, <3>1, <3>2, <3>3
  <2>3. CASE b # BucketFor(input'[r])
    <3>1. BucketHolders(b)' = BucketHolders(b)
      BY <1>0, <1>2, <2>3 DEF BucketHolders, HoldsBucket, Moves
    <3> QED
      BY <1>0, <1>2, <2>1, <2>3, <3>1 DEF TypeInv
  <2> QED
    BY <2>2, <2>3
<1>3. CASE /\ HoldsBucket(r) /\ ~HoldsBucket(r)'
           /\ bucket' = [bucket EXCEPT ![BucketFor(input[r])] = @ + 1]
  <2>1. BucketFor(input[r]) \in Bucket
    BY <1>3, BucketType DEF HoldsBucket, Occupied, TypeInv
  <2>2. CASE b = BucketFor(input[r])
    <3>1. BucketHolders(b)' = BucketHolders(b) \ {r} /\ r \in BucketHolders(b)
      BY <1>0, <1>3, <2>2 DEF BucketHolders, HoldsBucket, Moves
    <3>2. /\ Cardinality(BucketHolders(b)) \in Nat
          /\ Cardinality(BucketHolders(b) \ {r}) = Cardinality(BucketHolders(b)) - 1
          /\ Cardinality(BucketHolders(b)) > 0
      BY <1>0, <3>1, SlotSets
    <3>3. bucket'[b] = bucket[b] + 1 /\ bucket[b] \in Nat
      BY <1>3, <2>2 DEF TypeInv
    <3> QED
      BY <1>0, <3>1, <3>2, <3>3
  <2>3. CASE b # BucketFor(input[r])
    <3>1. BucketHolders(b)' = BucketHolders(b)
      BY <1>0, <1>3, <2>3 DEF BucketHolders, HoldsBucket, Moves
    <3> QED
      BY <1>0, <1>3, <2>1, <2>3, <3>1 DEF TypeInv
  <2> QED
    BY <2>2, <2>3
<1> QED
  BY <1>1, <1>2, <1>3 DEF Effect, BucketEffect

\* The saturating decrement of QuotaGuard::drop never saturates: the count of
\* a tenant is always the number of its live guards.
LEMMA QuotaStep ==
  ASSUME TypeInv, Occupied, TypeInv', Occupied', QuotaConserved, NEW r \in Req, Effect(r)
  PROVE  QuotaConserved'
<1> SUFFICES ASSUME NEW k \in Key PROVE inflight'[k] = Cardinality(QuotaHolders(k)')
  BY DEF QuotaConserved
<1>0. /\ QuotaHolders(k) \in SUBSET Req
      /\ Moves(r)
      /\ inflight[k] = Cardinality(QuotaHolders(k))
  BY DEF QuotaHolders, QuotaConserved, Effect
<1>1. CASE /\ HoldsQuota(r)' <=> HoldsQuota(r)
           /\ HoldsQuota(r) => input'[r] = input[r]
           /\ inflight' = inflight
  <2>1. QuotaHolders(k)' = QuotaHolders(k)
    BY <1>0, <1>1 DEF QuotaHolders, HoldsQuota, Moves
  <2> QED
    BY <1>0, <1>1, <2>1
<1>2. CASE /\ ~HoldsQuota(r) /\ HoldsQuota(r)'
           /\ inflight' = [inflight EXCEPT ![input'[r].tenant] = @ + 1]
  <2>2. CASE k = input'[r].tenant
    <3>1. QuotaHolders(k)' = QuotaHolders(k) \cup {r} /\ r \notin QuotaHolders(k)
      BY <1>0, <1>2, <2>2 DEF QuotaHolders, HoldsQuota, Moves
    <3>2. /\ Cardinality(QuotaHolders(k)) \in Nat
          /\ Cardinality(QuotaHolders(k) \cup {r}) = Cardinality(QuotaHolders(k)) + 1
      BY <1>0, <3>1, SlotSets
    <3> QED
      BY <1>0, <1>2, <2>2, <3>1, <3>2 DEF TypeInv
  <2>3. CASE k # input'[r].tenant
    <3>1. QuotaHolders(k)' = QuotaHolders(k)
      BY <1>0, <1>2, <2>3 DEF QuotaHolders, HoldsQuota, Moves
    <3> QED
      BY <1>0, <1>2, <2>3, <3>1 DEF TypeInv
  <2> QED
    BY <2>2, <2>3
<1>3. CASE /\ HoldsQuota(r) /\ ~HoldsQuota(r)'
           /\ inflight' = [inflight EXCEPT ![input[r].tenant] = IF @ > 0 THEN @ - 1 ELSE 0]
  <2>2. CASE k = input[r].tenant
    <3>1. QuotaHolders(k)' = QuotaHolders(k) \ {r} /\ r \in QuotaHolders(k)
      BY <1>0, <1>3, <2>2 DEF QuotaHolders, HoldsQuota, Moves
    <3>2. /\ Cardinality(QuotaHolders(k)) \in Nat
          /\ Cardinality(QuotaHolders(k) \ {r}) = Cardinality(QuotaHolders(k)) - 1
          /\ Cardinality(QuotaHolders(k)) > 0
      BY <1>0, <3>1, SlotSets
    <3> QED
      BY <1>0, <1>3, <2>2, <3>1, <3>2 DEF TypeInv
  <2>3. CASE k # input[r].tenant
    <3>1. QuotaHolders(k)' = QuotaHolders(k)
      BY <1>0, <1>3, <2>3 DEF QuotaHolders, HoldsQuota, Moves
    <3> QED
      BY <1>0, <1>3, <2>3, <3>1 DEF TypeInv
  <2> QED
    BY <2>2, <2>3
<1> QED
  BY <1>1, <1>2, <1>3 DEF Effect, QuotaEffect

-----------------------------------------------------------------------------
(* The plan caps *)

\* The guards of tenant k that cap applies to.
Under(k, cap) == {s \in QuotaHolders(k) : \E c \in CapsOn(input[s].plan) : c <= cap}

\* A form of QuotaHonored over numbers instead of the caps of live requests.
EveryCapHolds == \A k \in Key : \A cap \in Nat : Cardinality(Under(k, cap)) <= cap

\* A request enters under a cap only while all guards of its tenant, of
\* whatever plan, number less than its limit, which no cap undercuts.
LEMMA CapStep ==
  ASSUME TypeInv, Occupied, TypeInv', Occupied', QuotaConserved, EveryCapHolds,
         NEW r \in Req, Effect(r)
  PROVE  EveryCapHolds'
<1> SUFFICES ASSUME NEW k \in Key, NEW cap \in Nat
             PROVE  Cardinality(Under(k, cap)') <= cap
  BY DEF EveryCapHolds
<1>0. /\ QuotaHolders(k) \in SUBSET Req
      /\ Under(k, cap) \in SUBSET QuotaHolders(k)
      /\ Moves(r)
      /\ inflight[k] = Cardinality(QuotaHolders(k))
      /\ Cardinality(Under(k, cap)) <= cap
  BY DEF Under, QuotaHolders, QuotaConserved, EveryCapHolds, Effect
<1>a. /\ Cardinality(Under(k, cap)) \in Nat
      /\ Cardinality(Under(k, cap)) <= Cardinality(QuotaHolders(k))
      /\ Cardinality(QuotaHolders(k)) \in Nat
  BY <1>0, SlotSets, FS_Subset
<1>1. CASE /\ HoldsQuota(r)' <=> HoldsQuota(r)
           /\ HoldsQuota(r) => input'[r] = input[r]
  <2>1. Under(k, cap)' = Under(k, cap)
    BY <1>0, <1>1 DEF Under, QuotaHolders, HoldsQuota, Moves
  <2> QED
    BY <1>0, <2>1
<1>2. CASE /\ ~HoldsQuota(r) /\ HoldsQuota(r)'
           /\ inflight[input'[r].tenant] < LimitFor(input'[r].plan)
  <2>1. CASE r \in Under(k, cap)'
    <3>1. Under(k, cap)' = Under(k, cap) \cup {r} /\ r \notin Under(k, cap)
      BY <1>0, <1>2, <2>1 DEF Under, QuotaHolders, HoldsQuota, Moves
    <3>2. k = input'[r].tenant
      BY <2>1 DEF Under, QuotaHolders
    <3>3. PICK c \in CapsOn(input'[r].plan) : c <= cap
      BY <2>1 DEF Under
    <3>4. LimitFor(input'[r].plan) \in Nat /\ c \in Nat /\ LimitFor(input'[r].plan) <= c
      BY <3>3, LimitIsStrictest
    <3>5. inflight[k] < LimitFor(input'[r].plan)
      BY <1>2, <3>2
    <3>6. Cardinality(QuotaHolders(k)) < cap
      BY <1>0, <1>a, <3>3, <3>4, <3>5
    <3>7. Cardinality(Under(k, cap) \cup {r}) = Cardinality(Under(k, cap)) + 1
      BY <1>0, <3>1, SlotSets
    <3> QED
      BY <1>a, <3>1, <3>6, <3>7
  <2>2. CASE r \notin Under(k, cap)'
    <3>1. Under(k, cap)' = Under(k, cap)
      BY <1>0, <1>2, <2>2 DEF Under, QuotaHolders, HoldsQuota, Moves
    <3> QED
      BY <1>0, <3>1
  <2> QED
    BY <2>1, <2>2
<1>3. CASE HoldsQuota(r) /\ ~HoldsQuota(r)'
  <2>1. Under(k, cap)' \in SUBSET Under(k, cap)
    BY <1>0, <1>3 DEF Under, QuotaHolders, HoldsQuota, Moves
  <2>2. Under(k, cap) \in SUBSET Req
    BY <1>0
  <2>3. /\ Cardinality(Under(k, cap)') <= Cardinality(Under(k, cap))
        /\ Cardinality(Under(k, cap)') \in Nat
    BY <2>1, <2>2, SlotSets, FS_Subset
  <2> QED
    BY <1>0, <1>a, <2>3
<1> QED
  BY <1>1, <1>2, <1>3 DEF Effect, QuotaEffect

-----------------------------------------------------------------------------
(* The events behind a response *)

\* Only a handler that has answered has recorded anything, the task has been spawned and
\* has run when the handler is past it, and the books of a response balance.
Booked(r) ==
  /\ stage[r] # "done" => ledger[r] = <<>>
  /\ stage[r] \in {"idle", "connecting", "partition", "global", "shed"} => task[r] = "none"
  /\ stage[r] \in {"unwinding", "responding"} => task[r] \in Returned
  /\ stage[r] = "done" => /\ task[r] \in Returned \cup {"none"}
                          /\ Balanced(ledger[r], code[r], task[r] \in Returned)
                          /\ code[r] = "OK" => task[r] = "finished"

BooksKept == \A r \in Req : Booked(r)

\* A gate never answers like a script that ran, and all but the 401 are audited.
LEMMA GateAudit ==
  ASSUME NEW i \in DOMAIN Gates
  PROVE  /\ Gates[i].code \notin RunCode
         /\ Gates[i].code = "UNAUTHORIZED" <=> Gates[i].audit = None
         /\ Gates[i].audit # "allowed"
<1>1. DOMAIN Gates = 1..11
  BY DEF Gates
<1>2. None \notin {"ANONYMOUS_FORBIDDEN", "SUSPENDED_FORBIDDEN", "TENANT_REQUIRED",
                   "ACTING_SCOPE_REQUIRED", "MALFORMED_REQUEST", "ENTITLEMENT_REQUIRED",
                   "SCRIPT_NOT_FOUND", "INPUT_TOO_LARGE", "allowed"}
  <2>1. \A j \in 1..11 : Gates[j].code # None
    BY <1>1, ReasonAssumption DEF GateCode
  <2>2. /\ Gates[2].code = "ANONYMOUS_FORBIDDEN" /\ Gates[3].code = "SUSPENDED_FORBIDDEN"
        /\ Gates[4].code = "TENANT_REQUIRED" /\ Gates[5].code = "ACTING_SCOPE_REQUIRED"
        /\ Gates[6].code = "MALFORMED_REQUEST" /\ Gates[7].code = "ENTITLEMENT_REQUIRED"
        /\ Gates[9].code = "SCRIPT_NOT_FOUND"
    BY DEF Gates, Gate, IdentityGate, BodyGate, MemberGate, ScriptGate
  <2> QED
    BY <2>1, <2>2, ReasonAssumption
<1> QED
  BY <1>1, <1>2
     DEF Gates, Gate, BearerGate, IdentityGate, BodyGate, MemberGate, ScriptGate, SizeGate, RunCode

\* The entries of a response in the order they are recorded.
LEMMA TwoEntries ==
  ASSUME NEW S, NEW s \in Seq(S), NEW t \in Seq(S), Len(s) = 1, Len(t) = 1
  PROVE  /\ s \o t \in Seq(S) /\ Len(s \o t) = 2 /\ DOMAIN (s \o t) = {1, 2}
         /\ (s \o t)[1] = s[1] /\ (s \o t)[2] = t[1]
<1>1. /\ s \o t \in Seq(S) /\ Len(s \o t) = 2
      /\ \A i \in 1..2 : (s \o t)[i] = IF i <= 1 THEN s[i] ELSE t[i - 1]
  BY ConcatProperties
<1>2. DOMAIN (s \o t) = 1..2
  BY <1>1, LenProperties
<1> QED
  BY <1>1, <1>2

LEMMA ThirdEntry ==
  ASSUME NEW S, NEW s \in Seq(S), NEW t \in Seq(S)
  PROVE  Len(s) = 2 /\ Len(t) = 1 =>
           /\ DOMAIN (s \o t) = {1, 2, 3}
           /\ (s \o t)[1] = s[1] /\ (s \o t)[2] = s[2] /\ (s \o t)[3] = t[1]
<1>1. /\ s \o t \in Seq(S) /\ Len(s \o t) = Len(s) + Len(t)
      /\ \A i \in 1..(Len(s) + Len(t)) : (s \o t)[i] = IF i <= Len(s) THEN s[i] ELSE t[i - Len(s)]
  BY ConcatProperties
<1>2. DOMAIN (s \o t) = 1..Len(s \o t)
  BY <1>1, LenProperties
<1> HAVE Len(s) = 2 /\ Len(t) = 1
<1>3. Len(s) + Len(t) = 3 /\ 1..3 = {1, 2, 3}
  OBVIOUS
<1> QED
  BY <1>1, <1>2, <1>3

LEMMA ThreeEntries ==
  ASSUME NEW S, NEW s \in Seq(S), NEW t \in Seq(S), NEW u \in Seq(S),
         Len(s) = 1, Len(t) = 1, Len(u) = 1
  PROVE  /\ DOMAIN (s \o t \o u) = {1, 2, 3}
         /\ (s \o t \o u)[1] = s[1] /\ (s \o t \o u)[2] = t[1] /\ (s \o t \o u)[3] = u[1]
<1> DEFINE st == s \o t
<1>1. st \in Seq(S) /\ Len(st) = 2 /\ st[1] = s[1] /\ st[2] = t[1]
  BY TwoEntries
<1> HIDE DEF st
<1>2. /\ DOMAIN (st \o u) = {1, 2, 3}
      /\ (st \o u)[1] = s[1] /\ (st \o u)[2] = t[1] /\ (st \o u)[3] = u[1]
  BY <1>1, ThirdEntry
<1> QED
  BY <1>2 DEF st

\* Every helper records one entry, Audit(None) none.
LEMMA OneEntry ==
  ASSUME NEW S, NEW v, [kind |-> "metric", value |-> v] \in S, [kind |-> "audit", value |-> v] \in S
  PROVE  /\ Metric(v) \in Seq(S) /\ Len(Metric(v)) = 1
         /\ Metric(v)[1].kind = "metric"
         /\ v # None => /\ Audit(v) \in Seq(S) /\ Len(Audit(v)) = 1
                        /\ Audit(v)[1].kind = "audit" /\ Audit(v)[1].value = v
BY DEF Metric, Audit

\* One metric and one audit, in either order, and no usage.
LEMMA BalancedRefusal ==
  ASSUME NEW l, NEW c, c \notin RunCode, NEW i \in {1, 2}, NEW j \in {1, 2}, i # j,
         DOMAIN l = {1, 2}, l[i].kind = "metric", l[j].kind = "audit",
         l[j].value # "allowed", c # "UNAUTHORIZED"
  PROVE  Balanced(l, c, FALSE)
<1>1. Cardinality({}) = 0 /\ Cardinality({i}) = 1
  BY FS_EmptySet, FS_Singleton
<1>2. Entries(l, "metric") = {i} /\ Entries(l, "usage") = {} /\ Entries(l, "audit") = {j}
  BY DEF Entries
<1> QED
  BY <1>1, <1>2 DEF Balanced

\* The ledgers of a request that was turned away.
LEMMA RefusalLedgers ==
  ASSUME NEW c, c \notin RunCode, NEW class
  PROVE  /\ c = "UNAUTHORIZED" => Balanced(Metric(class) \o Audit(None), c, FALSE)
         /\ \A reason : c # "UNAUTHORIZED" /\ reason \notin {None, "allowed"} =>
              /\ Balanced(Metric(class) \o Audit(reason), c, FALSE)
              /\ Balanced(Audit(reason) \o Metric(class), c, FALSE)
<1>1. ASSUME c = "UNAUTHORIZED" PROVE Balanced(Metric(class) \o Audit(None), c, FALSE)
  <2> DEFINE l == Metric(class)
  <2>1. Metric(class) \o Audit(None) = l /\ DOMAIN l = {1} /\ l[1].kind = "metric"
    BY DEF Metric, Audit
  <2> HIDE DEF l
  <2>2. Entries(l, "metric") = {1} /\ Entries(l, "usage") = {} /\ Entries(l, "audit") = {}
    BY <2>1 DEF Entries
  <2>3. Cardinality({}) = 0 /\ Cardinality({1}) = 1
    BY FS_EmptySet, FS_Singleton
  <2>4. Balanced(l, c, FALSE)
    BY <1>1, <2>2, <2>3 DEF Balanced
  <2> QED
    BY <2>1, <2>4
<1>2. ASSUME NEW reason, c # "UNAUTHORIZED", reason \notin {None, "allowed"}
      PROVE  /\ Balanced(Metric(class) \o Audit(reason), c, FALSE)
             /\ Balanced(Audit(reason) \o Metric(class), c, FALSE)
  <2> DEFINE S == [kind : {"metric", "audit"}, value : {class, reason}]
             m == Metric(class)
             a == Audit(reason)
  <2>1. /\ [kind |-> "metric", value |-> class] \in S /\ [kind |-> "audit", value |-> class] \in S
        /\ [kind |-> "metric", value |-> reason] \in S /\ [kind |-> "audit", value |-> reason] \in S
    OBVIOUS
  <2> HIDE DEF S
  <2>2. /\ m \in Seq(S) /\ Len(m) = 1 /\ m[1].kind = "metric"
        /\ a \in Seq(S) /\ Len(a) = 1 /\ a[1].kind = "audit" /\ a[1].value = reason
    BY <1>2, <2>1, OneEntry
  <2> HIDE DEF m, a
  <2>3. /\ DOMAIN (m \o a) = {1, 2} /\ (m \o a)[1] = m[1] /\ (m \o a)[2] = a[1]
        /\ DOMAIN (a \o m) = {1, 2} /\ (a \o m)[1] = a[1] /\ (a \o m)[2] = m[1]
    BY <2>2, TwoEntries
  <2>4. Balanced(m \o a, c, FALSE)
    <3> DEFINE l == m \o a
    <3>1. DOMAIN l = {1, 2} /\ l[1].kind = "metric" /\ l[2].kind = "audit" /\ l[2].value # "allowed"
      BY <1>2, <2>2, <2>3
    <3> HIDE DEF l
    <3>2. Balanced(l, c, FALSE)
      BY <1>2, <3>1, BalancedRefusal
    <3> QED
      BY <3>2 DEF l
  <2>5. Balanced(a \o m, c, FALSE)
    <3> DEFINE l == a \o m
    <3>1. DOMAIN l = {1, 2} /\ l[2].kind = "metric" /\ l[1].kind = "audit" /\ l[1].value # "allowed"
      BY <1>2, <2>2, <2>3
    <3> HIDE DEF l
    <3>2. Balanced(l, c, FALSE)
      BY <1>2, <3>1, BalancedRefusal
    <3> QED
      BY <3>2 DEF l
  <2> QED
    BY <2>4, <2>5 DEF m, a
<1> QED
  BY <1>1, <1>2

\* The ledger of a script that ran.
LEMMA ExecutionLedger ==
  ASSUME NEW c \in RunCode
  PROVE  Balanced(Usage \o Audit("allowed") \o Metric("execution"), c, TRUE)
<1> DEFINE l == Usage \o Audit("allowed") \o Metric("execution")
<1>1. /\ DOMAIN l = {1, 2, 3}
      /\ l[1].kind = "usage" /\ l[2].kind = "audit" /\ l[3].kind = "metric" /\ l[2].value = "allowed"
  <2> DEFINE S == [kind : {"metric", "audit", "usage"}, value : {"executed", "allowed", "execution"}]
  <2>1. /\ [kind |-> "metric", value |-> "allowed"] \in S /\ [kind |-> "audit", value |-> "allowed"] \in S
        /\ [kind |-> "metric", value |-> "execution"] \in S
        /\ [kind |-> "audit", value |-> "execution"] \in S
        /\ [kind |-> "usage", value |-> "executed"] \in S
    OBVIOUS
  <2> HIDE DEF S
  <2>2. Usage \in Seq(S) /\ Len(Usage) = 1 /\ Usage[1].kind = "usage"
    BY <2>1 DEF Usage
  <2>3. /\ Audit("allowed") \in Seq(S) /\ Len(Audit("allowed")) = 1
        /\ Audit("allowed")[1].kind = "audit" /\ Audit("allowed")[1].value = "allowed"
    BY <2>1, OneEntry, ReasonAssumption
  <2>4. /\ Metric("execution") \in Seq(S) /\ Len(Metric("execution")) = 1
        /\ Metric("execution")[1].kind = "metric"
    BY <2>1, OneEntry
  <2> QED
    BY <2>2, <2>3, <2>4, ThreeEntries
<1> HIDE DEF l
<1>2. /\ Entries(l, "metric") = {3} /\ Entries(l, "usage") = {1} /\ Entries(l, "audit") = {2}
      /\ 2 \in DOMAIN l
  BY <1>1 DEF Entries
<1>3. c # "UNAUTHORIZED"
  BY DEF RunCode
<1>4. Cardinality({1}) = 1 /\ Cardinality({3}) = 1
  BY FS_Singleton
<1>5. Balanced(l, c, TRUE)
  BY <1>1, <1>2, <1>3, <1>4 DEF Balanced
<1> QED
  BY <1>5 DEF l

\* What a response leaves behind.
LEMMA Answered ==
  ASSUME TypeInv, NEW r \in Req, Booked(r), stage[r] # "done",
         NEW c, NEW entries \in Seq(Entry), Respond(r, c, entries)
  PROVE  /\ stage'[r] = "done" /\ code'[r] = c /\ ledger'[r] = entries
         /\ \A q \in Req \ {r} : /\ stage'[q] = stage[q] /\ code'[q] = code[q]
                                  /\ ledger'[q] = ledger[q]
<1>1. ledger[r] = <<>>
  BY DEF Booked
<1>2. <<>> \o entries = entries
  BY ConcatEmptySeq
<1> QED
  BY <1>1, <1>2 DEF Respond, TypeInv

\* A slot that a step leaves alone keeps its books.
LEMMA BookedElsewhere ==
  ASSUME BooksKept, NEW r \in Req, Booked(r)',
         \A q \in Req \ {r} : /\ stage'[q] = stage[q] /\ task'[q] = task[q]
                               /\ code'[q] = code[q] /\ ledger'[q] = ledger[q]
  PROVE  BooksKept'
  BY DEF BooksKept, Booked

\* A request that is turned away before its task is spawned is booked as a refusal.
LEMMA RefusalBooked ==
  ASSUME TypeInv, BooksKept, NEW r \in Req,
         stage[r] \in {"idle", "connecting", "partition", "global", "shed"},
         NEW c, NEW entries \in Seq(Entry), Balanced(entries, c, FALSE),
         Respond(r, c, entries), UNCHANGED task
  PROVE  BooksKept'
<1>1. Booked(r) /\ task[r] = "none"
  BY DEF BooksKept, Booked
<1>2. /\ stage'[r] = "done" /\ code'[r] = c /\ ledger'[r] = entries
      /\ \A q \in Req \ {r} : /\ stage'[q] = stage[q] /\ code'[q] = code[q]
                               /\ ledger'[q] = ledger[q]
  BY <1>1, Answered
<1>3. task'[r] = "none" /\ (task'[r] \in Returned) = FALSE
  BY <1>1 DEF Returned
<1>a. c # "OK"
  BY DEF Balanced, RunCode
<1>4. Booked(r)'
  BY <1>2, <1>3, <1>a DEF Booked
<1> QED
  BY <1>2, <1>4, BookedElsewhere

\* The handler moves on without an answer.
LEMMA GotoBooked ==
  ASSUME TypeInv, BooksKept, NEW r \in Req, stage[r] # "done", NEW s, s # "done", Goto(r, s),
         \A q \in Req \ {r} : task'[q] = task[q],
         s \in {"idle", "connecting", "partition", "global", "shed"} => task'[r] = "none",
         s \in {"unwinding", "responding"} => task'[r] \in Returned
  PROVE  BooksKept'
<1>1. /\ stage'[r] = s /\ ledger'[r] = ledger[r]
      /\ \A q \in Req \ {r} : /\ stage'[q] = stage[q] /\ code'[q] = code[q]
                               /\ ledger'[q] = ledger[q]
  BY DEF Goto, TypeInv
<1>2. Booked(r)'
  BY <1>1 DEF BooksKept, Booked
<1> QED
  BY <1>1, <1>2, BookedElsewhere

\* Every step keeps the books.
LEMMA BooksStep == TypeInv /\ BooksKept /\ [Next]_vars => BooksKept'
<1> SUFFICES ASSUME TypeInv, BooksKept, [Next]_vars PROVE BooksKept'
  OBVIOUS
<1>0. \A r \in Req : Booked(r)
  BY DEF BooksKept
<1>a. /\ Metric("rejection") \o Audit("EGRESS_UNAVAILABLE") \in Seq(Entry)
      /\ Audit("QUOTA_EXCEEDED") \o Metric("rejection") \in Seq(Entry)
      /\ Metric("overload_partition") \o Audit("OVERLOADED") \in Seq(Entry)
      /\ Metric("overload_global") \o Audit("OVERLOADED") \in Seq(Entry)
      /\ Usage \o Audit("allowed") \o Metric("execution") \in Seq(Entry)
  BY EntriesType
<1>b. /\ "EGRESS_UNAVAILABLE" \notin {None, "allowed"} /\ "QUOTA_EXCEEDED" \notin {None, "allowed"}
      /\ "OVERLOADED" \notin {None, "allowed"}
  BY ReasonAssumption
<1>c. \A c \in SessionCode \cup {"QUOTA_EXCEEDED", "PARTITION_OVERLOADED", "OVERLOADED"} :
        c \notin RunCode /\ c # "UNAUTHORIZED"
  BY DEF SessionCode, RunCode
<1>1. ASSUME NEW r \in Req, NEW in \in Inputs, Reject(r, in) PROVE BooksKept'
  <2>1. in \in Input /\ FailedGates(in) # {}
    BY <1>1 DEF Reject
  <2>2. PICK i \in DOMAIN Gates : FirstFailed(in) = Gates[i]
    <3>1. FailedGates(in) \subseteq DOMAIN Gates
      BY DEF FailedGates
    <3>2. \E i \in FailedGates(in) : \A j \in FailedGates(in) : i <= j
      BY <2>1, <3>1, GateTable, NatMin
    <3> QED
      BY <3>1, <3>2, Zenon DEF FirstFailed
  <2> DEFINE g == FirstFailed(in)
  <2>3. g.code \notin RunCode /\ (g.code = "UNAUTHORIZED" <=> g.audit = None) /\ g.audit # "allowed"
    BY <2>2, GateAudit
  <2>4. Metric("rejection") \o Audit(g.audit) \in Seq(Entry)
    BY <2>1, FirstFailedIsGate, EntriesType
  <2>5. stage[r] = "idle" /\ Respond(r, g.code, Metric("rejection") \o Audit(g.audit)) /\ UNCHANGED task
    BY <1>1 DEF Reject
  <2> HIDE DEF g
  <2>6. Balanced(Metric("rejection") \o Audit(g.audit), g.code, FALSE)
    BY <2>3, RefusalLedgers
  <2> QED
    BY <2>4, <2>5, <2>6, RefusalBooked
<1>2. ASSUME NEW r \in Req, NEW in \in Inputs, QuotaExceeded(r, in) PROVE BooksKept'
  <2>1. Balanced(Audit("QUOTA_EXCEEDED") \o Metric("rejection"), "QUOTA_EXCEEDED", FALSE)
    BY <1>b, <1>c, RefusalLedgers
  <2> QED
    BY <1>a, <1>2, <2>1, RefusalBooked DEF QuotaExceeded
<1>3. ASSUME NEW r \in Req, NEW in \in Inputs, Accept(r, in) PROVE BooksKept'
  <2>1. task[r] = "none" /\ task' = task
    BY <1>0, <1>3 DEF Accept, Booked
  <2> QED
    BY <1>3, <2>1, GotoBooked DEF Accept
<1>4. ASSUME NEW r \in Req, SessionOpened(r) PROVE BooksKept'
  <2>1. task[r] = "none" /\ task' = task
    BY <1>0, <1>4 DEF SessionOpened, Booked
  <2> QED
    BY <1>4, <2>1, GotoBooked DEF SessionOpened
<1>5. ASSUME NEW r \in Req, NEW c \in SessionCode, SessionFailed(r, c) PROVE BooksKept'
  <2>1. Balanced(Metric("rejection") \o Audit("EGRESS_UNAVAILABLE"), c, FALSE)
    BY <1>b, <1>c, RefusalLedgers
  <2> QED
    BY <1>a, <1>5, <2>1, RefusalBooked DEF SessionFailed
<1>6. ASSUME NEW r \in Req, AcquirePartition(r) PROVE BooksKept'
  <2>1. task[r] = "none" /\ task' = task
    BY <1>0, <1>6 DEF AcquirePartition, Booked
  <2> QED
    BY <1>6, <2>1, GotoBooked DEF AcquirePartition
<1>7. ASSUME NEW r \in Req, PartitionBusy(r) PROVE BooksKept'
  <2>1. Balanced(Metric("overload_partition") \o Audit("OVERLOADED"), "PARTITION_OVERLOADED", FALSE)
    BY <1>b, <1>c, RefusalLedgers
  <2> QED
    BY <1>a, <1>7, <2>1, RefusalBooked DEF PartitionBusy
<1>8. ASSUME NEW r \in Req, AcquireGlobal(r) PROVE BooksKept'
  <2>1. \A q \in Req \ {r} : task'[q] = task[q]
    BY <1>8 DEF AcquireGlobal, TypeInv
  <2> QED
    BY <1>8, <2>1, GotoBooked DEF AcquireGlobal
<1>9. ASSUME NEW r \in Req, GlobalBusy(r) PROVE BooksKept'
  <2>1. task[r] = "none" /\ task' = task
    BY <1>0, <1>9 DEF GlobalBusy, Booked
  <2> QED
    BY <1>9, <2>1, GotoBooked DEF GlobalBusy
<1>10. ASSUME NEW r \in Req, Shed(r) PROVE BooksKept'
  <2>1. Balanced(Metric("overload_global") \o Audit("OVERLOADED"), "OVERLOADED", FALSE)
    BY <1>b, <1>c, RefusalLedgers
  <2> QED
    BY <1>a, <1>10, <2>1, RefusalBooked DEF Shed
<1>11. ASSUME NEW r \in Req, DropPermit(r) PROVE BooksKept'
  BY <1>11, GotoBooked DEF DropPermit
<1>12. ASSUME NEW r \in Req, DropPartitionPermit(r) PROVE BooksKept'
  <2>1. task[r] \in Returned /\ task' = task
    BY <1>0, <1>12 DEF DropPartitionPermit, Booked
  <2> QED
    BY <1>12, <2>1, GotoBooked DEF DropPartitionPermit
<1>13. ASSUME NEW r \in Req, NEW c \in RunCode, BuildResponse(r, c) PROVE BooksKept'
  <2> DEFINE entries == Usage \o Audit("allowed") \o Metric("execution")
  <2>1. /\ stage[r] = "responding" /\ Respond(r, c, entries) /\ task' = task
        /\ entries \in Seq(Entry) /\ Balanced(entries, c, TRUE)
    BY <1>a, <1>13, ExecutionLedger DEF BuildResponse
  <2> HIDE DEF entries
  <2>2. /\ stage'[r] = "done" /\ code'[r] = c /\ ledger'[r] = entries
        /\ \A q \in Req \ {r} : /\ stage'[q] = stage[q] /\ code'[q] = code[q]
                                 /\ ledger'[q] = ledger[q]
    BY <1>0, <2>1, Answered
  <2>3. task'[r] \in Returned /\ (task'[r] \in Returned) = TRUE
    BY <1>0, <2>1 DEF Booked
  <2>a. c = "OK" => task'[r] = "finished"
    BY <1>13, <2>1 DEF BuildResponse
  <2>4. Booked(r)'
    BY <2>1, <2>2, <2>3, <2>a DEF Booked
  <2> QED
    BY <2>1, <2>2, <2>4, BookedElsewhere
<1>14. ASSUME NEW r \in Req, Disconnect(r) PROVE BooksKept'
  BY <1>14, GotoBooked DEF Disconnect
<1>15. ASSUME NEW r \in Req, RunTask(r) PROVE BooksKept'
  <2>1. /\ task[r] \in {"queued", "running"} /\ UNCHANGED <<stage, code, ledger>>
        /\ \A q \in Req \ {r} : task'[q] = task[q]
    BY <1>15 DEF RunTask, TaskStarts, TaskRefused, TaskAborts, TaskEnds, TypeInv
  <2>2. Booked(r)'
    BY <1>0, <2>1 DEF Booked, Returned
  <2> QED
    BY <2>1, <2>2, BookedElsewhere
<1>16. ASSUME NEW r \in Req, NextRequest(r) PROVE BooksKept'
  <2>1. Booked(r)'
    BY <1>16 DEF NextRequest, Booked, TypeInv
  <2>2. \A q \in Req \ {r} : /\ stage'[q] = stage[q] /\ task'[q] = task[q]
                              /\ code'[q] = code[q] /\ ledger'[q] = ledger[q]
    BY <1>16 DEF NextRequest, TypeInv
  <2> QED
    BY <2>1, <2>2, BookedElsewhere
<1>17. CASE Signal \/ Stop
  BY <1>17 DEF Signal, Stop, local, shared, BooksKept, Booked
<1>18. CASE UNCHANGED vars
  BY <1>18 DEF vars, BooksKept, Booked
<1> QED
  BY <1>1, <1>2, <1>3, <1>4, <1>5, <1>6, <1>7, <1>8, <1>9, <1>10, <1>11, <1>12, <1>13, <1>14,
     <1>15, <1>16, <1>17, <1>18 DEF Next, Arrive, Handle

-----------------------------------------------------------------------------
(* The theorems *)

\* The inductive invariant: types without bounds, every busy slot has its
\* request, and the accounting of the three resources.
IInv == /\ TypeInv /\ Occupied
        /\ GlobalConserved /\ BucketsConserved
        /\ QuotaConserved /\ EveryCapHolds

\* The invariant holds at start-up, when nothing is held.
LEMMA InitIInv == Init => IInv
<1> SUFFICES ASSUME Init PROVE IInv
  OBVIOUS
<1>1. TypeInv /\ Occupied
  <2>1. <<>> \in Seq(Entry)
    OBVIOUS
  <2> QED
    BY <2>1 DEF Init, TypeInv, Occupied, Stage, Task, Phase, Code
<1>2. /\ PermitHolders = {}
      /\ \A b \in Bucket : BucketHolders(b) = {}
      /\ \A k \in Key : QuotaHolders(k) = {} /\ \A cap \in Nat : Under(k, cap) = {}
  BY DEF Init, PermitHolders, BucketHolders, QuotaHolders, Under, HoldsPermit, HoldsBucket,
         HoldsQuota
<1>3. Cardinality({}) = 0
  BY FS_EmptySet
<1>4. GlobalConserved
  BY <1>2, <1>3 DEF Init, GlobalConserved
<1>5. BucketsConserved
  <2> SUFFICES ASSUME NEW b \in Bucket PROVE bucket[b] + Cardinality(BucketHolders(b)) = PerPartition
    BY DEF BucketsConserved
  <2>1. bucket[b] = PerPartition /\ BucketHolders(b) = {}
    BY <1>2 DEF Init
  <2> QED
    BY <1>3, <2>1
<1>6. QuotaConserved
  BY <1>2, <1>3 DEF Init, QuotaConserved
<1>7. EveryCapHolds
  BY <1>2, <1>3 DEF EveryCapHolds
<1> QED
  BY <1>1, <1>4, <1>5, <1>6, <1>7 DEF IInv

\* The invariant survives every step.
LEMMA NextIInv == IInv /\ [Next]_vars => IInv'
<1> SUFFICES ASSUME IInv, [Next]_vars PROVE IInv'
  OBVIOUS
<1>1. TypeInv /\ Occupied /\ TypeInv' /\ Occupied'
  BY TypeStep DEF IInv
<1>2. CASE UNCHANGED <<stage, input, inflight, bucket, permits>>
  BY <1>1, <1>2 DEF IInv, GlobalConserved, BucketsConserved, QuotaConserved, EveryCapHolds,
     PermitHolders, BucketHolders, QuotaHolders, Under, HoldsPermit, HoldsBucket, HoldsQuota
<1>3. ASSUME NEW r \in Req, Effect(r) PROVE IInv'
  BY <1>1, <1>3, GlobalStep, BucketStep, QuotaStep, CapStep DEF IInv
<1> QED
  BY <1>1, <1>2, <1>3, StepEffect

\* The accounting of the pipeline holds in every reachable state.
THEOREM Invariance == Spec => []IInv
  BY InitIInv, NextIInv, PTL DEF Spec

\* Type correctness: in particular neither semaphore ever holds more permits
\* than it was built with.
THEOREM TypeCorrect == Spec => []TypeOK
<1>1. IInv => TypeOK
  <2> SUFFICES ASSUME IInv PROVE TypeOK
    OBVIOUS
  <2>1. permits \in 0..MaxConcurrent
    <3>1. Cardinality(PermitHolders) \in Nat
      BY SlotSets DEF PermitHolders
    <3> QED
      BY <3>1 DEF IInv, TypeInv, GlobalConserved
  <2>2. ASSUME NEW b \in Bucket PROVE bucket[b] \in 0..PerPartition
    <3>1. Cardinality(BucketHolders(b)) \in Nat
      BY SlotSets DEF BucketHolders
    <3> QED
      BY <3>1 DEF IInv, TypeInv, BucketsConserved
  <2> QED
    BY <2>1, <2>2 DEF IInv, TypeInv, TypeOK
<1> QED
  BY <1>1, Invariance, PTL

\* No path out of run_execute leaks or double-releases a tenant's quota.
THEOREM QuotaConservedHolds == Spec => []QuotaConserved
  BY Invariance, PTL DEF IInv

\* No path out of run_execute leaks or double-releases a permit.
THEOREM PermitsConservedHolds == Spec => []PermitsConserved
<1>1. IInv => PermitsConserved
  BY DEF IInv, GlobalConserved, BucketsConserved, PermitsConserved
<1> QED
  BY <1>1, Invariance, PTL

\* Every plan's cap is honoured, for any plan table and any mix of plans.
THEOREM QuotaHonoredHolds == Spec => []QuotaHonored
<1>1. IInv => QuotaHonored
  <2> SUFFICES ASSUME IInv, NEW k \in Key, NEW r \in QuotaHolders(k),
                      NEW cap \in CapsOn(input[r].plan)
               PROVE  Cardinality(Under(k, cap)) <= cap
    BY DEF QuotaHonored, Under
  <2>1. cap \in Nat
    BY LimitIsStrictest
  <2> QED
    BY <2>1 DEF IInv, EveryCapHolds
<1> QED
  BY <1>1, Invariance, PTL

\* The global permits implement a bulkhead of MaxConcurrent handlers.
THEOREM BulkheadRefinement == Spec => ImplementsBulkhead
<1>1. Init => Bulkhead!Init
  BY DEF Init, Bulkhead!Init, PermitHolders, HoldsPermit
<1>2. IInv /\ [Next]_vars => [Bulkhead!Next]_PermitHolders
  <2> SUFFICES ASSUME IInv, [Next]_vars PROVE [Bulkhead!Next]_PermitHolders
    OBVIOUS
  <2>1. CASE UNCHANGED <<stage, input, inflight, bucket, permits>>
    BY <2>1 DEF PermitHolders, HoldsPermit
  <2>2. ASSUME NEW r \in Req, Effect(r) PROVE [Bulkhead!Next]_PermitHolders
    <3>1. Moves(r) /\ PermitEffect(r)
      BY <2>2 DEF Effect
    <3>2. CASE HoldsPermit(r)' <=> HoldsPermit(r)
      BY <3>1, <3>2 DEF Moves, PermitHolders, HoldsPermit
    <3>3. CASE ~HoldsPermit(r) /\ HoldsPermit(r)' /\ permits > 0
      <4>1. PermitHolders' = PermitHolders \cup {r} /\ r \notin PermitHolders
        BY <3>1, <3>3 DEF PermitHolders, HoldsPermit, Moves
      <4>2. Cardinality(PermitHolders) \in Nat
        BY SlotSets DEF PermitHolders
      <4>3. Cardinality(PermitHolders) < MaxConcurrent
        BY <3>3, <4>2 DEF IInv, GlobalConserved, TypeInv
      <4>a. Bulkhead!Cardinality(PermitHolders) = Cardinality(PermitHolders)
        BY Zenon DEF Bulkhead!Cardinality, Cardinality
      <4>4. Bulkhead!Enter(r)
        BY <4>1, <4>3, <4>a DEF Bulkhead!Enter
      <4> QED
        BY <4>4 DEF Bulkhead!Next
    <3>4. CASE HoldsPermit(r) /\ ~HoldsPermit(r)'
      <4>1. PermitHolders' = PermitHolders \ {r} /\ r \in PermitHolders
        BY <3>1, <3>4 DEF PermitHolders, HoldsPermit, Moves
      <4> QED
        BY <4>1 DEF Bulkhead!Next, Bulkhead!Leave
    <3> QED
      BY <3>1, <3>2, <3>3, <3>4 DEF PermitEffect
  <2> QED
    BY <2>1, <2>2, StepEffect DEF IInv
<1> QED
  BY <1>1, <1>2, Invariance, PTL DEF Spec, ImplementsBulkhead, Bulkhead!Spec

\* Every response has one outcome counter and one audit decision behind it, `allowed` and a
\* usage record exactly when the host took the invocation, whatever the interleaving of the handlers.
THEOREM ResponsesAreAccounted == Spec => []ResponseAccounted
<1>1. Init => BooksKept
  BY DEF Init, BooksKept, Booked
<1>2. IInv /\ BooksKept /\ [Next]_vars => BooksKept'
  BY BooksStep DEF IInv
<1>3. BooksKept => ResponseAccounted
  BY DEF BooksKept, Booked, ResponseAccounted
<1> QED
  BY <1>1, <1>2, <1>3, Invariance, PTL DEF Spec
=============================================================================
