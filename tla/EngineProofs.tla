---------------------------- MODULE EngineProofs ----------------------------
(***************************************************************************)
(* The safety properties of modules Engine and Capabilities, for any limits, *)
(* any number of invocations and any hosts.                                 *)
(***************************************************************************)
EXTENDS Capabilities, TLAPS, SequenceTheorems

\* Between setup_timeout and the end of run, the installed handler is the invocation's own
\* and measures its running time.
OwnHandler == pc \notin {"pooled", "done"} => handlerOf = run /\ elapsed = ran

\* The flag is set only when the limit is over.
FlagIsTrue == timedOut => ran > Timeout

\* The op counter counts the calls that reach the egress; without `io` there are none.
UsedIsPerformed == /\ performed = used
                   /\ ~ (profile = "Full" /\ egress) => used = 0

\* The buffer holds the accepted emits, all of this invocation; run returns those of them
\* that parse, also when it returns before anything ran.
BufferIsAccepted == /\ buffer = accepted
                    /\ pc = "started" => buffer = <<>> /\ effects = <<>>
                    /\ pc = "done" => effects = DrainEffects

IInv == /\ TypeOK
        /\ OwnHandler
        /\ FlagIsTrue
        /\ TimeoutIsTrue
        /\ UsedIsPerformed
        /\ BufferIsAccepted

\* The empty buffer, and the outcome of an invocation that has none yet.
LEMMA NothingYet == /\ <<>> \in Seq(Emitted)
                    /\ Len(<<>>) = 0
                    /\ DOMAIN <<>> = {}
                    /\ <<>> \in EffectTypes
                    /\ NoOutcome \in ExecOutcome
                    /\ NoOutcome.kind = "None"
<1>1. <<>> \in Seq(Emitted) /\ Len(<<>>) = 0 /\ DOMAIN <<>> = {}
  OBVIOUS
<1>2. <<>> \in [{} -> Emitted]
  <2>1. <<>> \in [1 .. Len(<<>>) -> Emitted]
    BY <1>1, ElementOfSeq
  <2> QED
    BY <1>1, <2>1
<1>3. <<>> \in EffectTypes
  BY <1>2 DEF EffectTypes
<1> QED
  BY <1>1, <1>3 DEF NoOutcome, ExecOutcome

\* What drain_effects keeps of a buffer within its cap.
LEMMA DrainTypes ==
  ASSUME buffer \in Seq(Emitted), Len(buffer) <= MaxOps
  PROVE  DrainEffects \in EffectTypes
<1> DEFINE S == {i \in DOMAIN buffer : buffer[i] = "json"}
<1>1. DOMAIN buffer = 1 .. Len(buffer) /\ Len(buffer) \in Nat
  BY LenProperties
<1>2. S \in SUBSET (1 .. MaxOps)
  BY <1>1, LimitAssumption
<1>3. DrainEffects \in [S -> Emitted]
  BY DEF DrainEffects, Parsed, Emitted
<1> QED
  BY <1>2, <1>3 DEF EffectTypes

\* An invocation that never ran has nothing to drain.
LEMMA DrainNothing == buffer = <<>> => DrainEffects = <<>>
<1> SUFFICES ASSUME buffer = <<>> PROVE DrainEffects = <<>>
  OBVIOUS
<1>1. {i \in DOMAIN buffer : buffer[i] = "json"} = {}
  BY NothingYet
<1>2. DrainEffects = [i \in {} |-> buffer[i]]
  BY <1>1 DEF DrainEffects, Parsed
<1> QED
  BY <1>2

\* Initially the runtime is in the pool and nothing has happened.
LEMMA InitIInv == Init => IInv
<1> SUFFICES ASSUME Init PROVE IInv
  OBVIOUS
<1>1. TypeOK
  <2>1. egress \in BOOLEAN /\ timedOut \in BOOLEAN
    BY DEF Init
  <2>2. buffer \in Seq(Emitted) /\ Len(buffer) <= MaxOps /\ accepted \in Seq(Emitted)
    BY LimitAssumption, NothingYet DEF Init
  <2>4. effects \in EffectTypes
    BY NothingYet DEF Init
  <2>3. outcome \in ExecOutcome
    BY NothingYet DEF Init
  <2> QED
    BY LimitAssumption, <2>1, <2>2, <2>3, <2>4 DEF Init, TypeOK, Pc, JsCode, Profile, Elapsed
<1>2. OwnHandler /\ FlagIsTrue /\ TimeoutIsTrue /\ UsedIsPerformed
  BY NothingYet DEF Init, OwnHandler, FlagIsTrue, TimeoutIsTrue, UsedIsPerformed
<1>3. BufferIsAccepted
  BY NothingYet DEF Init, BufferIsAccepted
<1> QED
  BY <1>1, <1>2, <1>3 DEF IInv

\* A step that leaves the invocation where ctx.with has returned o keeps the invariant when
\* the flag and the outcome tell the truth about the limit.
LEMMA ConcludeIInv ==
  ASSUME IInv,
         NEW o \in ExecOutcome,
         Conclude(o),
         pc \notin {"pooled", "done"},
         timedOut' \in BOOLEAN,
         timedOut' => ran > Timeout,
         o.kind = "Timeout" => ran > Timeout
  PROVE  IInv'
BY DEF IInv, TypeOK, OwnHandler, FlagIsTrue, TimeoutIsTrue, UsedIsPerformed,
       BufferIsAccepted, DrainEffects, Parsed, Conclude, params, interrupt, history, Pc

\* Every outcome the steps make is an ExecOutcome, and only the flag makes a Timeout.
LEMMA OutcomeTypes ==
  /\ \A e \in EngineError : Error(e) \in ExecOutcome /\ Error(e).kind = e
  /\ \A n \in OutputSize : Success(n) \in ExecOutcome /\ Success(n).kind = "Success"
BY DEF Error, Success, ExecOutcome, EngineError

LEMMA ClassifyTypes ==
  ASSUME NEW f \in BOOLEAN, NEW t \in BOOLEAN, pc \in JsCode
  PROVE  /\ Classify(f, t) \in EngineError
         /\ Classify(f, t) = "Timeout" => f
BY DEF Classify, ClassifyThrow, EngineError, JsCode

\* Every step of engine::run keeps the invariant.
LEMMA NextIInv == IInv /\ [Next]_vars => IInv'
<1> SUFFICES ASSUME IInv, [Next]_vars PROVE IInv'
  OBVIOUS
<1> USE LimitAssumption
<1>t. TypeOK /\ timedOut \in BOOLEAN
  BY DEF IInv, TypeOK
<1>1. ASSUME NEW r \in Run, NEW p \in Profile, NEW e \in BOOLEAN, Start(r, p, e) PROVE IInv'
  <2>1. TypeOK'
    <3>1. egress' \in BOOLEAN /\ timedOut' \in BOOLEAN
      BY <1>1 DEF Start, SetupTimeout
    <3>2. buffer' \in Seq(Emitted) /\ Len(buffer') <= MaxOps /\ accepted' \in Seq(Emitted)
      BY <1>1, NothingYet DEF Start
    <3>4. effects' \in EffectTypes
      BY <1>1, NothingYet DEF Start
    <3>3. outcome' \in ExecOutcome
      BY <1>1, NothingYet DEF Start
    <3> QED
      BY <1>1, <1>t, <3>1, <3>2, <3>3, <3>4 DEF TypeOK, Start, SetupTimeout, Pc, Elapsed
  <2>2. (OwnHandler /\ FlagIsTrue /\ TimeoutIsTrue /\ UsedIsPerformed)'
    BY <1>1, NothingYet DEF OwnHandler, FlagIsTrue, TimeoutIsTrue, UsedIsPerformed, Start,
       SetupTimeout
  <2>3. BufferIsAccepted'
    BY <1>1, NothingYet DEF BufferIsAccepted, Start
  <2> QED
    BY <2>1, <2>2, <2>3 DEF IInv
<1>2. CASE ContextFails
  <2>1. BufferIsAccepted'
    <3>1. buffer = <<>> /\ effects = <<>> /\ UNCHANGED <<buffer, effects, accepted>> /\ pc' = "done"
      BY <1>2 DEF IInv, BufferIsAccepted, ContextFails, history
    <3>2. DrainEffects' = DrainEffects
      BY <3>1 DEF DrainEffects, Parsed
    <3> QED
      BY <3>1, <3>2, DrainNothing DEF IInv, BufferIsAccepted
  <2> QED
    BY <1>2, <2>1, OutcomeTypes DEF IInv, TypeOK, OwnHandler, FlagIsTrue, TimeoutIsTrue,
       UsedIsPerformed, ContextFails, params, interrupt, history, Pc, EngineError
<1>3. CASE ContextCreated \/ Inject \/ Evaluated \/ Resolved \/ ReturnValue
  BY <1>3 DEF IInv, TypeOK, OwnHandler, FlagIsTrue, TimeoutIsTrue, UsedIsPerformed,
     BufferIsAccepted, ContextCreated, Inject, Evaluated, Resolved, ReturnValue, params, interrupt,
     history, Pc, JsCode
<1>4. CASE InjectFails
  <2>1. timedOut' \in BOOLEAN /\ (timedOut' => ran > Timeout)
    BY <1>4, <1>t DEF IInv, InjectFails, FlagMayBeSet, OwnHandler, FlagIsTrue
  <2> QED
    BY <1>4, <2>1, OutcomeTypes, ConcludeIInv DEF InjectFails, EngineError
<1>5. CASE ResolveFails
  <2>1. timedOut' \in BOOLEAN /\ (timedOut' => ran > Timeout)
    BY <1>5, <1>t DEF IInv, ResolveFails, FlagMayBeSet, OwnHandler, FlagIsTrue
  <2>2. PICK e \in {"Internal", "HandlerNotDefined", "MemoryLimit"} : Conclude(Error(e))
    BY <1>5 DEF ResolveFails
  <2>3. Error(e) \in ExecOutcome /\ Error(e).kind # "Timeout"
    BY OutcomeTypes DEF EngineError
  <2> QED
    BY <1>5, <2>1, <2>2, <2>3, ConcludeIInv DEF ResolveFails
<1>6. CASE EndRun
  <2>1. /\ EnforceOutputCap(outcome) \in ExecOutcome
        /\ EnforceOutputCap(outcome).kind = "Timeout" => outcome.kind = "Timeout"
    BY <1>t, OutcomeTypes DEF TypeOK, EnforceOutputCap, EngineError
  <2>2. effects' \in EffectTypes
    BY <1>6, <1>t, DrainTypes DEF TypeOK, EndRun
  <2>3. BufferIsAccepted'
    <3>1. UNCHANGED <<buffer, accepted>> /\ effects' = DrainEffects /\ pc' = "done"
      BY <1>6 DEF EndRun, history
    <3> QED
      BY <3>1 DEF IInv, BufferIsAccepted, DrainEffects, Parsed
  <2> QED
    BY <1>6, <2>1, <2>2, <2>3 DEF IInv, TypeOK, OwnHandler, FlagIsTrue, TimeoutIsTrue,
       UsedIsPerformed, EndRun, params, history, Pc
<1>7. CASE Answer
  <2>1. status' \in {0, 200, 422, 500}
    BY <1>7 DEF Answer, HttpStatus
  <2> QED
    BY <1>7, <2>1 DEF IInv, TypeOK, OwnHandler, FlagIsTrue, TimeoutIsTrue, UsedIsPerformed,
       BufferIsAccepted, Answer, params, interrupt, history, Pc
<1>8. ASSUME NEW v \in Emitted, Emit(v) PROVE IInv'
  <2>1. /\ buffer' \in Seq(Emitted)
        /\ Len(buffer') = Len(buffer) + 1
        /\ accepted' = buffer'
    BY <1>8, AppendProperties DEF IInv, TypeOK, BufferIsAccepted, Emit
  <2>2. Len(buffer) \in Nat
    BY <1>t, LenProperties DEF TypeOK
  <2> QED
    BY <1>8, <2>1, <2>2 DEF IInv, TypeOK, OwnHandler, FlagIsTrue, TimeoutIsTrue, UsedIsPerformed,
       BufferIsAccepted, Emit, params, interrupt, JsCode
<1>9. CASE Call
  BY <1>9 DEF IInv, TypeOK, OwnHandler, FlagIsTrue, TimeoutIsTrue, UsedIsPerformed,
     BufferIsAccepted, Call, IoInjected, params, interrupt, JsCode, Pc
<1>10. CASE CallReturns
  BY <1>10 DEF IInv, TypeOK, OwnHandler, FlagIsTrue, TimeoutIsTrue, UsedIsPerformed,
     BufferIsAccepted, CallReturns, params, interrupt, history, JsCode, Pc
<1>17. CASE NativeCall
  BY <1>17 DEF IInv, TypeOK, OwnHandler, FlagIsTrue, TimeoutIsTrue, UsedIsPerformed,
     BufferIsAccepted, NativeCall, params, interrupt, history, JsCode, Pc
<1>11. ASSUME NEW tagged \in BOOLEAN, Throw(tagged) PROVE IInv'
  <2>1. /\ Error(Classify(timedOut, tagged)) \in ExecOutcome
        /\ Error(Classify(timedOut, tagged)).kind = "Timeout" => timedOut
    BY <1>11, <1>t, ClassifyTypes, OutcomeTypes DEF Throw
  <2> QED
    BY <1>11, <1>t, <2>1, ConcludeIInv DEF Throw, IInv, FlagIsTrue, JsCode
<1>12. CASE ImportFails
  BY <1>12, <1>t, OutcomeTypes, ConcludeIInv DEF ImportFails, EngineError, IInv, FlagIsTrue
<1>13. CASE Interrupted
  <2>1. timedOut' \in BOOLEAN /\ (timedOut' => ran > Timeout)
    BY <1>13, <1>t DEF IInv, Interrupted, OwnHandler, FlagIsTrue, JsCode
  <2>2. /\ Error(Classify(timedOut', FALSE)) \in ExecOutcome
        /\ Error(Classify(timedOut', FALSE)).kind = "Timeout" => timedOut'
    BY <1>13, <2>1, ClassifyTypes, OutcomeTypes DEF Interrupted
  <2> QED
    BY <1>13, <2>1, <2>2, ConcludeIInv DEF Interrupted, JsCode
<1>14. ASSUME NEW n \in OutputSize, ReturnString(n) \/ Stringified(n) PROVE IInv'
  BY <1>14, <1>t, OutcomeTypes, ConcludeIInv DEF ReturnString, Stringified, IInv, FlagIsTrue
<1>15. CASE Tick
  BY <1>15 DEF IInv, TypeOK, OwnHandler, FlagIsTrue, TimeoutIsTrue, UsedIsPerformed,
     BufferIsAccepted, DrainEffects, Parsed, Tick, Later, Elapsed, params
<1>16. CASE UNCHANGED vars
  BY <1>16 DEF IInv, TypeOK, OwnHandler, FlagIsTrue, TimeoutIsTrue, UsedIsPerformed,
     BufferIsAccepted, DrainEffects, Parsed, vars, params, interrupt, history
<1> QED
  BY <1>1, <1>2, <1>3, <1>4, <1>5, <1>6, <1>7, <1>8, <1>9, <1>10, <1>11, <1>12, <1>13, <1>14,
     <1>15, <1>16, <1>17 DEF Next, HostStep, ScriptStep

LEMMA SpecIInv == Spec => []IInv
BY InitIInv, NextIInv, PTL DEF Spec

\* Types, and the caps on the emit buffer and the op counter, for every max_ops.
THEOREM EngineTypes == Spec => []TypeOK
<1>1. IInv => TypeOK
  BY DEF IInv
<1> QED
  BY <1>1, SpecIInv, PTL

\* A TIMEOUT is never reported for an invocation that has not used up its own limit.
THEOREM TimeoutIsTrueHolds == Spec => []TimeoutIsTrue
<1>1. IInv => TimeoutIsTrue
  BY DEF IInv
<1> QED
  BY <1>1, SpecIInv, PTL

\* No more than max_ops calls reach the egress, none without the `io` global.
THEOREM EgressBudgetHolds == Spec => []EgressBudget
<1>1. IInv => EgressBudget
  BY LimitAssumption DEF IInv, TypeOK, UsedIsPerformed, EgressBudget
<1> QED
  BY <1>1, SpecIInv, PTL

\* The effects reported are the accepted emits of the invocation, success or not.
THEOREM EffectsSurviveHolds == Spec => []EffectsSurvive
<1>1. IInv => EffectsSurvive
  BY DEF IInv, BufferIsAccepted, DrainEffects, Parsed, EffectsSurvive
<1> QED
  BY <1>1, SpecIInv, PTL

-----------------------------------------------------------------------------
(* The capabilities *)

\* Every step of the capabilities is a step of the engine, or one it does not see.
LEMMA CapStepIsEngineStep == [CapNext]_allVars => [Next]_vars
<1> SUFFICES ASSUME [CapNext]_allVars PROVE [Next]_vars
  OBVIOUS
<1>1. ASSUME NEW r \in Run, NEW p \in Profile, NEW e \in BOOLEAN, CapStart(r, p, e)
      PROVE  Next
  BY <1>1 DEF CapStart, Next
<1>2. CASE HostStep \/ ScriptStep \/ Call \/ Tick
  BY <1>2 DEF Next
<1>3. CASE IoReturns
  BY <1>3 DEF IoReturns, Next
<1>4. ASSUME NEW h \in Host, HttpBlocked(h) \/ HttpSend(h) PROVE [Next]_vars
  BY <1>4 DEF HttpBlocked, HttpSend, Next
<1>5. CASE ApiStep
  BY <1>5 DEF ApiStep, HttpEnds, HttpRedirected, Returns, Next
<1>6. CASE Presign \/ UsageCalled \/ DeleteSent
  BY <1>6 DEF Presign, UsageCalled, DeleteSent, Next
<1>7. CASE UsageStep
  BY <1>7 DEF UsageStep, ListPage, UsageLimit, PageArrives, LastPageArrives, TotalOverflows,
     PageFails, Returns, Next
<1>8. CASE DeleteStep
  BY <1>8 DEF DeleteStep, DeleteAnswered, DeleteFails, Returns, Next
<1>9. CASE UNCHANGED allVars
  BY <1>9 DEF allVars
<1> QED
  BY <1>1, <1>2, <1>3, <1>4, <1>5, <1>6, <1>7, <1>8, <1>9 DEF CapNext

\* The api and s3 globals work inside the engine: a behaviour with them is a behaviour of
\* the engine, so what is proved of engine::run holds of it.
THEOREM CapabilitiesKeepEngine == CapSpec => Spec
<1>1. CapInit => Init
  BY DEF CapInit
<1> QED
  BY <1>1, CapStepIsEngineStep, PTL DEF CapSpec, Spec

\* A request under way was below the limit when it was sent, and nothing else of its
\* collector is recorded before it ends; usage has no result while it lists; every api
\* call that sent something is recorded, or runs.
UnderWay == /\ native = "http" => recorded["http"] < MaxOps
            /\ native = "delete" => recorded["s3"] < MaxOps
            /\ listing => native = "usage" /\ recorded["s3"] < MaxOps
            /\ native = "usage" => usage = "none"
            /\ sent["http"] <= recorded["http"] + (IF native = "http" THEN 1 ELSE 0)

CapInv == /\ CapTypeOK
          /\ NetworkConfined
          /\ UsageComplete
          /\ UnderWay

\* Initially no function runs and nothing is recorded.
LEMMA InitCapInv == CapInit => CapInv
<1> SUFFICES ASSUME CapInit PROVE CapInv
  OBVIOUS
<1>1. listing \in BOOLEAN /\ more \in BOOLEAN /\ ~listing /\ ~more
  BY DEF CapInit
<1>2. native = "none" /\ host = None /\ previous = 0 /\ usage = "none"
  BY DEF CapInit
<1>3. recorded = Zero /\ sent = Zero /\ profile = "Full"
  BY DEF CapInit, Init
<1> QED
  BY <1>1, <1>2, <1>3, LimitAssumption, RedirectAssumption
     DEF CapInv, CapTypeOK, NetworkConfined, UsageComplete, UnderWay, Zero, Collector, SentCap

\* One more metric below the limit.
LEMMA RecordTypes ==
  ASSUME CapTypeOK, NEW c \in Collector, Record(c), recorded[c] < MaxOps
  PROVE  /\ recorded' \in [Collector -> 0 .. MaxOps]
         /\ recorded'[c] = recorded[c] + 1
         /\ \A d \in Collector \ {c} : recorded'[d] = recorded[d]
BY LimitAssumption DEF CapTypeOK, Record

\* One more request sent.
LEMMA SendTypes ==
  ASSUME CapTypeOK, NEW c \in Collector, Send(c)
  PROVE  /\ sent' \in [Collector -> 0 .. SentCap]
         /\ sent[c] \in Nat
         /\ sent'[c] <= sent[c] + 1
         /\ \A d \in Collector \ {c} : sent'[d] = sent[d]
BY LimitAssumption DEF CapTypeOK, Send, SentCap

\* Every step of the capabilities and of the engine below them keeps their invariant.
LEMMA NextCapInv == CapInv /\ [CapNext]_allVars => CapInv'
<1> SUFFICES ASSUME CapInv, [CapNext]_allVars PROVE CapInv'
  OBVIOUS
<1> USE LimitAssumption, RedirectAssumption, HostAssumption DEF CapInv, UsageComplete, metered, Collector
<1>n. sent["http"] \in Nat /\ recorded["http"] \in Nat /\ recorded["s3"] \in Nat
  BY DEF CapTypeOK, SentCap
<1>1. ASSUME NEW r \in Run, NEW p \in Profile, NEW e \in BOOLEAN, CapStart(r, p, e)
      PROVE  CapInv'
  <2>1. native = "none" /\ UNCHANGED request
    BY <1>1 DEF CapStart, Start, CapTypeOK, NetworkConfined
  <2>2. more' \in BOOLEAN /\ ~more' /\ listing' = listing /\ ~listing
    BY <1>1, <2>1 DEF CapStart, UnderWay
  <2>3. usage' = "none" /\ recorded' = Zero /\ sent' = Zero
    BY <1>1 DEF CapStart
  <2> QED
    BY <2>1, <2>2, <2>3 DEF request, CapTypeOK, NetworkConfined, UnderWay, Zero, SentCap
<1>2. CASE HostStep /\ UNCHANGED capVars
  <2>1. profile' = profile /\ pc # "calling"
    BY <1>2 DEF HostStep, ContextFails, ContextCreated, Inject, InjectFails, ResolveFails, Resolved,
       EndRun, Answer, Conclude, params
  <2> QED
    BY <1>2, <2>1 DEF capVars, request, pages, CapTypeOK, NetworkConfined, UnderWay
<1>3. CASE ScriptStep /\ UNCHANGED capVars
  <2>1. profile' = profile /\ pc # "calling"
    BY <1>3 DEF ScriptStep, Emit, Throw, ImportFails, Interrupted, Evaluated, ReturnValue,
       ReturnString, Stringified, Conclude, params, JsCode
  <2> QED
    BY <1>3, <2>1 DEF capVars, request, pages, CapTypeOK, NetworkConfined, UnderWay
<1>4. CASE (Call \/ Tick) /\ UNCHANGED capVars
  <2>1. profile' = profile /\ (pc = "calling" => pc' = "calling")
    BY <1>4 DEF Call, Tick, params
  <2> QED
    BY <1>4, <2>1 DEF capVars, request, pages, CapTypeOK, NetworkConfined, UnderWay
<1>5. CASE IoReturns
  BY <1>5 DEF IoReturns, CallReturns, params, capVars, request, pages, CapTypeOK, NetworkConfined,
     UnderWay
<1>6. ASSUME NEW h \in Host, HttpBlocked(h) PROVE CapInv'
  <2>1. native = "none"
    BY <1>6 DEF HttpBlocked, JsCode, NetworkConfined, CapTypeOK
  <2> QED
    BY <1>6, <2>1, RecordTypes DEF HttpBlocked, BelowLimit, vars, params, request, pages,
       CapTypeOK, NetworkConfined, UnderWay
<1>7. ASSUME NEW h \in Host, HttpSend(h) PROVE CapInv'
  <2>1. native = "none" /\ recorded["http"] < MaxOps /\ Send("http")
    BY <1>7 DEF HttpSend, NativeCall, BelowLimit, JsCode, NetworkConfined
  <2> QED
    BY <1>7, <2>1, SendTypes DEF HttpSend, NativeCall, params, pages, CapTypeOK, NetworkConfined,
       UnderWay
<1>8. ASSUME NEW h \in Host, HttpRedirected(h) PROVE CapInv'
  BY <1>8 DEF HttpRedirected, Follows, vars, params, pages, CapTypeOK, NetworkConfined, UnderWay
<1>9. CASE HttpEnds
  <2>1. recorded["http"] < MaxOps /\ Record("http") /\ ~listing
    BY <1>9 DEF HttpEnds, UnderWay
  <2> QED
    BY <1>n, <1>9, <2>1, RecordTypes DEF HttpEnds, Returns, CallReturns, params, pages, CapTypeOK,
       NetworkConfined, UnderWay
<1>10. CASE Presign
  <2>1. native = "none"
    BY <1>10 DEF Presign, JsCode, NetworkConfined, CapTypeOK
  <2> QED
    BY <1>10, <2>1, RecordTypes DEF Presign, BelowLimit, vars, params, request, pages,
       CapTypeOK, NetworkConfined, UnderWay
<1>11. CASE UsageCalled
  <2>1. listing' \in BOOLEAN /\ more' \in BOOLEAN /\ ~listing'
    BY <1>11 DEF UsageCalled
  <2>2. native' = "usage" /\ usage' = "none" /\ UNCHANGED <<profile, host, previous, recorded, sent>>
    BY <1>11 DEF UsageCalled, NativeCall, params
  <2>3. profile = "Full" /\ pc' = "calling" /\ native = "none"
    BY <1>11 DEF UsageCalled, NativeCall, JsCode, NetworkConfined
  <2> QED
    BY <1>n, <2>1, <2>2, <2>3 DEF CapTypeOK, NetworkConfined, UnderWay
<1>19. CASE DeleteSent
  <2>1. ~listing /\ native = "none" /\ Send("s3")
    BY <1>19 DEF DeleteSent, NativeCall, JsCode, NetworkConfined, UnderWay
  <2> QED
    BY <1>19, <2>1, SendTypes DEF DeleteSent, NativeCall, BelowLimit, params, pages, CapTypeOK,
       NetworkConfined, UnderWay
<1>12. CASE ListPage
  BY <1>12, SendTypes DEF ListPage, BelowLimit, vars, params, request, CapTypeOK, NetworkConfined, UnderWay
<1>13. CASE UsageLimit \/ PageFails
  <2>1. listing' \in BOOLEAN /\ ~listing'
    <3>1. CASE UsageLimit
      BY <3>1 DEF UsageLimit, CapTypeOK
    <3>2. CASE PageFails
      BY <3>2 DEF PageFails
    <3> QED
      BY <1>13, <3>1, <3>2
  <2>2. /\ native = "usage" /\ native' = "none" /\ usage' = "error"
        /\ UNCHANGED <<profile, host, previous, more, recorded, sent>>
    BY <1>13 DEF UsageLimit, PageFails, Returns, CallReturns, params
  <2> QED
    BY <1>n, <2>1, <2>2 DEF CapTypeOK, NetworkConfined, UnderWay
<1>14. CASE PageArrives
  <2>1. recorded["s3"] < MaxOps /\ Record("s3") /\ usage = "none"
    BY <1>14 DEF PageArrives, UnderWay
  <2>2. more' \in BOOLEAN /\ listing' \in BOOLEAN /\ ~listing'
    BY <1>14 DEF PageArrives
  <2>3. UNCHANGED <<pc, profile, native, host, previous, usage, sent>> /\ native = "usage"
    BY <1>14 DEF PageArrives, vars, params, request
  <2> QED
    BY <1>n, <2>1, <2>2, <2>3, RecordTypes DEF CapTypeOK, NetworkConfined, UnderWay
<1>15. CASE LastPageArrives
  <2>1. recorded["s3"] < MaxOps /\ Record("s3") /\ profile = "Full" /\ native = "usage"
    BY <1>15 DEF LastPageArrives, UnderWay, NetworkConfined
  <2>2. more' \in BOOLEAN /\ listing' \in BOOLEAN /\ ~listing' /\ ~more'
    BY <1>15 DEF LastPageArrives
  <2>3. UNCHANGED <<profile, host, previous, sent>> /\ native' = "none" /\ usage' = "ok"
    BY <1>15 DEF LastPageArrives, Returns, CallReturns, params
  <2> QED
    BY <1>n, <2>1, <2>2, <2>3, RecordTypes DEF CapTypeOK, NetworkConfined, UnderWay
<1>20. CASE TotalOverflows
  <2>1. recorded["s3"] < MaxOps /\ Record("s3") /\ profile = "Full" /\ native = "usage"
    BY <1>20 DEF TotalOverflows, UnderWay, NetworkConfined
  <2>2. listing' \in BOOLEAN /\ ~listing'
    BY <1>20 DEF TotalOverflows
  <2>3. UNCHANGED <<profile, host, previous, more, sent>> /\ native' = "none" /\ usage' = "error"
    BY <1>20 DEF TotalOverflows, Returns, CallReturns, params
  <2> QED
    BY <1>n, <2>1, <2>2, <2>3, RecordTypes DEF CapTypeOK, NetworkConfined, UnderWay
<1>16. CASE DeleteAnswered
  <2>1. recorded["s3"] < MaxOps /\ Record("s3") /\ profile = "Full" /\ ~listing /\ native = "delete"
    BY <1>16 DEF DeleteAnswered, UnderWay, NetworkConfined
  <2>2. UNCHANGED <<profile, host, previous, listing, more, usage, sent>> /\ native' = "none"
    BY <1>16 DEF DeleteAnswered, Returns, CallReturns, params, pages
  <2> QED
    BY <1>n, <2>1, <2>2, RecordTypes DEF CapTypeOK, NetworkConfined, UnderWay
<1>17. CASE DeleteFails
  BY <1>17 DEF DeleteFails, Returns, CallReturns, params, pages, CapTypeOK, NetworkConfined,
     UnderWay
<1>18. CASE UNCHANGED allVars
  BY <1>18 DEF allVars, vars, params, capVars, request, pages, CapTypeOK, NetworkConfined, UnderWay
<1> QED
  BY <1>1, <1>2, <1>3, <1>4, <1>5, <1>6, <1>7, <1>8, <1>9, <1>10, <1>11, <1>12, <1>13, <1>14,
     <1>15, <1>16, <1>17, <1>18, <1>19, <1>20 DEF CapNext, ApiStep, UsageStep, DeleteStep

LEMMA SpecCapInv == CapSpec => []CapInv
BY InitCapInv, NextCapInv, PTL DEF CapSpec

\* For every max_ops, every set of permitted hosts and every bound on redirects, what an
\* invocation sends out stays within what it was given.
THEOREM NetworkConfinedHolds == CapSpec => []NetworkConfined
<1>1. CapInv => NetworkConfined
  BY DEF CapInv
<1> QED
  BY <1>1, SpecCapInv, PTL

\* A total of s3.usage covers every page of its prefix, for every max_ops.
THEOREM UsageCompleteHolds == CapSpec => []UsageComplete
<1>1. CapInv => UsageComplete
  BY DEF CapInv
<1> QED
  BY <1>1, SpecCapInv, PTL

\* The types of the capabilities, with the metrics bounded by max_ops.
THEOREM CapabilityTypes == CapSpec => []CapTypeOK
<1>1. CapInv => CapTypeOK
  BY DEF CapInv
<1> QED
  BY <1>1, SpecCapInv, PTL
=============================================================================
