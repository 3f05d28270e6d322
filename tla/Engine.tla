------------------------------- MODULE Engine -------------------------------
(***************************************************************************)
(* engine::run (crates/runlet-core/src/engine.rs): invocations, one after    *)
(* another, on one pooled QuickJS runtime, and the status the HTTP front      *)
(* derives from each (handler.rs, success_response and                       *)
(* engine_error_response).                                                  *)
(*                                                                         *)
(* The script is arbitrary code.  While it runs (at top level, in the        *)
(* handler, or in a toJSON method called when the result is serialized) it    *)
(* may emit, call the egress, throw or return whenever it likes, and may      *)
(* never return.  A refused emit, a refused or failed io.call and a failed    *)
(* read only throw an exception that the script may catch: such a step is     *)
(* Throw or no step at all.                                                  *)
(***************************************************************************)
EXTENDS Integers, Sequences

CONSTANTS Run,            \* invocations, told apart
          Timeout,        \* ExecParams::timeout, in clock ticks
          MaxOps,         \* ExecParams::max_ops
          MaxOutputSize,  \* ExecParams::max_output_size, 0 = off
          OutputSize,     \* sizes of the JSON a handler may return
          None            \* no value

ASSUME LimitAssumption == Timeout \in Nat /\ MaxOps \in Nat /\ MaxOutputSize \in Nat
ASSUME SizeAssumption == OutputSize \subseteq Nat
ASSUME NoneAssumption == None \notin Run

Profile == {"Full", "Deterministic"}

\* The program points: in the pool, the steps of run, user code, a native call.
JsCode == {"evaluating", "handling", "stringifying"}
Pc == {"pooled", "started", "injecting", "resolving", "calling", "finished", "done"} \cup JsCode

\* ExecOutcome: Success with its size, or the EngineError.
EngineError == {"Syntax", "ModuleNotFound", "HandlerNotDefined", "Timeout", "MemoryLimit",
                "OutputTooLarge", "Internal", "Script", "Capability"}
Success(n) == [kind |-> "Success", size |-> n]
Error(e) == [kind |-> e, size |-> 0]
ExecOutcome == [kind : {"Success", "None"} \cup EngineError, size : OutputSize \cup {0}]
NoOutcome == [kind |-> "None", size |-> 0]

\* What __emit appends: the JSON that the emit wrapper makes, or anything else (the script
\* may call __emit itself, or put its own JSON.stringify in place).
Emitted == {"json", "raw"}

\* The clock stops mattering one tick after the limit.
Elapsed == 0 .. Timeout + 1
Later(n) == IF n > Timeout THEN n ELSE n + 1

VARIABLES
  pc,         \* where the runtime is
  run,        \* the invocation it serves
  profile,    \* ExecParams::profile
  egress,     \* whether ExecParams::egress is wired
  handlerOf,  \* the invocation whose interrupt handler is installed, or None
  elapsed,    \* what start.elapsed() gives that handler
  timedOut,   \* the timed_out flag of this invocation
  used,       \* the op counter of inject_egress
  buffer,     \* the emit buffer
  resume,     \* the user code that waits for a native call
  outcome,    \* js_result, then ExecResult::outcome
  effects,    \* ExecResult::effects, by their positions in the buffer
  status,     \* the HTTP status answered, 0 before
  ran,        \* how long this invocation has been running
  accepted,   \* emits that returned to the script without an error, in order
  performed   \* calls that reached Egress::call

history == <<ran, accepted, performed>>
params == <<run, profile, egress>>
interrupt == <<handlerOf, elapsed>>
vars == <<pc, params, interrupt, timedOut, used, buffer, resume, outcome, effects, status, history>>

Init == /\ pc = "pooled"
        /\ run \in Run
        /\ profile = "Full"
        /\ egress = FALSE
        /\ handlerOf = None
        /\ elapsed = 0
        /\ timedOut = FALSE
        /\ used = 0
        /\ buffer = <<>>
        /\ resume = "handling"
        /\ outcome = NoOutcome
        /\ effects = <<>>
        /\ status = 0
        /\ ran = 0
        /\ accepted = <<>>
        /\ performed = 0

-----------------------------------------------------------------------------
(* Setting up *)

\* The flag belongs to the runtime and is not cleared.
SetupTimeoutStickyFlag(r) == /\ handlerOf' = r
                             /\ elapsed' = 0
                             /\ UNCHANGED timedOut

\* The handler is left to the pool.
SetupTimeoutNoHandler(r) == /\ timedOut' = FALSE
                            /\ UNCHANGED interrupt

\* setup_timeout: a fresh flag, and a handler that replaces whatever is installed.
SetupTimeout(r) == /\ handlerOf' = r
                   /\ elapsed' = 0
                   /\ timedOut' = FALSE

\* run is entered with a runtime of the pool, by another invocation than the last.
Start(r, p, e) == /\ pc = "pooled"
                  /\ r # run
                  /\ SetupTimeout(r)
                  /\ pc' = "started"
                  /\ run' = r /\ profile' = p /\ egress' = e
                  /\ buffer' = <<>> /\ used' = 0
                  /\ outcome' = NoOutcome /\ effects' = <<>> /\ status' = 0
                  /\ ran' = 0 /\ accepted' = <<>> /\ performed' = 0
                  /\ UNCHANGED resume

\* Context::full fails: run returns at once, past the clean-up.
ContextFails == /\ pc = "started"
                /\ pc' = "done"
                /\ outcome' = Error("Internal")
                /\ UNCHANGED <<params, interrupt, timedOut, used, buffer, resume, effects, status, history>>

ContextCreated == /\ pc = "started"
                  /\ pc' = "injecting"
                  /\ UNCHANGED <<params, interrupt, timedOut, used, buffer, resume, outcome, effects, status, history>>

\* ctx.with returns o.
Conclude(o) == /\ pc' = "finished"
               /\ outcome' = o
               /\ UNCHANGED <<params, interrupt, used, buffer, resume, effects, status, history>>

Inject == /\ pc = "injecting"
          /\ pc' = "evaluating"
          /\ UNCHANGED <<params, interrupt, timedOut, used, buffer, resume, outcome, effects, status, history>>

\* The engine's own JavaScript fails, perhaps for being interrupted.
FlagMayBeSet == timedOut' \in {timedOut, timedOut \/ elapsed > Timeout}

\* One of the inject functions fails.
InjectFails == /\ pc = "injecting"
               /\ Conclude(Error("Internal"))
               /\ FlagMayBeSet

-----------------------------------------------------------------------------
(* User code *)

\* emit(value), or __emit(text), below the cap.
Emit(v) == /\ pc \in JsCode
           /\ Len(buffer) < MaxOps
           /\ buffer' = Append(buffer, v)
           /\ accepted' = Append(accepted, v)
           /\ UNCHANGED <<pc, params, interrupt, timedOut, used, resume, outcome, effects, status, ran, performed>>

\* The gate looks at the wiring only.
IoInjectedAnyProfile == egress

\* There is an `io` global.
IoInjected == profile = "Full" /\ egress

\* io.call below the op limit; user code waits in Egress::call.
Call == /\ pc \in JsCode
        /\ IoInjected
        /\ used < MaxOps
        /\ used' = used + 1
        /\ performed' = performed + 1
        /\ resume' = pc
        /\ pc' = "calling"
        /\ UNCHANGED <<params, interrupt, timedOut, buffer, outcome, effects, status, ran, accepted>>

\* A function of the api or s3 global, which work inside the engine (Capabilities): user
\* code waits in it.
NativeCall == /\ pc \in JsCode
              /\ profile = "Full"
              /\ resume' = pc
              /\ pc' = "calling"
              /\ UNCHANGED <<params, interrupt, timedOut, used, buffer, outcome, effects, status, history>>

\* The egress or the function answers: the script goes on with a result or an exception.
CallReturns == /\ pc = "calling"
               /\ pc' = resume
               /\ UNCHANGED <<params, interrupt, timedOut, used, buffer, resume, outcome, effects, status, history>>

\* classify_throw: the flag first, then the __runlet tag.
ClassifyThrow(flag, tagged) == IF flag THEN "Timeout" ELSE IF tagged THEN "Capability" ELSE "Script"

\* The engine error for an exception that leaves the user code at pc.
Classify(flag, tagged) == CASE pc = "evaluating" -> "Syntax"
                            [] pc = "handling" -> ClassifyThrow(flag, tagged)
                            [] pc = "stringifying" -> "Internal"

\* The source does not parse, throws at top level (as every exception there: a syntax
\* error), or the handler, or a conversion of its result, throws.
Throw(tagged) == /\ pc \in JsCode
                 /\ Conclude(Error(Classify(timedOut, tagged)))
                 /\ UNCHANGED timedOut

\* An import names no registered module.
ImportFails == /\ pc = "evaluating"
               /\ Conclude(Error("ModuleNotFound"))
               /\ UNCHANGED timedOut

\* QuickJS polls the interrupt handler and the limit is over: an exception that no script
\* can catch.  The handler writes the flag of its own invocation.
Interrupted == /\ pc \in JsCode
               /\ handlerOf # None
               /\ elapsed > Timeout
               /\ timedOut' = (timedOut \/ handlerOf = run)
               /\ Conclude(Error(Classify(timedOut', FALSE)))

-----------------------------------------------------------------------------
(* From the source to the handler, and from the handler to the result *)

Evaluated == /\ pc = "evaluating"
             /\ pc' = "resolving"
             /\ UNCHANGED <<params, interrupt, timedOut, used, buffer, resume, outcome, effects, status, history>>

\* harden fails; there is no handler; the context does not fit in memory.
ResolveFails == /\ pc = "resolving"
                /\ \E e \in {"Internal", "HandlerNotDefined", "MemoryLimit"} : Conclude(Error(e))
                /\ FlagMayBeSet

Resolved == /\ pc = "resolving"
            /\ pc' = "handling"
            /\ UNCHANGED <<params, interrupt, timedOut, used, buffer, resume, outcome, effects, status, history>>

\* The handler returns a string (json(...) makes one): taken as it is.
ReturnString(n) == /\ pc = "handling"
                   /\ Conclude(Success(n))
                   /\ UNCHANGED timedOut

\* It returns another value: extract_json_string serializes it.
ReturnValue == /\ pc = "handling"
               /\ pc' = "stringifying"
               /\ UNCHANGED <<params, interrupt, timedOut, used, buffer, resume, outcome, effects, status, history>>

Stringified(n) == /\ pc = "stringifying"
                  /\ Conclude(Success(n))
                  /\ UNCHANGED timedOut

EnforceOutputCap(o) == IF MaxOutputSize # 0 /\ o.kind = "Success" /\ o.size > MaxOutputSize
                         THEN Error("OutputTooLarge")
                         ELSE o

\* The emits that parse as JSON.
Parsed(emits) == [i \in {i \in DOMAIN emits : emits[i] = "json"} |-> emits[i]]

\* The effects of a script that fails afterwards are lost.
DrainOnSuccess == IF outcome.kind = "Success" THEN Parsed(buffer) ELSE <<>>

\* drain_effects: what does not parse as JSON is left out.
DrainEffects == Parsed(buffer)

\* The end of run: no handler is left, the cap is applied, the buffer is drained.
EndRun == /\ pc = "finished"
          /\ pc' = "done"
          /\ handlerOf' = None
          /\ outcome' = EnforceOutputCap(outcome)
          /\ effects' = DrainEffects
          /\ UNCHANGED <<params, elapsed, timedOut, used, buffer, resume, status, history>>

\* EngineError::http_status.
HttpStatus(e) == CASE e = "Internal" -> 500
                   [] e \in {"Script", "Capability"} -> 200
                   [] OTHER -> 422

\* The runtime goes back to the pool and the response is made; a success that is not a
\* {data,error} envelope is malformed.
Answer == /\ pc = "done"
          /\ pc' = "pooled"
          /\ status' \in IF outcome.kind = "Success" THEN {200, 422} ELSE {HttpStatus(outcome.kind)}
          /\ UNCHANGED <<params, interrupt, timedOut, used, buffer, resume, outcome, effects, history>>

\* Time passes, for the installed handler and for the invocation.
Tick == /\ ran <= Timeout \/ elapsed <= Timeout
        /\ ran' = Later(ran)
        /\ elapsed' = Later(elapsed)
        /\ UNCHANGED <<pc, params, handlerOf, timedOut, used, buffer, resume, outcome, effects, status, accepted, performed>>

\* What the host does of its own accord.
HostStep == \/ ContextFails \/ ContextCreated \/ Inject \/ InjectFails
            \/ ResolveFails \/ Resolved \/ EndRun \/ Answer

\* What the script does but for the native calls it makes.
ScriptStep == \/ \E v \in Emitted : Emit(v)
              \/ \E tagged \in BOOLEAN : Throw(tagged)
              \/ ImportFails \/ Interrupted \/ Evaluated \/ ReturnValue
              \/ \E n \in OutputSize : ReturnString(n) \/ Stringified(n)

Next == \/ \E r \in Run, p \in Profile, e \in BOOLEAN : Start(r, p, e)
        \/ HostStep
        \/ ScriptStep
        \/ Call \/ NativeCall \/ CallReturns
        \/ Tick

Spec == Init /\ [][Next]_vars

-----------------------------------------------------------------------------
(* Properties *)

\* Emits by their positions in a buffer within its cap.
EffectTypes == UNION {[S -> Emitted] : S \in SUBSET (1 .. MaxOps)}

\* The variables have their types, and neither the emit buffer nor the op counter
\* exceeds max_ops.
TypeOK == /\ pc \in Pc
          /\ run \in Run
          /\ profile \in Profile
          /\ egress \in BOOLEAN
          /\ handlerOf \in Run \cup {None}
          /\ elapsed \in Elapsed
          /\ timedOut \in BOOLEAN
          /\ used \in 0 .. MaxOps
          /\ buffer \in Seq(Emitted) /\ Len(buffer) <= MaxOps
          /\ resume \in JsCode
          /\ outcome \in ExecOutcome
          /\ effects \in EffectTypes
          /\ status \in {0, 200, 422, 500}
          /\ ran \in Elapsed
          /\ accepted \in Seq(Emitted)
          /\ performed \in Nat

\* An invocation reported as TIMEOUT has used up its own limit: neither the flag nor the
\* handler of an earlier invocation of the pooled runtime (setup_timeout, run) is taken for
\* its own, even though run leaves a handler behind when Context::full fails.
TimeoutIsTrue == outcome.kind = "Timeout" => ran > Timeout

\* At most max_ops calls of an invocation reach the egress, wherever the script makes them
\* (top level, handler, toJSON) and whatever it catches, and none in the deterministic
\* profile (inject_egress).
EgressBudget == performed <= IF profile = "Full" /\ egress THEN MaxOps ELSE 0

\* The effects of an invocation are, in order, the emits the script was told had
\* succeeded, also when it failed afterwards, and none of another invocation's
\* (inject_emit, drain_effects).  Only what is no JSON is left out, silently: a script
\* that goes past the emit wrapper gets no error and no effect.
EffectsSurvive == pc = "done" =>
  /\ DOMAIN effects = {i \in DOMAIN accepted : accepted[i] = "json"}
  /\ \A i \in DOMAIN effects : effects[i] = accepted[i]

\* Every invocation gives its runtime back, also when the script never returns.
RunEnds == (pc # "pooled") ~> (pc = "pooled")
=============================================================================
