------------------------------- MODULE Session ------------------------------
(***************************************************************************)
(* One box-request session with fabricd: the box's egress client            *)
(* (crates/runlet/src/sidecar.rs) on one end of a duplex byte stream, the    *)
(* daemon's serve loop (crates/fabricd/src/main.rs) with the operator table  *)
(* (fabric-backends/src/resources.rs) and the session's BackendSet           *)
(* (backendset.rs) on the other, speaking Init, Call*, Drain (wire.rs).       *)
(*                                                                         *)
(* Sessions share nothing but the read-only table, so one is enough.  The    *)
(* script calls the egress synchronously: at most one round-trip is under    *)
(* way, but a call abandoned at the deadline leaves its request, and later   *)
(* its reply or what it did not read of it, in the stream; and an operation    *)
(* whose driver gave up may still take effect in the system behind it.        *)
(***************************************************************************)
EXTENDS Integers, Sequences, FiniteSets

CONSTANTS Kind,      \* capability kinds, in the order resolve looks at them: a sequence
          Stateless, \* the kinds whose backend is there from the start (amq)
          Table,     \* operator table: resource name -> [tenant, kind]
          Inits,     \* the WireInits a box may send: [tenant, token, select]
          Accepted,  \* the tokens the authenticator accepts
          MaxOps,    \* engine limit on egress calls of one execution
          None       \* an absent tenant, token, name or value

Kinds == {Kind[i] : i \in DOMAIN Kind}
Call == 1..MaxOps

ASSUME MaxOpsAssumption == MaxOps \in Nat
ASSUME KindAssumption == Kind \in Seq(Kinds)
ASSUME StatelessAssumption == Stateless \subseteq Kinds
ASSUME InitsAssumption == \A in \in Inits : DOMAIN in.select = Kinds
ASSUME TableAssumption ==
  \A n \in DOMAIN Table : Table[n] = [tenant |-> Table[n].tenant, kind |-> Table[n].kind]
ASSUME NoneAssumption == None \notin DOMAIN Table

VARIABLES
  init,       \* the WireInit of this request
  box,        \* where the box is in the session
  expired,    \* the execution deadline has passed
  made,       \* egress calls the script has made
  result,     \* per call, what the script got from it
  drained,    \* what drain_metrics returned: a number of metrics, or None
  up,         \* request frames on their way to the daemon
  down,       \* response frames on their way to the box
  serve,      \* where the daemon's serve loop is
  current,    \* the call being dispatched, or None
  slot,       \* per kind, its slot in the BackendSet
  metrics,    \* metrics the backends have recorded
  performed,  \* calls whose effect has taken place, in order
  late        \* calls given up with their operation under way: an effect may follow

boxVars == <<init, box, expired, made, result, drained>>
daemonVars == <<serve, current, slot, metrics, performed, late>>
vars == <<init, box, expired, made, result, drained, up, down, serve, current, slot,
          metrics, performed, late>>

BoxState == {"start", "handshake", "running", "calling", "draining", "ended", "failed"}
ServeState == {"accepted", "ready", "dispatching", "ended"}
SlotState == {"absent", "unset", "open", "failed"}

CallFrame(i, k) == [type |-> "Call", id |-> i, kind |-> k]
Reply(i, ok) == [type |-> "Reply", id |-> i, ok |-> ok]
Metrics(n) == [type |-> "Metrics", count |-> n]
Bare(type) == [type |-> type]

\* None is none of the calls a daemon may have in hand.
ASSUME CallAssumption == \A i \in Call, k \in Kinds \cup {None} : None # CallFrame(i, k)

Pending == [got |-> "pending", of |-> 0, ok |-> FALSE]
Answer(f) == [got |-> "reply", of |-> f.id, ok |-> f.ok]
Failure(code) == [got |-> code, of |-> 0, ok |-> FALSE]

Init == /\ init \in Inits
        /\ box = "start"
        /\ expired = FALSE
        /\ made = 0
        /\ result = [i \in Call |-> Pending]
        /\ drained = None
        /\ up = <<>> /\ down = <<>>
        /\ serve = "accepted"
        /\ current = None
        /\ slot = [k \in Kinds |-> "absent"]
        /\ metrics = 0
        /\ performed = <<>> /\ late = {}

-----------------------------------------------------------------------------
(* Name resolution *)

\* pick without the tenant check.
PickAnyTenant(in, k) ==
  LET name == in.select[k] IN
    IF name = None THEN "none"
    ELSE IF name \notin DOMAIN Table THEN "RESOURCE_NOT_FOUND"
    ELSE IF Table[name].kind # k THEN "RESOURCE_KIND_MISMATCH"
    ELSE "resolved"

\* pick: another tenant's resource is not found, whatever its kind.
Pick(in, k) ==
  LET name == in.select[k] IN
    IF name = None THEN "none"
    ELSE IF name \notin DOMAIN Table \/ Table[name].tenant # in.tenant THEN "RESOURCE_NOT_FOUND"
    ELSE IF Table[name].kind # k THEN "RESOURCE_KIND_MISMATCH"
    ELSE "resolved"

Unresolved(in) == {i \in DOMAIN Kind : Pick(in, Kind[i]) \notin {"none", "resolved"}}
FirstUnresolved(in) ==
  Pick(in, Kind[CHOOSE i \in Unresolved(in) : \A j \in Unresolved(in) : i <= j])

\* from_configs: a slot for each resolved kind, connected on first use.
Slots(in) == [k \in Kinds |-> IF Pick(in, k) # "resolved" THEN "absent"
                              ELSE IF k \in Stateless THEN "open" ELSE "unset"]

-----------------------------------------------------------------------------
(* The stream.  A peer that is gone takes no more frames. *)

BoxGone == box \in {"ended", "failed"}
ToDaemon(f) == up' = IF serve = "ended" THEN up ELSE Append(up, f)
ToBox(f) == down' = IF BoxGone THEN down ELSE Append(down, f)

\* serve writes a response and reads on.  A write to a box that is gone may fail
\* (serve returns) or go unnoticed.
Respond(f) == /\ ToBox(f)
              /\ serve' \in IF BoxGone THEN {"ready", "ended"} ELSE {"ready"}

Eof == down = <<>> /\ serve = "ended"

\* A frame of which the deadline let only a part be written, or what is left of one of
\* which it let only a part be read.
Torn == Bare("Torn")
Whole(s) == s # <<>> /\ Head(s) # Torn

\* What read_frame may leave when it starts inside a frame: text taken for a length is
\* above the cap and costs four bytes, which may be the last of the frame; less than four
\* bytes make a length with those of the next frame, and the read goes on into it.
\* Nothing of this decodes.
Remains(s) == {SubSeq(s, n + 1, Len(s)) : n \in DOMAIN s}
                \cup {<<Torn>> \o SubSeq(s, n + 1, Len(s)) : n \in DOMAIN s}

\* What a read leaves that is dropped before it is complete.
HalfRead(s) == {s} \cup IF s = <<>> THEN {}
                        ELSE IF Whole(s) THEN {<<Torn>> \o Tail(s)} ELSE Remains(s)

-----------------------------------------------------------------------------
(* connect_session and handshake *)

\* No transport, unreadable token, or nobody answers: 503.
Unreachable == /\ box = "start"
               /\ box' = "failed"
               /\ serve' = "ended"
               /\ UNCHANGED <<init, expired, made, result, drained, up, down, current, slot,
                              metrics, performed, late>>

SendInit == /\ box = "start"
            /\ box' = "handshake"
            /\ ToDaemon(Bare("Init"))
            /\ UNCHANGED <<init, expired, made, result, drained, down, daemonVars>>

\* The answer to Init: Ack opens the session, anything else ends it.
Handshaken == /\ box = "handshake" /\ down # <<>>
              /\ box' = IF Head(down).type = "Ack" THEN "running" ELSE "failed"
              /\ down' = Tail(down)
              /\ UNCHANGED <<init, expired, made, result, drained, up, daemonVars>>

\* The daemon closed during the handshake.
HandshakeLost == /\ box = "handshake" /\ Eof
                 /\ box' = "failed"
                 /\ UNCHANGED <<init, expired, made, result, drained, up, down, daemonVars>>

\* The client of the box went away, or admit turned the request down: the handler
\* is dropped before it runs the script, and the stream with it.
SessionDropped == /\ box = "handshake" \/ (box = "running" /\ made = 0 /\ ~expired)
                  /\ box' = "failed"
                  /\ UNCHANGED <<init, expired, made, result, drained, up, down, daemonVars>>

-----------------------------------------------------------------------------
(* SidecarEgress::call *)

\* The deadline anchored by SidecarEgress::new.
DeadlinePasses == /\ box \in {"running", "calling"} /\ ~expired
                  /\ expired' = TRUE
                  /\ UNCHANGED <<init, box, made, result, drained, up, down, daemonVars>>

Return(i, r) == /\ result' = [result EXCEPT ![i] = r]
                /\ box' = "running"

\* The script calls a capability of kind k (below the op limit); the frame is written.
StartCall(k) == /\ box = "running" /\ made < MaxOps
                /\ made' = made + 1
                /\ box' = "calling"
                /\ ToDaemon(CallFrame(made + 1, k))
                /\ UNCHANGED <<init, expired, result, drained, down, daemonVars>>

\* The frame is above the cap, which write_frame finds before it writes anything,
\* or the daemon is gone.
CallNotWritten == /\ box = "running" /\ made < MaxOps
                  /\ made' = made + 1
                  /\ Return(made + 1, Failure("IO_TRANSPORT"))
                  /\ UNCHANGED <<init, expired, drained, up, down, daemonVars>>

\* The deadline cuts the write of a frame that does not fit into the socket,
\* in the middle or before its first byte.
CallTorn == /\ box = "running" /\ made < MaxOps /\ expired
            /\ made' = made + 1
            /\ ToDaemon(Torn) \/ UNCHANGED up
            /\ Return(made + 1, Failure("IO_TIMEOUT"))
            /\ UNCHANGED <<init, expired, drained, down, daemonVars>>

\* A reply is whatever frame is next in the stream; it is looked at even when
\* no time is left, for timeout polls the round-trip before the clock.
CallReturns == /\ box = "calling" /\ Whole(down)
               /\ Return(made, IF Head(down).type = "Reply" THEN Answer(Head(down))
                                                            ELSE Failure("IO_PROTOCOL"))
               /\ down' = Tail(down)
               /\ UNCHANGED <<init, expired, made, drained, up, daemonVars>>

CallLost == /\ box = "calling" /\ Eof
            /\ Return(made, Failure("IO_TRANSPORT"))
            /\ UNCHANGED <<init, expired, made, drained, up, down, daemonVars>>

\* What is left of a frame is read as if it were one.
CallGarbled == /\ box = "calling" /\ down # <<>> /\ ~Whole(down)
               /\ Return(made, Failure("IO_TRANSPORT"))
               /\ down' \in Remains(down)
               /\ UNCHANGED <<init, expired, made, drained, up, daemonVars>>

\* The clock is looked at between frames only.
CallTimesOutBetweenFrames == /\ box = "calling" /\ expired /\ Whole(down)
                             /\ Return(made, Failure("IO_TIMEOUT"))
                             /\ UNCHANGED <<init, expired, made, drained, up, down, daemonVars>>

\* The deadline cuts the read, perhaps in the middle of a frame.
CallTimesOut == /\ box = "calling" /\ expired
                /\ Return(made, Failure("IO_TIMEOUT"))
                /\ down' \in HalfRead(down)
                /\ UNCHANGED <<init, expired, made, drained, up, daemonVars>>

-----------------------------------------------------------------------------
(* drain_metrics, after host.run returned; then the connection is dropped *)

StartDrain == /\ box = "running"
              /\ box' = "draining"
              /\ ToDaemon(Bare("Drain"))
              /\ UNCHANGED <<init, expired, made, result, drained, down, daemonVars>>

\* One round-trip, without a deadline.
DrainReturns == /\ box = "draining" /\ Whole(down)
                /\ box' = "ended"
                /\ drained' = IF Head(down).type = "Metrics" THEN Head(down).count ELSE None
                /\ down' = Tail(down)
                /\ UNCHANGED <<init, expired, made, result, up, daemonVars>>

\* What is left of a frame is read as if it were one; or waited on, when it makes a length
\* that the stream will not fill.
DrainGarbled == /\ box = "draining" /\ down # <<>> /\ ~Whole(down)
                /\ box' = "ended"
                /\ UNCHANGED <<init, expired, made, result, drained, up, down, daemonVars>>

\* A drain that waits on when the stream ends.
DrainLostWaits == /\ box = "draining" /\ serve = "ended"
                  /\ UNCHANGED vars

\* The Drain cannot be written, or its answer not be read.
DrainLost == /\ box = "draining" /\ serve = "ended"
             /\ box' = "ended"
             /\ UNCHANGED <<init, expired, made, result, drained, up, down, daemonVars>>

-----------------------------------------------------------------------------
(* serve *)

\* The first frame: authenticate, then resolve, then Ack.
ServeInit ==
  /\ serve = "accepted" /\ up # <<>>
  /\ up' = Tail(up)
  /\ IF init.token \notin Accepted \/ Unresolved(init) # {}
       THEN /\ ToBox([type |-> "InitError",
                      code |-> IF init.token \notin Accepted THEN "UNAUTHENTICATED"
                               ELSE FirstUnresolved(init)])
            /\ serve' = "ended"
            /\ UNCHANGED slot
       ELSE /\ Respond(Bare("Ack"))
            /\ slot' = Slots(init)
  /\ UNCHANGED <<boxVars, current, metrics, performed, late>>

\* A serve that takes any call that has arrived.
ServeAnyCall ==
  /\ serve = "ready"
  /\ \E n \in DOMAIN up :
       /\ up[n].type = "Call"
       /\ current' = up[n]
       /\ up' = SubSeq(up, 1, n - 1) \o SubSeq(up, n + 1, Len(up))
  /\ serve' = "dispatching"
  /\ UNCHANGED <<boxVars, down, slot, metrics, performed, late>>

\* Read a call and hand it to a blocking thread.
ServeCall == /\ serve = "ready" /\ up # <<>> /\ Head(up).type = "Call"
             /\ current' = Head(up)
             /\ up' = Tail(up)
             /\ serve' = "dispatching"
             /\ UNCHANGED <<boxVars, down, slot, metrics, performed, late>>

Replied(ok) == /\ Respond(Reply(current.id, ok))
               /\ current' = None
               /\ UNCHANGED <<boxVars, up>>

SlotOf(k) == IF k \in Kinds THEN slot[k] ELSE "absent"

\* No backend to ask: the kind is unknown, not configured, its connect failed
\* earlier in the session, or its connect fails now and the error is kept.
\* Likewise a payload that does not parse, after a connect that succeeded.
DispatchRefused ==
  /\ serve = "dispatching"
  /\ \E s \in SlotState :
       /\ CASE SlotOf(current.kind) = "unset" -> s \in {"open", "failed"}
            [] OTHER -> s = SlotOf(current.kind)
       /\ slot' = IF current.kind \in Kinds THEN [slot EXCEPT ![current.kind] = s] ELSE slot
  /\ Replied(FALSE)
  /\ UNCHANGED <<metrics, performed, late>>

\* There is a backend to run the operation of the call in hand.
Running == serve = "dispatching" /\ SlotOf(current.kind) \in {"unset", "open"}

\* A backend that answers once the operation is sent.
DispatchSends(ok) ==
  /\ Running
  /\ slot' = [slot EXCEPT ![current.kind] = "open"]
  /\ metrics' = metrics + 1
  /\ late' = late \cup {current.id}
  /\ UNCHANGED performed
  /\ Replied(ok)

\* The backend runs the operation and records a metric.  It succeeds, or fails: refused
\* by the system behind, or given up (deadline, broken connection) after it was sent.
DispatchRuns(ok) ==
  /\ Running
  /\ slot' = [slot EXCEPT ![current.kind] = "open"]
  /\ metrics' = metrics + 1
  /\ IF ok THEN performed' = Append(performed, current.id) /\ UNCHANGED late
           ELSE late' = late \cup {current.id} /\ UNCHANGED performed
  /\ Replied(ok)

\* The reply is above the frame cap: write_frame fails and serve returns.
DispatchTooLarge ==
  /\ Running
  /\ slot' = [slot EXCEPT ![current.kind] = "open"]
  /\ metrics' = metrics + 1
  /\ performed' = Append(performed, current.id)
  /\ serve' = "ended"
  /\ current' = None
  /\ UNCHANGED <<boxVars, up, down, late>>

Applied == {performed[n] : n \in DOMAIN performed}

\* An operation that was sent and given up takes effect after all, at any time: the
\* drivers drop their futures, they do not call the operation back.
LateEffect(i) == /\ i \in late \ Applied
                 /\ performed' = Append(performed, i)
                 /\ UNCHANGED <<boxVars, up, down, serve, current, slot, metrics, late>>

\* A Drain that is served ahead of the calls before it.
ServeDrainFirst ==
  /\ serve = "ready"
  /\ \E n \in DOMAIN up : /\ up[n].type = "Drain"
                          /\ up' = SubSeq(up, 1, n - 1) \o SubSeq(up, n + 1, Len(up))
  /\ Respond(Metrics(metrics))
  /\ UNCHANGED <<boxVars, current, slot, metrics, performed, late>>

ServeDrain == /\ serve = "ready" /\ up # <<>> /\ Head(up).type = "Drain"
              /\ up' = Tail(up)
              /\ Respond(Metrics(metrics))
              /\ UNCHANGED <<boxVars, current, slot, metrics, performed, late>>

\* A torn frame swallows the bytes that follow it.  When they complete it, the
\* garbage does not decode and serve returns; when they are too few, read_exact
\* waits for more.
ServeTorn == /\ serve = "ready" /\ up # <<>> /\ Head(up) = Torn
             /\ Len(up) > 1
             /\ \/ serve' = "ended" /\ up' = <<>>
                \/ serve' = "ready" /\ up' = <<Torn>>
             /\ UNCHANGED <<boxVars, down, current, slot, metrics, performed, late>>

\* A serve that takes the end of the stream for one only at a frame boundary.
ServeCleanEof == /\ serve \in {"accepted", "ready"} /\ BoxGone
                 /\ up = <<>>
                 /\ serve' = "ended"
                 /\ UNCHANGED <<boxVars, up, down, current, slot, metrics, performed, late>>

\* The end of the stream, at a frame boundary or inside a frame: serve returns
\* and the session's backends are dropped with it.
ServeEof == /\ serve \in {"accepted", "ready"} /\ BoxGone
            /\ up # <<>> => Head(up) = Torn
            /\ serve' = "ended"
            /\ UNCHANGED <<boxVars, up, down, current, slot, metrics, performed, late>>

\* fabricd exits.  What it had sent may still arrive, or (QUIC) be lost; the
\* operation under way may have had its effect, or have it yet.
DaemonDies(arrives) ==
  /\ serve # "ended" /\ box # "start"
  /\ late' = IF Running THEN late \cup {current.id} ELSE late
  /\ down' = IF arrives THEN down ELSE <<>>
  /\ serve' = "ended"
  /\ current' = None
  /\ UNCHANGED <<boxVars, up, slot, metrics, performed>>

-----------------------------------------------------------------------------

CallSteps == CallReturns \/ CallLost \/ CallTimesOut
BoxSteps == \/ SendInit \/ Handshaken \/ HandshakeLost
            \/ CallSteps \/ StartDrain \/ DrainReturns \/ DrainLost
ServeSteps == ServeInit \/ ServeCall \/ ServeDrain \/ ServeTorn \/ ServeEof
DispatchSteps == \/ DispatchRefused \/ DispatchTooLarge
                 \/ \E ok \in BOOLEAN : DispatchRuns(ok)

Next == \/ Unreachable \/ SessionDropped \/ BoxSteps \/ DeadlinePasses
        \/ \E k \in Kinds \cup {None} : StartCall(k)
        \/ CallNotWritten \/ CallTorn \/ CallGarbled \/ DrainGarbled
        \/ ServeSteps \/ DispatchSteps
        \/ \E arrives \in BOOLEAN : DaemonDies(arrives)
        \/ \E i \in late : LateEffect(i)

Spec == Init /\ [][Next]_vars

\* Both ends are scheduled, the clock runs and every script ends.  Nothing is assumed of
\* the backends (a connect, or amq.send, has no time limit, so a dispatch may hang), nor
\* of a read that starts inside a frame (it may wait for more).
Fairness == WF_vars(BoxSteps) /\ WF_vars(ServeSteps) /\ WF_vars(DeadlinePasses)

FairSpec == Spec /\ Fairness

-----------------------------------------------------------------------------
(* Properties *)

Request == {Bare("Init"), Bare("Drain"), Torn}
             \cup [type : {"Call"}, id : Call, kind : Kinds \cup {None}]
Response == {Bare("Ack"), Torn}
             \cup [type : {"InitError"},
                   code : {"UNAUTHENTICATED", "RESOURCE_NOT_FOUND", "RESOURCE_KIND_MISMATCH"}]
             \cup [type : {"Reply"}, id : Call, ok : BOOLEAN]
             \cup [type : {"Metrics"}, count : 0..MaxOps]
Result == [got : {"pending", "reply", "IO_TIMEOUT", "IO_TRANSPORT", "IO_PROTOCOL"},
           of : 0..MaxOps, ok : BOOLEAN]

\* The stream carries frames of the protocol only, and no execution makes more
\* calls than the engine's op limit.
TypeOK == /\ init \in Inits
          /\ box \in BoxState
          /\ expired \in BOOLEAN
          /\ made \in 0..MaxOps
          /\ result \in [Call -> Result]
          /\ drained \in 0..MaxOps \cup {None}
          /\ up \in Seq(Request)
          /\ down \in Seq(Response)
          /\ serve \in ServeState
          /\ current \in Request \cup {None}
          /\ slot \in [Kinds -> SlotState]
          /\ metrics \in 0..MaxOps
          /\ performed \in Seq(Call)
          /\ late \in SUBSET Call

Replies == {i \in Call : result[i].got = "reply"}

\* The stream carries no call ids, so a reply goes to the call that is waiting
\* when it is read.  It is never delivered twice, out of order or ahead of its
\* call, and it only misses its own call when that call, or one before it, had
\* given up at the deadline.
RepliesInOrder ==
  \A i \in Replies :
    /\ \/ result[i].of = i
       \/ result[i].of < i /\ \E j \in 1..result[i].of : result[j].got = "IO_TIMEOUT"
    /\ \A j \in Replies : i < j => result[i].of < result[j].of

\* Every call takes effect at most once.  A success the script was told of is an effect
\* that has taken place, and these are in the order of its calls, although abandoned
\* calls may still be executed after the script moved on; what takes effect out of order
\* was given up with the operation under way, and not answered with success.
EffectsInOrder ==
  /\ \A m, n \in DOMAIN performed : m < n =>
       /\ performed[m] # performed[n]
       /\ performed[m] < performed[n] \/ performed[n] \in late
  /\ \A i \in Replies : result[i].ok => result[i].of \in Applied \ late

\* A session only ever reaches resources of its own tenant and of the kind it
\* asked for, and none at all without an accepted token.
OnlyOwnResources ==
  \A k \in Kinds : slot[k] # "absent" =>
    /\ init.token \in Accepted
    /\ Table[init.select[k]] = [tenant |-> init.tenant, kind |-> k]

\* Metrics that reach the box are final and complete: no call of the session is
\* still queued or running, and every operation the script saw succeed is in.
MetricsAreFinal ==
  drained # None =>
    /\ drained = metrics
    /\ current = None /\ \A n \in DOMAIN up : up[n].type # "Call"
    /\ Cardinality({i \in Replies : result[i].ok}) <= drained

\* The script gets every call back, by the deadline: also from a daemon that hangs, that
\* left a frame unfinished or that is out of step, since the round-trip runs under timeout.
CallsReturn == box = "calling" ~> box # "calling"

HasTorn == \/ \E n \in DOMAIN up : up[n] = Torn
           \/ \E n \in DOMAIN down : down[n] = Torn

\* The daemon does not hang in a dispatch.
DispatchesEnd == []<>(serve # "dispatching")

\* If no dispatch hangs and the deadline cuts no frame in the middle, in either direction,
\* every session ends: the drain, which has no deadline, gets an answer or the end of the
\* stream, whatever timed out, arrived late or died before.
SessionEnds == DispatchesEnd /\ []~HasTorn => <>BoxGone

\* If no dispatch hangs, fabricd lets go of a session (and its backend connections) once
\* the box has closed it, whatever was queued or half written.
DaemonReleases == DispatchesEnd => (BoxGone ~> serve = "ended")

\* wire.rs, WireResponse::Reply: "The result of a [`WireRequest::Call`]", that
\* is, of the call it is returned from.
ReplyAnswersCall == \A i \in Replies : result[i].of = i
=============================================================================
