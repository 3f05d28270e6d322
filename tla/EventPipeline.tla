--------------------------- MODULE EventPipeline ---------------------------
(***************************************************************************)
(* The usage and audit events of the box from the handler to stdout, and     *)
(* the order in which main ends the process (crates/runlet/src/events.rs,    *)
(* main.rs, and the two emit functions of handler.rs), with events enabled.  *)
(*                                                                         *)
(* The channel closes when its last sender is gone.  Senders are clones of   *)
(* AppState: one in the router that axum::serve owns, one in every handler   *)
(* that still runs.  The blocking task of an execution holds none, and       *)
(* outlives its handler when the client disconnects.                        *)
(***************************************************************************)
EXTENDS Integers, Sequences, FiniteSets

CONSTANTS Request,  \* requests the process meets
          Io,       \* the requests among them that ask for io
          Buffer    \* config.events.buffer

ASSUME RequestAssumption == IsFiniteSet(Request) /\ Io \subseteq Request
ASSUME BufferAssumption == Buffer \in Nat

\* An audit says allowed (after a usage) or denied.
Event == Request \X {"usage", "allowed", "denied"}

\* mpsc::channel(bound.max(1))
Capacity == IF Buffer > 1 THEN Buffer ELSE 1

Main == {"serving", "draining", "flushing", "returned", "exited"}
Handler == {"idle", "gated", "executing", "metered", "gone"}

VARIABLES
  main,      \* how far main has got
  handler,   \* per request, how far its handler has got
  blocking,  \* requests whose blocking task runs
  channel,   \* the bounded channel
  dropped,   \* the counter of runlet_events_dropped_total
  writer,    \* the writer task: receiving, with an event in hand, ended
  held,      \* the event in its hand, as a sequence
  stdout,    \* the lines written
  recorded   \* history: the events handed to Sink::record, in order

pipe == <<channel, dropped, recorded>>
output == <<writer, held, stdout>>
vars == <<main, handler, blocking, channel, dropped, writer, held, stdout, recorded>>

Init == /\ main = "serving"
        /\ handler = [r \in Request |-> "idle"]
        /\ blocking = {}
        /\ channel = <<>>
        /\ dropped = 0
        /\ writer = "receiving"
        /\ held = <<>>
        /\ stdout = <<>>
        /\ recorded = <<>>

Live == {r \in Request : handler[r] \in {"gated", "executing", "metered"}}

\* main that keeps a clone of the sink until it returns.
SendersKeptByMain == Live # {} \/ main \in {"serving", "draining", "flushing"}

\* Some clone of the sink exists: in a handler, or in the router inside serve.
Senders == Live # {} \/ main \in {"serving", "draining"}

\* record that only logs a full channel.
RecordUncounted(e) == /\ recorded' = Append(recorded, e)
                      /\ channel' = IF Len(channel) < Capacity THEN Append(channel, e) ELSE channel
                      /\ UNCHANGED dropped

\* Sink::record: try_send, or count the drop.
Record(e) == /\ recorded' = Append(recorded, e)
             /\ IF Len(channel) < Capacity
                THEN channel' = Append(channel, e) /\ UNCHANGED dropped
                ELSE dropped' = dropped + 1 /\ UNCHANGED channel

Goto(r, l) == handler' = [handler EXCEPT ![r] = l]

-----------------------------------------------------------------------------
(* Handlers *)

\* axum hands the request to execute, with a clone of the state.
Accept(r) == /\ main = "serving"
             /\ handler[r] = "idle"
             /\ Goto(r, "gated")
             /\ UNCHANGED <<main, blocking, pipe, output>>

\* emit_denied: a gate ends the request.
Deny(r) == /\ handler[r] = "gated"
           /\ Record(<<r, "denied">>)
           /\ Goto(r, "gone")
           /\ UNCHANGED <<main, blocking, output>>

\* A rejection without an event: the access token is wrong.
Refuse(r) == /\ handler[r] = "gated"
             /\ Goto(r, "gone")
             /\ UNCHANGED <<main, blocking, pipe, output>>

\* spawn_blocking
Execute(r) == /\ handler[r] = "gated"
              /\ blocking' = blocking \cup {r}
              /\ Goto(r, "executing")
              /\ UNCHANGED <<main, pipe, output>>

\* The blocking task ends, whether its handler still waits for it or not.
TaskEnds(r) == /\ r \in blocking
               /\ blocking' = blocking \ {r}
               /\ UNCHANGED <<main, handler, pipe, output>>

\* emit_executed: the usage event, then the audit event.
EmitUsage(r) == /\ handler[r] = "executing" /\ r \notin blocking
                /\ Record(<<r, "usage">>)
                /\ Goto(r, "metered")
                /\ UNCHANGED <<main, blocking, output>>

EmitAllowed(r) == /\ handler[r] = "metered"
                  /\ Record(<<r, "allowed">>)
                  /\ Goto(r, "gone")
                  /\ UNCHANGED <<main, blocking, output>>

\* The client disconnects: axum drops the handler at one of its awaits.
Disconnect(r) == /\ handler[r] \in {"gated", "executing"}
                 /\ Goto(r, "gone")
                 /\ UNCHANGED <<main, blocking, pipe, output>>

-----------------------------------------------------------------------------
(* writer_loop *)

\* recv: the next event, the oldest first.
Receive == /\ writer = "receiving"
           /\ channel # <<>>
           /\ held' = <<Head(channel)>>
           /\ channel' = Tail(channel)
           /\ writer' = "writing"
           /\ UNCHANGED <<main, handler, blocking, dropped, recorded, stdout>>

\* println!; an Event always serializes.
WriteLine == /\ writer = "writing"
             /\ stdout' = stdout \o held
             /\ held' = <<>>
             /\ writer' = "receiving"
             /\ UNCHANGED <<main, handler, blocking, pipe>>

\* recv returns None: the channel is empty and closed.
WriterEnds == /\ writer = "receiving"
              /\ channel = <<>>
              /\ ~Senders
              /\ writer' = "ended"
              /\ UNCHANGED <<main, handler, blocking, pipe, held, stdout>>

-----------------------------------------------------------------------------
(* main *)

\* SIGTERM or Ctrl+C: serve stops accepting.
Signal == /\ main = "serving"
          /\ main' = "draining"
          /\ UNCHANGED <<handler, blocking, pipe, output>>

\* serve returns once no handler is left and drops the router; host.shutdown and
\* telemetry_guard.shutdown follow without an await.
ServeReturns == /\ main = "draining"
                /\ Live = {}
                /\ main' = "flushing"
                /\ UNCHANGED <<handler, blocking, pipe, output>>

\* A flush that does not wait for the writer.
PipelineShutdownDetached == /\ main = "flushing"
                            /\ main' = "returned"
                            /\ UNCHANGED <<handler, blocking, pipe, output>>

\* EventPipeline::shutdown awaits the writer; main returns.
PipelineShutdown == /\ main = "flushing"
                    /\ writer = "ended"
                    /\ main' = "returned"
                    /\ UNCHANGED <<handler, blocking, pipe, output>>

\* The runtime is dropped when its blocking tasks have ended.
Exit == /\ main = "returned"
        /\ blocking = {}
        /\ main' = "exited"
        /\ UNCHANGED <<handler, blocking, pipe, output>>

\* What a handler does before its execution, and after it.
Gate(r) == Deny(r) \/ Refuse(r) \/ Execute(r)
Report(r) == EmitUsage(r) \/ EmitAllowed(r)
HandlerStep(r) == Gate(r) \/ Report(r) \/ Disconnect(r)
Writer == Receive \/ WriteLine \/ WriterEnds
MainStep == ServeReturns \/ PipelineShutdown \/ Exit

Next == \/ \E r \in Request : Accept(r) \/ HandlerStep(r) \/ TaskEnds(r)
        \/ Writer
        \/ Signal \/ MainStep

Spec == Init /\ [][Next]_vars

\* Tasks are scheduled and stdout takes what is written.  Without io the gates
\* end (PlainRequestsEnd in Execute) and scripts end (RunEnds in Engine).  With
\* io neither is certain: the handshake before the execution and the drain at
\* the end of the task wait for the daemon without a limit.
Fairness == /\ \A r \in Request \ Io : WF_vars(Gate(r)) /\ WF_vars(TaskEnds(r))
            /\ \A r \in Request : WF_vars(Report(r))
            /\ WF_vars(Writer)
            /\ WF_vars(MainStep)

FairSpec == Spec /\ Fairness

-----------------------------------------------------------------------------
(* Properties *)

TypeOK == /\ main \in Main
          /\ handler \in [Request -> Handler]
          /\ blocking \subseteq Request
          /\ channel \in Seq(Event) /\ Len(channel) <= Capacity
          /\ dropped \in Nat
          /\ writer \in {"receiving", "writing", "ended"}
          /\ held \in Seq(Event)
          /\ stdout \in Seq(Event)
          /\ recorded \in Seq(Event)

\* Every event handed to the sink is a line on stdout, on its way there, or
\* counted by runlet_events_dropped_total: nothing is lost silently, not even
\* an event recorded while the writer winds down.
EventsAccounted == Len(recorded) = Len(stdout) + Len(held) + Len(channel) + dropped

\* When main returns, the events of every handler are out: nothing is left in
\* the channel or in the writer's hand, and no handler can record any more.
FlushedAtExit == main \in {"returned", "exited"} =>
                   /\ Live = {}
                   /\ Len(stdout) + dropped = Len(recorded)

\* The daemon answers every handshake and every drain, sooner or later, or the
\* session is lost.
IoEnds == \A r \in Io : []<>(handler[r] # "gated" /\ r \notin blocking)

\* A signal ends the process, unless a request with io hangs: the writer sees the
\* channel close although the sinks are spread over handlers and the router, and
\* blocking tasks whose client has gone are waited for.
ShutdownEnds == IoEnds => (main = "draining" ~> main = "exited")
=============================================================================
