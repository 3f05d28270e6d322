------------------------ MODULE EventPipelineProofs ------------------------
(***************************************************************************)
(* EventPipeline: types, the account of the events, and the flush.           *)
(*                                                                         *)
(* The account is inductive with the types and the writer's hand (one event   *)
(* while it writes, none otherwise).  For the flush the invariant also says   *)
(* why the writer has nothing to come back for once it has ended: the         *)
(* channel is empty and no sender is left, so nobody can fill it again.       *)
(***************************************************************************)
EXTENDS EventPipeline, TLAPS, SequenceTheorems

\* What recv returning None means, and what main has waited for.
Quiet == /\ writer # "writing" => held = <<>>
         /\ writer = "writing" => Len(held) = 1
         /\ writer = "ended" => channel = <<>> /\ ~Senders
         /\ main \in {"returned", "exited"} => writer = "ended"
         /\ main \notin {"serving", "draining"} => Live = {}

IInv == TypeOK /\ EventsAccounted /\ Quiet

-----------------------------------------------------------------------------
LEMMA CapacityIsNat == Capacity \in Nat /\ Capacity >= 1
BY BufferAssumption DEF Capacity

\* record keeps the account whether the channel takes the event or not.
LEMMA RecordCounts ==
  ASSUME TypeOK, EventsAccounted, NEW e \in Event, Record(e), UNCHANGED <<held, stdout>>
  PROVE  /\ channel' \in Seq(Event) /\ Len(channel') <= Capacity
         /\ dropped' \in Nat
         /\ recorded' \in Seq(Event)
         /\ EventsAccounted'
<1>1. recorded' \in Seq(Event) /\ Len(recorded') = Len(recorded) + 1
  BY DEF TypeOK, Record
<1>2. CASE Len(channel) < Capacity
  <2>1. channel' \in Seq(Event) /\ Len(channel') = Len(channel) + 1 /\ dropped' = dropped
    <3>1. channel' = Append(channel, e) /\ dropped' = dropped
      BY <1>2 DEF Record
    <3> QED
      BY <3>1, AppendProperties DEF TypeOK
  <2> QED
    BY <1>1, <1>2, <2>1, CapacityIsNat DEF TypeOK, EventsAccounted
<1>3. CASE ~(Len(channel) < Capacity)
  <2>1. channel' = channel /\ dropped' = dropped + 1
    BY <1>3 DEF Record
  <2> QED
    BY <1>1, <2>1 DEF TypeOK, EventsAccounted
<1> QED
  BY <1>2, <1>3

\* A handler that records is alive: the writer has not ended.
LEMMA LiveMeansOpen ==
  ASSUME IInv, NEW r \in Request, handler[r] \in {"gated", "executing", "metered"}
  PROVE  /\ writer # "ended" /\ r \in Live
         /\ main \in {"serving", "draining"}
BY DEF IInv, Quiet, Senders, Live

\* A handler that moves on to a live point leaves the rest as it was; one that is gone can
\* only make Live smaller.
LEMMA HandlerMoves ==
  ASSUME IInv, NEW r \in Request, NEW l \in Handler, Goto(r, l), UNCHANGED <<main, writer, held>>,
         handler[r] \in {"gated", "executing", "metered"}
  PROVE  handler' \in [Request -> Handler] /\ Quiet'
<1>1. handler' \in [Request -> Handler]
  BY DEF IInv, TypeOK, Goto
<1>2. writer # "ended" /\ main \in {"serving", "draining"}
  BY LiveMeansOpen
<1> QED
  BY <1>1, <1>2 DEF IInv, Quiet, Main

-----------------------------------------------------------------------------
LEMMA InitEstablishes == Init => IInv
<1> SUFFICES ASSUME Init PROVE IInv
  OBVIOUS
<1>1. TypeOK
  BY CapacityIsNat DEF Init, TypeOK, Main, Handler, Event
<1>2. EventsAccounted
  BY DEF Init, EventsAccounted
<1>3. Quiet
  BY DEF Init, Quiet
<1> QED
  BY <1>1, <1>2, <1>3 DEF IInv

LEMMA NextPreserves == IInv /\ [Next]_vars => IInv'
<1> SUFFICES ASSUME IInv, [Next]_vars PROVE IInv'
  OBVIOUS
<1> USE DEF pipe, output
<1>1. ASSUME NEW r \in Request, Accept(r) PROVE IInv'
  <2>1. handler' \in [Request -> Handler]
    BY <1>1 DEF IInv, TypeOK, Accept, Goto, Handler
  <2>2. TypeOK'
    BY <1>1, <2>1 DEF IInv, TypeOK, Accept
  <2>3. EventsAccounted'
    BY <1>1 DEF IInv, EventsAccounted, Accept
  <2>4. writer # "ended"
    BY <1>1 DEF IInv, Quiet, Senders, Accept
  <2>5. Quiet'
    BY <1>1, <2>4 DEF IInv, Quiet, Accept
  <2> QED
    BY <2>2, <2>3, <2>5 DEF IInv
<1>2. ASSUME NEW r \in Request, NEW e \in Event, NEW l \in Handler,
             Record(e), Goto(r, l), UNCHANGED <<main, blocking, output>>,
             handler[r] \in {"gated", "executing", "metered"}
      PROVE IInv'
  <2>1. handler' \in [Request -> Handler] /\ Quiet'
    BY <1>2, HandlerMoves
  <2>2. /\ channel' \in Seq(Event) /\ Len(channel') <= Capacity
        /\ dropped' \in Nat /\ recorded' \in Seq(Event) /\ EventsAccounted'
    BY <1>2, RecordCounts DEF IInv
  <2>3. TypeOK'
    BY <1>2, <2>1, <2>2 DEF IInv, TypeOK
  <2> QED
    BY <2>1, <2>2, <2>3 DEF IInv
<1>3. ASSUME NEW r \in Request, Deny(r) PROVE IInv'
  BY <1>2, <1>3 DEF Deny, Event, Handler
<1>4. ASSUME NEW r \in Request, EmitUsage(r) PROVE IInv'
  BY <1>2, <1>4 DEF EmitUsage, Event, Handler
<1>5. ASSUME NEW r \in Request, EmitAllowed(r) PROVE IInv'
  BY <1>2, <1>5 DEF EmitAllowed, Event, Handler
<1>6. ASSUME NEW r \in Request, NEW l \in Handler, Goto(r, l), blocking' \subseteq Request,
             UNCHANGED <<main, pipe, output>>,
             handler[r] \in {"gated", "executing", "metered"}
      PROVE IInv'
  <2>1. handler' \in [Request -> Handler] /\ Quiet'
    BY <1>6, HandlerMoves
  <2>2. TypeOK' /\ EventsAccounted'
    BY <1>6, <2>1 DEF IInv, TypeOK, EventsAccounted
  <2> QED
    BY <2>1, <2>2 DEF IInv
<1>7. ASSUME NEW r \in Request, Refuse(r) \/ Execute(r) \/ Disconnect(r) PROVE IInv'
  <2>1. blocking' \subseteq Request
    BY <1>7 DEF IInv, TypeOK, Refuse, Execute, Disconnect
  <2> QED
    BY <1>6, <1>7, <2>1 DEF Refuse, Execute, Disconnect, Handler
<1>8. ASSUME NEW r \in Request, TaskEnds(r) PROVE IInv'
  BY <1>8 DEF TaskEnds, IInv, TypeOK, EventsAccounted, Quiet, Senders, Live
<1>9. CASE Receive
  <2>1. /\ channel' \in Seq(Event) /\ Len(channel') = Len(channel) - 1
        /\ held' \in Seq(Event) /\ Len(held') = 1 /\ held = <<>>
    BY <1>9 DEF Receive, IInv, TypeOK, Quiet
  <2>2. TypeOK'
    BY <1>9, <2>1, CapacityIsNat DEF Receive, IInv, TypeOK
  <2>3. EventsAccounted'
    <3>1. /\ Len(held) = 0 /\ recorded' = recorded /\ stdout' = stdout /\ dropped' = dropped
          /\ Len(channel) \in Nat /\ Len(stdout) \in Nat /\ dropped \in Nat
      BY <1>9, <2>1 DEF Receive, IInv, TypeOK
    <3> QED
      BY <2>1, <3>1 DEF IInv, EventsAccounted
  <2>4. Quiet'
    BY <1>9, <2>1 DEF Receive, IInv, Quiet, Live
  <2> QED
    BY <2>2, <2>3, <2>4 DEF IInv
<1>10. CASE WriteLine
  <2>1. stdout' \in Seq(Event) /\ Len(stdout') = Len(stdout) + Len(held)
    BY <1>10, ConcatProperties DEF WriteLine, IInv, TypeOK
  <2>2. held' = <<>> /\ Len(held') = 0
    BY <1>10 DEF WriteLine
  <2>3. TypeOK' /\ EventsAccounted'
    BY <1>10, <2>1, <2>2 DEF WriteLine, IInv, TypeOK, EventsAccounted
  <2>4. Quiet'
    BY <1>10 DEF WriteLine, IInv, Quiet, Live
  <2> QED
    BY <2>3, <2>4 DEF IInv
<1>11. CASE WriterEnds
  BY <1>11 DEF WriterEnds, IInv, TypeOK, EventsAccounted, Quiet, Senders, Live
<1>12. CASE Signal
  BY <1>12 DEF Signal, IInv, TypeOK, EventsAccounted, Quiet, Senders, Live, Main
<1>13. CASE ServeReturns
  BY <1>13 DEF ServeReturns, IInv, TypeOK, EventsAccounted, Quiet, Senders, Live, Main
<1>14. CASE PipelineShutdown
  BY <1>14 DEF PipelineShutdown, IInv, TypeOK, EventsAccounted, Quiet, Senders, Live, Main
<1>15. CASE Exit
  BY <1>15 DEF Exit, IInv, TypeOK, EventsAccounted, Quiet, Senders, Live, Main
<1>16. CASE UNCHANGED vars
  BY <1>16 DEF vars, IInv, TypeOK, EventsAccounted, Quiet, Senders, Live
<1> QED
  BY <1>1, <1>3, <1>4, <1>5, <1>7, <1>8, <1>9, <1>10, <1>11, <1>12, <1>13, <1>14, <1>15,
     <1>16 DEF Next, HandlerStep, Gate, Report, Writer, MainStep

\* The inductive invariant holds of every behaviour.
THEOREM Invariance == Spec => []IInv
BY InitEstablishes, NextPreserves, PTL DEF Spec

\* Types; the channel never holds more than its bound (events.rs, LogSink::record).
THEOREM TypeCorrect == Spec => []TypeOK
<1>1. IInv => TypeOK
  BY DEF IInv
<1> QED
  BY <1>1, Invariance, PTL

\* No event is lost silently: written, under way or counted as dropped, for any number of
\* requests and any buffer.
THEOREM EventsAccountedHolds == Spec => []EventsAccounted
<1>1. IInv => EventsAccounted
  BY DEF IInv
<1> QED
  BY <1>1, Invariance, PTL

\* When main has waited for the writer, everything that was accepted is written, and no
\* handler is left to record more (EventPipeline::shutdown, the end of main).
THEOREM FlushedAtExitHolds == Spec => []FlushedAtExit
<1>1. IInv => FlushedAtExit
  <2> SUFFICES ASSUME IInv, main \in {"returned", "exited"}
               PROVE  Live = {} /\ Len(stdout) + dropped = Len(recorded)
    BY DEF FlushedAtExit
  <2>1. channel = <<>> /\ held = <<>> /\ Live = {}
    BY DEF IInv, Quiet
  <2>2. Len(channel) = 0 /\ Len(held) = 0
    BY <2>1
  <2> QED
    BY <2>1, <2>2 DEF IInv, EventsAccounted, TypeOK
<1> QED
  BY <1>1, Invariance, PTL
=============================================================================
