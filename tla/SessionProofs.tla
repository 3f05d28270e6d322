---------------------------- MODULE SessionProofs ---------------------------
(***************************************************************************)
(* The safety properties of module Session, for any number of calls, any     *)
(* kinds of capability, any operator table and any Init a box may send.       *)
(*                                                                         *)
(* The calls of a session form one line: results the script has, replies in  *)
(* the stream, the call in dispatch, calls still queued (InOrder).  Every     *)
(* step moves calls along that line and none past another, which is why a     *)
(* reply can be late but never early, and why whoever waits behind a late     *)
(* reply waits behind a call that was given up (Displaced).                   *)
(***************************************************************************)
EXTENDS Session, TLAPS, SequenceTheorems, FiniteSetTheorems, WellFoundedInduction

\* Everything the daemon has done, and every reply it has sent, belongs to a call before d.
Past(d) == /\ metrics < d
           /\ \A m \in DOMAIN performed : performed[m] < d
           /\ \A i \in late : i < d
           /\ \A n \in DOMAIN down : down[n].type = "Reply" => down[n].id < d
           /\ \A i \in Replies : result[i].of < d

\* The calls in the stream, at the daemon and in the replies form one increasing sequence.
InOrder == /\ Past(made + 1)
           /\ current # None => current.id <= made /\ Past(current.id)
           /\ \A n \in DOMAIN up : up[n].type = "Call" =>
                /\ up[n].id <= made /\ Past(up[n].id)
                /\ current # None => current.id < up[n].id
                /\ \A m \in DOMAIN up : m < n /\ up[m].type = "Call" => up[m].id < up[n].id
           /\ \A n \in DOMAIN down : down[n].type = "Reply" =>
                /\ \A m \in DOMAIN down : m < n /\ down[m].type = "Reply" => down[m].id < down[n].id
                /\ \A i \in Replies : result[i].of < down[n].id

\* Call d is the one the script waits for, or it or one before it was given up.
Late(d) == \/ d = made /\ box = "calling"
           \/ \E j \in 1..d : result[j].got = "IO_TIMEOUT"

\* What is still to come back is late, unless the script waits for it, and only a read
\* that was given up leaves a part of a frame.
Displaced == /\ current # None => Late(current.id)
             /\ serve # "ended" => \A n \in DOMAIN up : up[n].type = "Call" => Late(up[n].id)
             /\ \A n \in DOMAIN down : down[n].type = "Reply" => Late(down[n].id)
             /\ \A n \in DOMAIN down : down[n].type = "Torn" =>
                  \E j \in Call : result[j].got = "IO_TIMEOUT"

\* A call has no result before it returns; only calls that were made have one.
Fresh == /\ \A i \in Call : i > made \/ (i = made /\ box = "calling") => result[i].got = "pending"
         /\ box = "calling" => made > 0
         /\ box \in {"start", "handshake"} => made = 0

\* A reply of success stands for an effect that has taken place.
Truthful == \A n \in DOMAIN down : down[n].type = "Reply" /\ down[n].ok =>
              down[n].id \in Applied \ late

\* The daemon has a call in hand exactly while it dispatches.
Dispatching == /\ current # None <=> serve = "dispatching"
               /\ current # None => current.type = "Call"

\* Which frames can be in the stream in which phase of the session.
Phases == /\ box = "start" => up = <<>> /\ down = <<>> /\ serve = "accepted"
          /\ box = "handshake" => /\ Len(up) + Len(down) <= 1
                                  /\ up # <<>> => Head(up).type = "Init"
          /\ box \in {"running", "calling", "draining", "ended"} => serve # "accepted"
          /\ box \in {"running", "calling", "draining"} =>
               \A n \in DOMAIN down : down[n].type \in {"Reply", "Metrics", "Torn"}
          /\ serve = "accepted" => down = <<>>
          /\ \A n \in DOMAIN up : up[n].type = "Drain" =>
               n = Len(up) /\ box \in {"draining", "ended"}

\* The calls that had their effect while they were dispatched.
Succeeded == Applied \ late

\* Nothing of the session is left to do.
Settled == /\ box \in {"draining", "ended"}
           /\ up = <<>> /\ current = None
           /\ Cardinality(Succeeded) <= metrics

\* Metrics leave the daemon when it is settled; as long as it lives no success is unmetered.
Metered == /\ serve # "ended" => Cardinality(Succeeded) <= metrics
           /\ \A n \in DOMAIN down : down[n].type = "Metrics" => down[n].count = metrics /\ Settled
           /\ drained # None => Settled /\ box = "ended"

\* A slot is there for a kind that was resolved under an accepted token.
Resolved == \A k \in Kinds : slot[k] # "absent" =>
              init.token \in Accepted /\ Pick(init, k) = "resolved"

IInv == /\ TypeOK
        /\ InOrder /\ Displaced /\ Fresh /\ Truthful
        /\ Dispatching /\ Phases /\ Metered /\ Resolved
        /\ RepliesInOrder /\ EffectsInOrder /\ MetricsAreFinal

-----------------------------------------------------------------------------
(* Frames and streams *)

LEMMA CallIsNat == /\ Call \subseteq Nat
                   /\ \A i \in Call : 1 <= i /\ i <= MaxOps
BY MaxOpsAssumption DEF Call

\* What a frame on its way to the daemon can be.
LEMMA RequestFrames ==
  ASSUME NEW f \in Request
  PROVE  /\ f.type \in {"Init", "Drain", "Torn", "Call"}
         /\ f.type = "Call" => f.id \in Call /\ f.kind \in Kinds \cup {None} /\ f # None
         /\ f = Torn <=> f.type = "Torn"
<1>1. CASE f \in {Bare("Init"), Bare("Drain"), Torn}
  BY <1>1 DEF Bare, Torn
<1>2. CASE f \in [type : {"Call"}, id : Call, kind : Kinds \cup {None}]
  <2>1. f = CallFrame(f.id, f.kind)
    BY <1>2 DEF CallFrame
  <2>2. f.id \in Call /\ f.kind \in Kinds \cup {None} /\ f.type = "Call"
    BY <1>2
  <2>3. f # None
    BY <2>1, <2>2, CallAssumption
  <2>4. Torn.type = "Torn"
    BY DEF Torn, Bare
  <2> QED
    BY <2>2, <2>3, <2>4
<1> QED
  BY <1>1, <1>2 DEF Request

LEMMA MakeRequest ==
  /\ Bare("Init") \in Request /\ Bare("Init").type = "Init"
  /\ Bare("Drain") \in Request /\ Bare("Drain").type = "Drain"
  /\ Torn \in Request /\ Torn.type = "Torn"
  /\ \A i \in Call, k \in Kinds \cup {None} :
       /\ CallFrame(i, k) \in Request
       /\ CallFrame(i, k).type = "Call" /\ CallFrame(i, k).id = i
BY DEF Request, Bare, Torn, CallFrame

\* What a frame on its way to the box can be.
LEMMA ResponseFrames ==
  ASSUME NEW f \in Response
  PROVE  /\ f.type \in {"Ack", "InitError", "Reply", "Metrics", "Torn"}
         /\ f.type = "Reply" => f.id \in Call /\ f.ok \in BOOLEAN
         /\ f.type = "Metrics" => f.count \in 0..MaxOps
         /\ f # Torn => f.type # "Torn"
<1>1. CASE f \in {Bare("Ack"), Torn}
  BY <1>1 DEF Bare, Torn
<1>2. CASE f \in [type : {"InitError"},
                  code : {"UNAUTHENTICATED", "RESOURCE_NOT_FOUND", "RESOURCE_KIND_MISMATCH"}]
  BY <1>2
<1>3. CASE f \in [type : {"Reply"}, id : Call, ok : BOOLEAN]
  BY <1>3
<1>4. CASE f \in [type : {"Metrics"}, count : 0..MaxOps]
  BY <1>4
<1> QED
  BY <1>1, <1>2, <1>3, <1>4 DEF Response

LEMMA MakeResponse ==
  /\ Bare("Ack") \in Response /\ Bare("Ack").type = "Ack"
  /\ Torn \in Response /\ Torn.type = "Torn"
  /\ \A i \in Call, ok \in BOOLEAN :
       /\ Reply(i, ok) \in Response
       /\ Reply(i, ok).type = "Reply" /\ Reply(i, ok).id = i /\ Reply(i, ok).ok = ok
  /\ \A n \in 0..MaxOps :
       /\ Metrics(n) \in Response
       /\ Metrics(n).type = "Metrics" /\ Metrics(n).count = n
BY DEF Response, Bare, Torn, Reply, Metrics

\* A frame is written at the end of the stream.
LEMMA Written ==
  ASSUME NEW S, NEW s \in Seq(S), NEW f \in S
  PROVE  /\ Append(s, f) \in Seq(S)
         /\ Len(Append(s, f)) = Len(s) + 1 /\ Len(s) \in Nat
         /\ \A n \in DOMAIN Append(s, f) :
              \/ n \in DOMAIN s /\ Append(s, f)[n] = s[n]
              \/ n = Len(s) + 1 /\ Append(s, f)[n] = f
         /\ \A n \in DOMAIN s : /\ n \in Nat /\ n <= Len(s)
                                /\ n \in DOMAIN Append(s, f) /\ Append(s, f)[n] = s[n]
         /\ Len(s) + 1 \in DOMAIN Append(s, f) /\ Append(s, f)[Len(s) + 1] = f
BY AppendProperties, LenProperties

\* A frame is read at its front.
LEMMA Taken ==
  ASSUME NEW S, NEW s \in Seq(S), s # <<>>
  PROVE  /\ Head(s) \in S /\ Head(s) = s[1] /\ 1 \in DOMAIN s
         /\ Tail(s) \in Seq(S)
         /\ Len(Tail(s)) = Len(s) - 1 /\ Len(s) \in Nat
         /\ \A n \in DOMAIN Tail(s) : /\ n \in Nat /\ 1 < n + 1
                                      /\ n + 1 \in DOMAIN s /\ Tail(s)[n] = s[n + 1]
BY HeadTailProperties, LenProperties

LEMMA InStream ==
  ASSUME NEW S, NEW s \in Seq(S), NEW n \in DOMAIN s
  PROVE  n \in 1..Len(s) /\ n \in Nat /\ s[n] \in S
BY LenProperties, ElementOfSeq

LEMMA EmptyStream == /\ \A S : <<>> \in Seq(S)
                     /\ Len(<<>>) = 0 /\ DOMAIN <<>> = {}
BY EmptySeq

-----------------------------------------------------------------------------
LEMMA InitIInv == Init => IInv
<1> SUFFICES ASSUME Init PROVE IInv
  OBVIOUS
<1>1. TypeOK
  <2>1. <<>> \in Seq(Request) /\ <<>> \in Seq(Response) /\ <<>> \in Seq(Call)
    BY EmptySeq
  <2>2. Pending \in Result /\ 0 \in 0..MaxOps
    BY MaxOpsAssumption DEF Pending, Result
  <2>3. result \in [Call -> Result] /\ slot \in [Kinds -> SlotState]
    BY <2>2 DEF Init, SlotState
  <2> QED
    BY <2>1, <2>2, <2>3 DEF Init, TypeOK, BoxState, ServeState
<1>2. Replies = {}
  BY DEF Init, Replies, Pending
<1>3. /\ DOMAIN up = {} /\ DOMAIN down = {} /\ DOMAIN performed = {} /\ late = {}
      /\ Cardinality(Succeeded) = 0
  <2>1. DOMAIN up = {} /\ DOMAIN down = {} /\ DOMAIN performed = {} /\ late = {}
    BY EmptyStream DEF Init
  <2>2. Succeeded = {}
    BY <2>1 DEF Succeeded, Applied
  <2> QED
    BY <2>1, <2>2, FS_EmptySet
<1>4. InOrder /\ Displaced /\ Fresh /\ Truthful
  BY <1>2, <1>3 DEF Init, InOrder, Past, Displaced, Fresh, Truthful, Pending
<1>5. Dispatching /\ Phases /\ Metered /\ Resolved
  BY <1>3 DEF Init, Dispatching, Phases, Metered, Resolved
<1>6. RepliesInOrder /\ EffectsInOrder /\ MetricsAreFinal
  BY <1>2, <1>3 DEF Init, RepliesInOrder, EffectsInOrder, MetricsAreFinal
<1> QED
  BY <1>1, <1>4, <1>5, <1>6 DEF IInv

-----------------------------------------------------------------------------
\* The numbers the invariant compares.
Numbers == /\ made \in Nat /\ metrics \in Nat
           /\ \A n \in DOMAIN up : /\ n \in Nat
                                   /\ up[n].type = "Call" => up[n].id \in Call /\ up[n].id \in Nat
           /\ current # None => current.id \in Call /\ current.id \in Nat
           /\ \A n \in DOMAIN down :
                /\ n \in Nat
                /\ down[n].type = "Reply" => down[n].id \in Call /\ down[n].id \in Nat
           /\ \A i \in Replies : i \in Nat /\ result[i].of \in Nat
           /\ \A n \in DOMAIN performed : /\ n \in Nat
                                          /\ performed[n] \in Call /\ performed[n] \in Nat
           /\ \A i \in late : i \in Call /\ i \in Nat

LEMMA NumbersAre == ASSUME IInv PROVE Numbers
<1>1. /\ \A n \in DOMAIN up : /\ n \in Nat
                              /\ up[n].type = "Call" => up[n].id \in Call /\ up[n].id \in Nat
      /\ current # None => current.id \in Call /\ current.id \in Nat
  BY RequestFrames, CallIsNat, InStream DEF IInv, TypeOK, Dispatching
<1>2. \A n \in DOMAIN down : /\ n \in Nat
                             /\ down[n].type = "Reply" => down[n].id \in Call /\ down[n].id \in Nat
  BY ResponseFrames, CallIsNat, InStream DEF IInv, TypeOK
<1>3. \A i \in Replies : i \in Nat /\ result[i].of \in Nat
  BY CallIsNat, MaxOpsAssumption DEF IInv, TypeOK, Replies, Result
<1>4. /\ \A n \in DOMAIN performed : n \in Nat /\ performed[n] \in Call /\ performed[n] \in Nat
      /\ \A i \in late : i \in Call /\ i \in Nat
  BY InStream, CallIsNat DEF IInv, TypeOK
<1> QED
  BY <1>1, <1>2, <1>3, <1>4, MaxOpsAssumption DEF Numbers, IInv, TypeOK

-----------------------------------------------------------------------------
(* What a step leaves alone *)

LEMMA SameOrder ==
  ASSUME InOrder, UNCHANGED <<made, result, up, down, current, metrics, performed, late>>
  PROVE  InOrder'
BY DEF InOrder, Past, Replies

LEMMA SameEffects ==
  ASSUME Truthful, EffectsInOrder, RepliesInOrder, UNCHANGED <<result, down, performed, late>>
  PROVE  Truthful' /\ EffectsInOrder' /\ RepliesInOrder'
BY DEF Truthful, EffectsInOrder, RepliesInOrder, Replies, Applied

LEMMA SameSuccesses ==
  ASSUME UNCHANGED <<performed, late>>
  PROVE  Succeeded' = Succeeded /\ Applied' = Applied
BY DEF Succeeded, Applied

LEMMA SameSlots ==
  ASSUME Resolved, UNCHANGED <<init, slot>>
  PROVE  Resolved'
BY DEF Resolved

LEMMA SameMetrics ==
  ASSUME MetricsAreFinal, UNCHANGED <<drained, metrics, current, up, result>>
  PROVE  MetricsAreFinal'
BY DEF MetricsAreFinal, Replies

\* The box moves on without touching the stream or a result, or the serve loop ends.
LEMMA OnlyPhases ==
  ASSUME IInv,
         UNCHANGED <<init, made, result, drained, up, down, current, slot, metrics, performed, late>>,
         expired' \in BOOLEAN,
         \/ UNCHANGED <<box, serve>>
         \/ /\ box \in {"start", "handshake", "running"} /\ box' = "failed"
            /\ UNCHANGED serve \/ (box = "start" /\ serve' = "ended")
         \/ box = "draining" /\ box' = "ended" /\ UNCHANGED serve
         \/ /\ UNCHANGED box /\ box # "start"
            /\ serve \in {"accepted", "ready"} /\ serve' = "ended"
  PROVE  IInv'
<1>1. TypeOK'
  BY DEF IInv, TypeOK, BoxState, ServeState
<1>2. InOrder'
  BY SameOrder DEF IInv
<1>3. Displaced' /\ Fresh'
  BY DEF IInv, Displaced, Late, Fresh
<1>4. Truthful' /\ EffectsInOrder' /\ RepliesInOrder'
  BY SameEffects DEF IInv
<1>5. Dispatching'
  BY DEF IInv, Dispatching, Phases
<1>6. Phases'
  BY DEF IInv, Phases
<1>7. Metered'
  BY SameSuccesses DEF IInv, Metered, Settled
<1>8. Resolved' /\ MetricsAreFinal'
  BY SameSlots, SameMetrics DEF IInv
<1> QED
  BY <1>1, <1>2, <1>3, <1>4, <1>5, <1>6, <1>7, <1>8 DEF IInv

LEMMA PhaseSteps ==
  ASSUME IInv,
         \/ Unreachable \/ HandshakeLost \/ SessionDropped \/ DeadlinePasses \/ DrainLost
         \/ DrainGarbled \/ ServeEof \/ UNCHANGED vars
  PROVE  IInv'
<1> USE DEF boxVars, daemonVars, vars
<1>0. expired \in BOOLEAN
  BY DEF IInv, TypeOK
<1>1. CASE Unreachable
  BY <1>0, <1>1, OnlyPhases DEF Unreachable
<1>2. CASE HandshakeLost
  BY <1>0, <1>2, OnlyPhases DEF HandshakeLost
<1>3. CASE SessionDropped
  BY <1>0, <1>3, OnlyPhases DEF SessionDropped
<1>4. CASE DeadlinePasses
  BY <1>0, <1>4, OnlyPhases DEF DeadlinePasses
<1>5. CASE DrainLost \/ DrainGarbled
  BY <1>0, <1>5, OnlyPhases DEF DrainLost, DrainGarbled
<1>6. CASE ServeEof
  BY <1>0, <1>6, OnlyPhases DEF ServeEof, BoxGone
<1>7. CASE UNCHANGED vars
  BY <1>0, <1>7, OnlyPhases
<1> QED
  BY <1>1, <1>2, <1>3, <1>4, <1>5, <1>6, <1>7

-----------------------------------------------------------------------------
(* The box writes *)

\* A request goes behind the ones in the stream, or nowhere when the daemon is gone.
LEMMA Queued ==
  ASSUME IInv, NEW f \in Request, ToDaemon(f)
  PROVE  /\ up' \in Seq(Request)
         /\ \A n \in DOMAIN up' :
              \/ n \in DOMAIN up /\ up'[n] = up[n]
              \/ serve # "ended" /\ n = Len(up) + 1 /\ up'[n] = f /\ Len(up') = n
         /\ \A n \in DOMAIN up : n \in Nat /\ n <= Len(up) /\ up[n] \in Request
         /\ Len(up) \in Nat /\ Len(up') <= Len(up) + 1
<1>1. up \in Seq(Request)
  BY DEF IInv, TypeOK
<1>2. \A n \in DOMAIN up : n \in Nat /\ n <= Len(up) /\ up[n] \in Request
  BY <1>1, InStream
<1>3. Len(up) \in Nat
  BY <1>1, LenProperties
<1>4. CASE serve = "ended"
  BY <1>1, <1>2, <1>3, <1>4 DEF ToDaemon
<1>5. CASE serve # "ended"
  <2>1. up' = Append(up, f)
    BY <1>5 DEF ToDaemon
  <2> QED
    BY <1>1, <1>2, <1>3, <1>5, <2>1, Written
<1> QED
  BY <1>4, <1>5

\* While the box is not done nothing is settled.
LEMMA NotDrained ==
  ASSUME IInv, box \in {"start", "handshake", "running", "calling"}
  PROVE  /\ drained = None
         /\ \A n \in DOMAIN down : down[n].type # "Metrics"
         /\ \A n \in DOMAIN up : up[n].type # "Drain"
BY DEF IInv, Metered, Settled, Phases

\* A request that is no call.
LEMMA OtherRequest ==
  ASSUME IInv, NEW f \in Request, f.type # "Call", ToDaemon(f),
         UNCHANGED <<init, expired, made, result, drained, down, daemonVars>>,
         \/ box = "start" /\ box' = "handshake" /\ f.type = "Init"
         \/ box = "running" /\ box' = "draining" /\ f.type = "Drain"
  PROVE  IInv'
<1> USE DEF daemonVars
<1>1. /\ up' \in Seq(Request)
      /\ \A n \in DOMAIN up' :
           \/ n \in DOMAIN up /\ up'[n] = up[n]
           \/ serve # "ended" /\ n = Len(up) + 1 /\ up'[n] = f /\ Len(up') = n
      /\ \A n \in DOMAIN up : n \in Nat /\ n <= Len(up) /\ up[n] \in Request
      /\ Len(up) \in Nat /\ Len(up') <= Len(up) + 1
  BY Queued
<1>2. /\ drained = None
      /\ \A n \in DOMAIN down : down[n].type # "Metrics"
      /\ \A n \in DOMAIN up : up[n].type # "Drain"
  BY NotDrained
<1>3. TypeOK'
  BY <1>1 DEF IInv, TypeOK, BoxState
<1>4. InOrder'
  BY <1>1 DEF IInv, InOrder, Past, Replies
<1>5. Displaced' /\ Fresh'
  BY <1>1 DEF IInv, Displaced, Late, Fresh
<1>6. Truthful' /\ EffectsInOrder' /\ RepliesInOrder'
  BY SameEffects DEF IInv
<1>7. Dispatching' /\ Resolved'
  BY SameSlots DEF IInv, Dispatching
<1>8. Phases'
  <2>1. CASE box = "start"
    <3>1. up = <<>> /\ down = <<>> /\ serve = "accepted"
      BY <2>1 DEF IInv, Phases
    <3>2. up' = Append(<<>>, f)
      BY <3>1 DEF ToDaemon
    <3>3. Len(up') = 1 /\ Len(down') = 0 /\ Head(up') = f /\ DOMAIN up' = 1..1 /\ up'[1] = f
      BY <3>1, <3>2
    <3> QED
      BY <2>1, <3>1, <3>3 DEF Phases
  <2>2. CASE box = "running"
    BY <1>1, <1>2, <2>2 DEF IInv, Phases
  <2> QED
    BY <2>1, <2>2
<1>9. Metered' /\ MetricsAreFinal'
  BY <1>2, SameSuccesses DEF IInv, Metered, MetricsAreFinal
<1> QED
  BY <1>3, <1>4, <1>5, <1>6, <1>7, <1>8, <1>9 DEF IInv

LEMMA SendInitStep == ASSUME IInv, SendInit PROVE IInv'
BY OtherRequest, MakeRequest DEF SendInit

LEMMA StartDrainStep == ASSUME IInv, StartDrain PROVE IInv'
BY OtherRequest, MakeRequest DEF StartDrain

\* The next call is behind everything that was asked for before.
LEMMA StartCallStep ==
  ASSUME IInv, NEW k \in Kinds \cup {None}, StartCall(k)
  PROVE  IInv'
<1> USE DEF daemonVars
<1>0. /\ made \in Nat /\ made + 1 \in Call /\ made' = made + 1 /\ made' \in 0..MaxOps
      /\ box = "running" /\ box' = "calling"
      /\ UNCHANGED <<init, expired, result, drained, down, daemonVars>>
  BY MaxOpsAssumption DEF StartCall, IInv, TypeOK, Call
<1> DEFINE f == CallFrame(made + 1, k)
<1>f. f \in Request /\ f.type = "Call" /\ f.id = made + 1
  BY <1>0, MakeRequest
<1> HIDE DEF f
<1>1. /\ up' \in Seq(Request)
      /\ \A n \in DOMAIN up' :
           \/ n \in DOMAIN up /\ up'[n] = up[n]
           \/ serve # "ended" /\ n = Len(up) + 1 /\ up'[n] = f /\ Len(up') = n
      /\ \A n \in DOMAIN up : n \in Nat /\ n <= Len(up) /\ up[n] \in Request
      /\ Len(up) \in Nat
  <2>1. ToDaemon(f)
    BY DEF StartCall, f
  <2> QED
    BY <1>f, <2>1, Queued
<1>2. /\ drained = None
      /\ \A n \in DOMAIN down : down[n].type # "Metrics"
      /\ \A n \in DOMAIN up : up[n].type # "Drain"
  BY <1>0, NotDrained
<1>3. TypeOK'
  BY <1>0, <1>1 DEF IInv, TypeOK, BoxState
<1>c. Numbers
  BY NumbersAre
<1>4. InOrder'
  <2>1. Past(made + 1) /\ \A n \in DOMAIN up : up[n].type = "Call" => up[n].id <= made
    BY DEF IInv, InOrder
  <2>2. Past(made + 2)
    BY <2>1, <1>c DEF Past, Numbers
  <2>3. \A d : Past(d) => Past(d)'
    BY <1>0 DEF Past, Replies
  <2>4. Past(made + 1)'
    BY <2>2, <2>3, <1>0
  <2>5. current' # None => current'.id <= made' /\ Past(current.id)'
    BY <2>3, <1>0, <1>c DEF IInv, InOrder, Numbers
  <2>6. ASSUME NEW n \in DOMAIN up', up'[n].type = "Call"
        PROVE  /\ up'[n].id <= made' /\ Past(up[n].id)'
               /\ current' # None => current'.id < up'[n].id
               /\ \A m \in DOMAIN up' : m < n /\ up'[m].type = "Call" => up'[m].id < up'[n].id
    <3>1. CASE n \in DOMAIN up /\ up'[n] = up[n]
      BY <3>1, <2>3, <2>6, <1>0, <1>1, <1>c DEF IInv, InOrder, Numbers
    <3>2. CASE n = Len(up) + 1 /\ up'[n] = f
      BY <3>2, <2>1, <2>3, <1>0, <1>1, <1>c, <1>f DEF IInv, InOrder, Numbers
    <3> QED
      BY <3>1, <3>2, <1>1
  <2>7. \A n \in DOMAIN down' : down'[n].type = "Reply" =>
          /\ \A m \in DOMAIN down' : m < n /\ down'[m].type = "Reply" => down'[m].id < down'[n].id
          /\ \A i \in Replies' : result'[i].of < down'[n].id
    BY <1>0 DEF IInv, InOrder, Replies
  <2> QED
    BY <2>4, <2>5, <2>6, <2>7 DEF InOrder
<1>5. Displaced' /\ Fresh'
  <2>1. Fresh'
    BY <1>0, CallIsNat DEF IInv, Fresh
  <2>2. \A d : Late(d) => Late(d)'
    BY <1>0 DEF Late
  <2>3. \A d : d = made + 1 => Late(d)'
    BY <1>0 DEF Late
  <2>4. Displaced'
    BY <1>0, <1>1, <1>f, <2>2, <2>3 DEF IInv, Displaced
  <2> QED
    BY <2>1, <2>4
<1>6. Truthful' /\ EffectsInOrder' /\ RepliesInOrder'
  BY <1>0, SameEffects DEF IInv
<1>7. Dispatching' /\ Resolved'
  BY <1>0, SameSlots DEF IInv, Dispatching
<1>8. Phases'
  BY <1>0, <1>1, <1>2, <1>f DEF IInv, Phases
<1>9. Metered' /\ MetricsAreFinal'
  BY <1>0, <1>2, SameSuccesses DEF IInv, Metered, MetricsAreFinal
<1> QED
  BY <1>3, <1>4, <1>5, <1>6, <1>7, <1>8, <1>9 DEF IInv

-----------------------------------------------------------------------------
(* A call ends without a reply *)

\* Its result is the only one that changes, and it is not a reply.
LEMMA NoReply ==
  ASSUME IInv, NEW i \in Call, result[i].got = "pending",
         NEW code \in {"IO_TIMEOUT", "IO_TRANSPORT"},
         result' = [result EXCEPT ![i] = Failure(code)]
  PROVE  /\ result' \in [Call -> Result]
         /\ result'[i].got = code
         /\ \A j \in Call \ {i} : result'[j] = result[j]
         /\ Replies' = Replies /\ \A j \in Replies : result'[j] = result[j]
         /\ \A j : result[j].got = "IO_TIMEOUT" /\ j \in Call => result'[j].got = "IO_TIMEOUT"
<1>1. Failure(code) \in Result /\ Failure(code).got = code
  BY MaxOpsAssumption DEF Failure, Result
<1>2. /\ result' \in [Call -> Result]
      /\ result'[i] = Failure(code)
      /\ \A j \in Call \ {i} : result'[j] = result[j]
  BY <1>1 DEF IInv, TypeOK
<1>3. Replies' = Replies
  BY <1>1, <1>2 DEF Replies
<1> QED
  BY <1>1, <1>2, <1>3 DEF Replies

\* Frames have left the stream to the box from its front, and a part of one may be left.
Shortened(shift) ==
  /\ down' \in Seq(Response)
  /\ \A n \in DOMAIN down' :
       /\ n \in Nat
       /\ \/ n + shift \in DOMAIN down /\ down'[n] = down[n + shift]
          \/ down'[n] = Torn

\* What a read leaves behind.
LEMMA RemainsShorten ==
  ASSUME IInv, down' \in Remains(down)
  PROVE  \E shift \in Nat : Shortened(shift)
<1> USE DEF Shortened
<1>1. down \in Seq(Response) /\ Len(down) \in Nat /\ DOMAIN down = 1..Len(down)
  BY LenProperties DEF IInv, TypeOK
<1>2. PICK n \in DOMAIN down : \/ down' = SubSeq(down, n + 1, Len(down))
                              \/ down' = <<Torn>> \o SubSeq(down, n + 1, Len(down))
  BY DEF Remains
<1> DEFINE rest == SubSeq(down, n + 1, Len(down))
<1>3. /\ rest \in Seq(Response) /\ Len(rest) = Len(down) - n
      /\ \A i \in 1..Len(down) - n : rest[i] = down[n + i]
  <2>1. n \in Nat /\ n <= Len(down) /\ n >= 1 /\ n + 1 \in Int /\ Len(down) \in Int
    BY <1>1
  <2>2. \A i \in n + 1..Len(down) : down[i] \in Response
    BY <1>1, <2>1, ElementOfSeq
  <2>3. /\ rest \in Seq(Response) /\ Len(rest) = IF n + 1 <= Len(down) THEN Len(down) - (n + 1) + 1 ELSE 0
        /\ \A i \in 1..Len(down) - (n + 1) + 1 : rest[i] = down[n + 1 + i - 1]
    BY <2>1, <2>2, SubSeqProperties
  <2>4. Len(rest) = Len(down) - n /\ Len(down) - (n + 1) + 1 = Len(down) - n
    BY <2>1, <2>3
  <2>5. \A i \in 1..Len(down) - n : n + 1 + i - 1 = n + i
    BY <2>1
  <2> QED
    BY <2>3, <2>4, <2>5
<1> HIDE DEF rest
<1>4. n \in Nat /\ n - 1 \in Nat /\ n <= Len(down) /\ DOMAIN rest = 1..Len(rest)
  BY <1>1, <1>3, LenProperties
<1>5. CASE down' = rest
  <2>1. \A i \in DOMAIN down' : i \in Nat /\ i + n \in DOMAIN down /\ down'[i] = down[i + n]
    BY <1>1, <1>3, <1>4, <1>5
  <2> QED
    BY <2>1, <1>3, <1>4, <1>5
<1>6. CASE down' = <<Torn>> \o rest
  <2>1. <<Torn>> \in Seq(Response) /\ Len(<<Torn>>) = 1 /\ <<Torn>>[1] = Torn
    BY MakeResponse
  <2>2. /\ down' \in Seq(Response) /\ Len(down') = 1 + Len(rest)
        /\ \A i \in 1..1 + Len(rest) : down'[i] = IF i <= 1 THEN Torn ELSE rest[i - 1]
    BY <1>3, <1>6, <2>1, ConcatProperties
  <2>3. DOMAIN down' = 1..1 + Len(rest)
    BY <2>2, LenProperties
  <2>4. ASSUME NEW i \in DOMAIN down'
        PROVE  i \in Nat /\ (down'[i] = Torn \/
                             (i + (n - 1) \in DOMAIN down /\ down'[i] = down[i + (n - 1)]))
    <3>1. i \in Nat /\ i >= 1 /\ i <= 1 + (Len(down) - n)
      BY <2>3, <2>4, <1>1, <1>3, <1>4
    <3>2. CASE i <= 1
      BY <2>2, <2>3, <3>1, <3>2
    <3>3. CASE i > 1
      <4>1. i - 1 \in 1..Len(down) - n /\ n + (i - 1) = i + (n - 1)
        BY <3>1, <3>3, <1>1, <1>4
      <4>2. down'[i] = rest[i - 1]
        BY <2>2, <2>3, <3>1, <3>3
      <4>3. i + (n - 1) \in DOMAIN down
        BY <3>1, <3>3, <1>1, <1>4
      <4> QED
        BY <4>1, <4>2, <4>3, <1>3, <3>1
    <3> QED
      BY <3>1, <3>2, <3>3
  <2> QED
    BY <2>2, <2>4, <1>4
<1> QED
  BY <1>2, <1>5, <1>6 DEF rest

LEMMA HalfReadShortens ==
  ASSUME IInv, down' \in HalfRead(down)
  PROVE  \E shift \in Nat : Shortened(shift)
<1>1. down \in Seq(Response) /\ \A n \in DOMAIN down : n \in Nat /\ n + 0 = n
  BY InStream DEF IInv, TypeOK
<1>2. CASE down' = down
  BY <1>1, <1>2 DEF Shortened
<1>3. CASE down # <<>> /\ down' = <<Torn>> \o Tail(down)
  <2>1. Tail(down) = SubSeq(down, 1 + 1, Len(down)) /\ 1 \in DOMAIN down
    BY <1>1, <1>3, TailIsSubSeq, Taken
  <2> QED
    BY <1>3, <2>1, RemainsShorten DEF Remains
<1>4. CASE down' \in Remains(down)
  BY <1>4, RemainsShorten
<1> QED
  BY <1>2, <1>3, <1>4 DEF HalfRead

LEMMA LostCall ==
  ASSUME IInv, NEW i \in Call, NEW code \in {"IO_TIMEOUT", "IO_TRANSPORT"},
         Return(i, Failure(code)),
         ToDaemon(Torn) \/ UNCHANGED up,
         UNCHANGED <<init, expired, drained, daemonVars>>,
         NEW shift \in Nat, Shortened(shift),
         \/ box = "running" /\ i = made + 1 /\ made' = made + 1 /\ UNCHANGED down
         \/ /\ box = "calling" /\ i = made /\ made' = made
            /\ \/ code = "IO_TIMEOUT"
               \/ Eof /\ UNCHANGED down
               \/ \E n \in DOMAIN down : down[n].type = "Torn"
  PROVE  IInv'
<1> USE DEF daemonVars
<1>c. Numbers
  BY NumbersAre
<1>0. /\ made' \in 0..MaxOps /\ made' = i /\ i \in Nat /\ made <= i
      /\ box \in {"running", "calling"} /\ box' = "running"
      /\ UNCHANGED <<init, expired, drained, daemonVars>>
      /\ result' = [result EXCEPT ![i] = Failure(code)]
  BY CallIsNat, <1>c DEF Return, IInv, TypeOK, Numbers
<1>p. result[i].got = "pending"
  BY <1>c DEF IInv, Fresh, Numbers
<1>r. /\ result' \in [Call -> Result]
      /\ result'[i].got = code
      /\ \A j \in Call \ {i} : result'[j] = result[j]
      /\ Replies' = Replies /\ \A j \in Replies : result'[j] = result[j]
      /\ \A j : result[j].got = "IO_TIMEOUT" /\ j \in Call => result'[j].got = "IO_TIMEOUT"
  BY <1>0, <1>p, NoReply
<1>1. /\ up' \in Seq(Request)
      /\ \A n \in DOMAIN up' :
           \/ n \in DOMAIN up /\ up'[n] = up[n]
           \/ serve # "ended" /\ n = Len(up) + 1 /\ up'[n] = Torn
  BY Queued, MakeRequest DEF IInv, TypeOK
<1>u. \A n \in DOMAIN up' : up'[n].type \in {"Call", "Drain"} => n \in DOMAIN up /\ up'[n] = up[n]
  BY <1>1, MakeRequest
<1>2. /\ drained = None
      /\ \A n \in DOMAIN down : down[n].type # "Metrics"
      /\ \A n \in DOMAIN up : up[n].type # "Drain"
  BY <1>0, NotDrained
<1>d. /\ down' \in Seq(Response)
      /\ \A n \in DOMAIN down' : /\ n \in Nat
                                 /\ \/ n + shift \in DOMAIN down /\ down'[n] = down[n + shift]
                                    \/ down'[n].type = "Torn"
  BY MakeResponse DEF Shortened
<1>3. TypeOK'
  BY <1>0, <1>1, <1>d, <1>r DEF IInv, TypeOK, BoxState
<1>4. InOrder'
  <2>1. \A d : Past(d) => Past(d)'
    BY <1>0, <1>d, <1>r DEF Past
  <2>2. Past(i + 1)
    BY <1>0, <1>c DEF IInv, InOrder, Past, Numbers
  <2>3. Past(made + 1)'
    BY <2>1, <2>2, <1>0
  <2>4. current' # None => current'.id <= made' /\ Past(current.id)'
    BY <2>1, <1>0, <1>c DEF IInv, InOrder, Numbers
  <2>5. ASSUME NEW n \in DOMAIN up', up'[n].type = "Call"
        PROVE  /\ up'[n].id <= made' /\ Past(up[n].id)'
               /\ current' # None => current'.id < up'[n].id
               /\ \A m \in DOMAIN up' : m < n /\ up'[m].type = "Call" => up'[m].id < up'[n].id
    <3>1. n \in DOMAIN up /\ up'[n] = up[n] /\ up[n].type = "Call"
      BY <2>5, <1>u
    <3>2. /\ up[n].id <= made /\ Past(up[n].id)
          /\ current # None => current.id < up[n].id
          /\ \A m \in DOMAIN up : m < n /\ up[m].type = "Call" => up[m].id < up[n].id
      BY <3>1 DEF IInv, InOrder
    <3>3. up[n].id <= made'
      BY <3>1, <3>2, <1>0, <1>c DEF Numbers
    <3> QED
      BY <3>1, <3>2, <3>3, <2>1, <1>0, <1>u
  <2>6. \A n \in DOMAIN down' : down'[n].type = "Reply" =>
          /\ \A m \in DOMAIN down' : m < n /\ down'[m].type = "Reply" => down'[m].id < down'[n].id
          /\ \A j \in Replies' : result'[j].of < down'[n].id
    <3>1. ASSUME NEW n \in DOMAIN down', down'[n].type = "Reply"
          PROVE  \A j \in Replies' : result'[j].of < down'[n].id
      BY <3>1, <1>0, <1>d, <1>r DEF IInv, InOrder
    <3>2. ASSUME NEW n \in DOMAIN down', down'[n].type = "Reply",
                 NEW m \in DOMAIN down', m < n, down'[m].type = "Reply"
          PROVE  down'[m].id < down'[n].id
      <4>1. /\ n + shift \in DOMAIN down /\ down'[n] = down[n + shift]
            /\ m + shift \in DOMAIN down /\ down'[m] = down[m + shift]
            /\ m + shift < n + shift
        BY <3>2, <1>d
      <4> QED
        BY <3>2, <4>1 DEF IInv, InOrder
    <3> QED
      BY <3>1, <3>2
  <2> QED
    BY <2>3, <2>4, <2>5, <2>6 DEF InOrder
<1>5. Fresh'
  <2>1. ASSUME NEW j \in Call, j > i PROVE result'[j].got = "pending"
    <3>1. j > made /\ j # i
      BY <2>1, <1>0, <1>c, CallIsNat DEF Numbers
    <3> QED
      BY <3>1, <1>r DEF IInv, Fresh
  <2> QED
    BY <2>1, <1>0 DEF Fresh
<1>6. Displaced'
  <2>1. \A n \in DOMAIN down' : down'[n].type = "Torn" => \E j \in Call : result'[j].got = "IO_TIMEOUT"
    <3>1. CASE code = "IO_TIMEOUT"
      BY <3>1, <1>r
    <3>2. CASE UNCHANGED down \/ \E n \in DOMAIN down : down[n].type = "Torn"
      <4>1. ASSUME NEW n \in DOMAIN down' , down'[n].type = "Torn"
            PROVE  \E j \in Call : result[j].got = "IO_TIMEOUT"
        BY <3>2, <4>1 DEF IInv, Displaced
      <4> QED
        BY <4>1, <1>r
    <3> QED
      BY <3>1, <3>2
  <2>2. CASE Eof /\ UNCHANGED down
    <3>1. serve = "ended" /\ current = None /\ DOMAIN down' = {}
      BY <2>2, EmptyStream DEF Eof, IInv, Dispatching
    <3> QED
      BY <3>1, <1>0 DEF Displaced
  <2>3. CASE ~(Eof /\ UNCHANGED down)
    <3>1. \A d \in Call : Late(d) => Late(d)'
      <4>1. \A d \in Call : (\E j \in 1..d : result[j].got = "IO_TIMEOUT")
                              => \E j \in 1..d : result'[j].got = "IO_TIMEOUT"
        BY <1>r, MaxOpsAssumption DEF Call
      <4>2. \A d \in Call : d = made /\ box = "calling" => \E j \in 1..d : result'[j].got = "IO_TIMEOUT"
        <5>1. CASE code = "IO_TIMEOUT"
          BY <5>1, <1>0, <1>r, CallIsNat
        <5>2. CASE box = "calling" /\ \E n \in DOMAIN down : down[n].type = "Torn"
          <6>1. PICK j \in Call : result[j].got = "IO_TIMEOUT"
            BY <5>2 DEF IInv, Displaced
          <6>2. j \in 1..i /\ result'[j].got = "IO_TIMEOUT" /\ i = made
            BY <5>2, <6>1, <1>0, <1>p, <1>r, CallIsNat DEF IInv, Fresh
          <6> QED
            BY <6>2, <1>0
        <5> QED
          BY <5>1, <5>2, <2>3
      <4> QED
        BY <4>1, <4>2 DEF Late
    <3>2. current # None => current.id \in Call /\ Late(current.id)
      BY <1>c DEF IInv, Displaced, Numbers
    <3>3. serve # "ended" => \A n \in DOMAIN up : up[n].type = "Call" =>
                               up[n].id \in Call /\ Late(up[n].id)
      BY <1>c DEF IInv, Displaced, Numbers
    <3>4. \A n \in DOMAIN down : down[n].type = "Reply" => down[n].id \in Call /\ Late(down[n].id)
      BY <1>c DEF IInv, Displaced, Numbers
    <3>6. \A n \in DOMAIN down' : down'[n].type = "Reply" => Late(down[n].id)'
      BY <3>1, <3>4, <1>d
    <3> QED
      BY <2>1, <3>1, <3>2, <3>3, <3>6, <1>0, <1>u DEF Displaced
  <2> QED
    BY <2>2, <2>3
<1>7. RepliesInOrder'
  <2>1. \A j \in Replies : result[j].of \in 0..MaxOps
    BY DEF IInv, TypeOK, Replies, Result
  <2>2. \A d \in 0..MaxOps : (\E j \in 1..d : result[j].got = "IO_TIMEOUT")
                              => \E j \in 1..d : result'[j].got = "IO_TIMEOUT"
    BY <1>r, MaxOpsAssumption DEF Call
  <2> QED
    BY <2>1, <2>2, <1>r DEF IInv, RepliesInOrder
<1>8. Truthful' /\ EffectsInOrder'
  BY <1>0, <1>d, <1>r, SameSuccesses DEF IInv, Truthful, EffectsInOrder
<1>9. Dispatching' /\ Resolved'
  BY <1>0, SameSlots DEF IInv, Dispatching
<1>10. Phases'
  BY <1>0, <1>2, <1>d, <1>u DEF IInv, Phases
<1>11. Metered' /\ MetricsAreFinal'
  BY <1>0, <1>2, <1>d, SameSuccesses DEF IInv, Metered, MetricsAreFinal
<1> QED
  BY <1>3, <1>4, <1>5, <1>6, <1>7, <1>8, <1>9, <1>10, <1>11 DEF IInv

LEMMA LostCallSteps ==
  ASSUME IInv, CallNotWritten \/ CallTorn \/ CallLost \/ CallTimesOut \/ CallGarbled
  PROVE  IInv'
<1>0. made \in 0..MaxOps
  BY DEF IInv, TypeOK
<1>s. UNCHANGED down => 0 \in Nat /\ Shortened(0)
  BY InStream DEF IInv, TypeOK, Shortened
<1>1. CASE CallNotWritten
  <2>1. made + 1 \in Call
    BY <1>0, <1>1, MaxOpsAssumption DEF CallNotWritten, Call
  <2> QED
    BY <1>1, <1>s, <2>1, LostCall DEF CallNotWritten
<1>2. CASE CallTorn
  <2>1. made + 1 \in Call
    BY <1>0, <1>2, MaxOpsAssumption DEF CallTorn, Call
  <2> QED
    BY <1>2, <1>s, <2>1, LostCall DEF CallTorn
<1>3. CASE CallLost \/ CallTimesOut \/ CallGarbled
  <2>1. made \in Call
    BY <1>0, <1>3, MaxOpsAssumption DEF CallLost, CallTimesOut, CallGarbled, Call, IInv, Fresh
  <2>2. CASE CallLost
    BY <2>1, <2>2, <1>s, LostCall DEF CallLost
  <2>3. CASE CallTimesOut
    <3>1. PICK shift \in Nat : Shortened(shift)
      BY <2>3, HalfReadShortens DEF CallTimesOut
    <3> QED
      BY <2>1, <2>3, <3>1, LostCall DEF CallTimesOut
  <2>4. CASE CallGarbled
    <3>1. PICK shift \in Nat : Shortened(shift)
      BY <2>4, RemainsShorten DEF CallGarbled
    <3>2. \E n \in DOMAIN down : down[n].type = "Torn"
      <4>1. 1 \in DOMAIN down /\ Head(down) = down[1]
        BY <2>4, Taken DEF CallGarbled, IInv, TypeOK
      <4>2. down[1].type = "Torn"
        BY <2>4, <4>1, MakeResponse DEF CallGarbled, Whole
      <4> QED
        BY <4>1, <4>2
    <3> QED
      BY <2>1, <2>4, <3>1, <3>2, LostCall DEF CallGarbled
  <2> QED
    BY <1>3, <2>2, <2>3, <2>4
<1> QED
  BY <1>1, <1>2, <1>3

-----------------------------------------------------------------------------
(* The box reads *)

\* The stream to the box after the first frame has been taken from it.
LEMMA Read ==
  ASSUME IInv, down # <<>>, down' = Tail(down)
  PROVE  /\ down' \in Seq(Response)
         /\ Head(down) = down[1] /\ Head(down) \in Response /\ 1 \in DOMAIN down
         /\ Len(down') = Len(down) - 1 /\ Len(down) \in Nat
         /\ \A n \in DOMAIN down' : /\ n \in Nat /\ 1 < n + 1
                                    /\ n + 1 \in DOMAIN down /\ down'[n] = down[n + 1]
BY Taken DEF IInv, TypeOK

LEMMA HandshakenStep == ASSUME IInv, Handshaken PROVE IInv'
<1> USE DEF daemonVars
<1>0. /\ box = "handshake" /\ box' \in {"running", "failed"} /\ down # <<>>
      /\ UNCHANGED <<init, expired, made, result, drained, up, daemonVars>>
  BY DEF Handshaken
<1>1. /\ down' \in Seq(Response) /\ down' = Tail(down)
      /\ Len(down') = Len(down) - 1 /\ Len(down) \in Nat
  BY <1>0, Read DEF Handshaken
<1>2. /\ Len(up) \in Nat /\ Len(up) + Len(down) <= 1
  BY <1>0, LenProperties DEF IInv, TypeOK, Phases
<1>3. Len(up) = 0 /\ Len(down') = 0
  <2>1. Len(down) # 0
    BY <1>0, EmptySeq DEF IInv, TypeOK
  <2> QED
    BY <1>1, <1>2, <2>1, LenProperties
<1>4. DOMAIN up = {} /\ DOMAIN down' = {} /\ up = <<>> /\ down' = <<>>
  BY <1>1, <1>3, EmptySeq, EmptyStream DEF IInv, TypeOK
<1>5. TypeOK'
  BY <1>0, <1>1 DEF IInv, TypeOK, BoxState
<1>6. InOrder'
  BY <1>0, <1>4 DEF IInv, InOrder, Past, Replies
<1>7. Displaced' /\ Fresh'
  BY <1>0, <1>4 DEF IInv, Displaced, Late, Fresh
<1>8. Truthful' /\ EffectsInOrder' /\ RepliesInOrder'
  BY <1>0, <1>4, SameSuccesses DEF IInv, Truthful, EffectsInOrder, RepliesInOrder, Replies
<1>9. Dispatching' /\ Resolved'
  BY <1>0, SameSlots DEF IInv, Dispatching
<1>10. Phases'
  BY <1>0, <1>4 DEF IInv, Phases
<1>11. Metered' /\ MetricsAreFinal'
  BY <1>0, <1>4, NotDrained, SameSuccesses DEF IInv, Metered, MetricsAreFinal
<1> QED
  BY <1>5, <1>6, <1>7, <1>8, <1>9, <1>10, <1>11 DEF IInv

\* The script gets the oldest reply there is; whatever comes later is later than that.
LEMMA CallReturnsStep == ASSUME IInv, CallReturns PROVE IInv'
<1> USE DEF daemonVars
<1>c. Numbers
  BY NumbersAre
<1> DEFINE h == Head(down)
<1>0. /\ box = "calling" /\ box' = "running" /\ down # <<>> /\ down' = Tail(down) /\ h # Torn
      /\ UNCHANGED <<init, expired, made, drained, up, daemonVars>>
  BY DEF CallReturns, Return, Whole
<1>1. /\ down' \in Seq(Response)
      /\ h = down[1] /\ h \in Response /\ 1 \in DOMAIN down
      /\ \A n \in DOMAIN down' : /\ n \in Nat /\ 1 < n + 1
                                 /\ n + 1 \in DOMAIN down /\ down'[n] = down[n + 1]
  BY <1>0, Read
<1>2. /\ drained = None
      /\ \A n \in DOMAIN down : down[n].type # "Metrics"
      /\ \A n \in DOMAIN up : up[n].type # "Drain"
  BY <1>0, NotDrained
<1>3. h.type = "Reply" /\ h.id \in Call /\ h.id \in Nat /\ h.ok \in BOOLEAN
  <2>1. h.type = "Reply"
    BY <1>0, <1>1, <1>2, ResponseFrames DEF IInv, Phases
  <2> QED
    BY <1>1, <2>1, ResponseFrames, CallIsNat
<1>4. made \in Call /\ made \in Nat /\ result[made].got = "pending"
  BY <1>0, <1>c, MaxOpsAssumption DEF IInv, Fresh, TypeOK, Call, Numbers
<1>5. result' = [result EXCEPT ![made] = Answer(h)]
  BY <1>3 DEF CallReturns, Return
<1>6. /\ Answer(h) \in Result /\ Answer(h).got = "reply"
      /\ Answer(h).of = h.id /\ Answer(h).ok = h.ok
  BY <1>3, MaxOpsAssumption DEF Answer, Result, Call
<1> HIDE DEF h
<1>7. /\ result' \in [Call -> Result]
      /\ result'[made] = Answer(h)
      /\ \A j \in Call \ {made} : result'[j] = result[j]
  BY <1>4, <1>5, <1>6 DEF IInv, TypeOK
<1>8. /\ made \notin Replies /\ Replies' = Replies \cup {made}
      /\ \A j \in Replies : result'[j] = result[j] /\ j < made /\ result[j].of < h.id
  <2>1. made \notin Replies /\ Replies' = Replies \cup {made}
    BY <1>4, <1>6, <1>7 DEF Replies
  <2>2. \A j \in Replies : result'[j] = result[j]
    BY <2>1, <1>7 DEF Replies
  <2>3. \A j \in Replies : ~(j > made)
    BY DEF IInv, Fresh, Replies
  <2>4. \A j \in Replies : j < made
    BY <2>1, <2>3, <1>4, <1>c DEF Numbers
  <2>5. \A j \in Replies : result[j].of < h.id
    BY <1>1, <1>3 DEF IInv, InOrder
  <2> QED
    BY <2>1, <2>2, <2>4, <2>5
<1>9. Late(h.id) /\ h.id <= made
  <2>1. Late(h.id)
    BY <1>1, <1>3 DEF IInv, Displaced
  <2>2. h.id < made + 1
    BY <1>1, <1>3 DEF IInv, InOrder, Past
  <2> QED
    BY <2>1, <2>2, <1>3, <1>4
<1>10. h.id = made \/ \E j \in 1..h.id : j # made /\ j \in Call /\ result[j].got = "IO_TIMEOUT"
  BY <1>9, <1>3, <1>4, MaxOpsAssumption DEF Late, Call
<1>11. TypeOK'
  BY <1>0, <1>1, <1>7 DEF IInv, TypeOK, BoxState
<1>12. \A d : Past(d) => Past(d)' /\ h.id < d
  <2>1. ASSUME NEW d, Past(d) PROVE Past(d)' /\ h.id < d
    <3>1. h.id < d
      BY <2>1, <1>1, <1>3 DEF Past
    <3>2. \A i \in Replies' : result'[i].of < d
      BY <2>1, <3>1, <1>6, <1>7, <1>8 DEF Past
    <3>3. \A n \in DOMAIN down' : down'[n].type = "Reply" => down'[n].id < d
      BY <2>1, <1>1 DEF Past
    <3> QED
      BY <2>1, <3>1, <3>2, <3>3, <1>0 DEF Past
  <2> QED
    BY <2>1
<1>13. \A n \in DOMAIN down' : down'[n].type = "Reply" => h.id < down'[n].id /\ down'[n].id < made + 1
  BY <1>1, <1>3 DEF IInv, InOrder, Past
<1>14. InOrder'
  <2>1. Past(made + 1)'
    BY <1>12, <1>0 DEF IInv, InOrder
  <2>2. current' # None => current'.id <= made' /\ Past(current.id)'
    BY <1>12, <1>0 DEF IInv, InOrder
  <2>3. \A n \in DOMAIN up' : up'[n].type = "Call" =>
                /\ up'[n].id <= made' /\ Past(up[n].id)'
                /\ current' # None => current'.id < up'[n].id
                /\ \A m \in DOMAIN up' : m < n /\ up'[m].type = "Call" => up'[m].id < up'[n].id
    BY <1>12, <1>0 DEF IInv, InOrder
  <2>4. ASSUME NEW n \in DOMAIN down', down'[n].type = "Reply"
        PROVE  /\ \A m \in DOMAIN down' : m < n /\ down'[m].type = "Reply" => down'[m].id < down'[n].id
               /\ \A i \in Replies' : result'[i].of < down'[n].id
    <3>1. n + 1 \in DOMAIN down /\ down'[n] = down[n + 1] /\ n \in Nat
      BY <1>1
    <3>2. \A m \in DOMAIN down' : m < n => m + 1 < n + 1 /\ m + 1 \in DOMAIN down /\ down'[m] = down[m + 1]
      BY <1>1, <3>1
    <3>3. \A i \in Replies : result'[i].of < down'[n].id
      BY <2>4, <3>1, <1>8 DEF IInv, InOrder
    <3>4. result'[made].of < down'[n].id
      BY <2>4, <1>6, <1>7, <1>13
    <3> QED
      BY <2>4, <3>1, <3>2, <3>3, <3>4, <1>8 DEF IInv, InOrder
  <2> QED
    BY <2>1, <2>2, <2>3, <2>4 DEF InOrder
<1>15. Displaced'
  <2>1. ASSUME NEW d \in Call, h.id < d, d < made + 1 PROVE Late(d)'
    <3>1. PICK j \in 1..h.id : j # made /\ j \in Call /\ result[j].got = "IO_TIMEOUT"
      BY <2>1, <1>3, <1>4, <1>10, CallIsNat
    <3>2. result'[j] = result[j]
      BY <3>1, <1>7
    <3>3. j \in 1..d
      <4>1. j \in Nat /\ d \in Nat /\ 1 <= j
        BY <3>1, <2>1, <1>3, CallIsNat
      <4>2. j <= h.id
        BY <3>1, <1>3
      <4> QED
        BY <4>1, <4>2, <2>1, <1>3
    <3> QED
      BY <3>1, <3>2, <3>3 DEF Late
  <2>2. current # None => current.id \in Call /\ h.id < current.id /\ current.id < made + 1
    BY <1>12, <1>c, <1>4 DEF IInv, InOrder, Numbers
  <2>3. \A n \in DOMAIN up : up[n].type = "Call" =>
          up[n].id \in Call /\ h.id < up[n].id /\ up[n].id < made + 1
    BY <1>12, <1>c, <1>4 DEF IInv, InOrder, Numbers
  <2>4. \A n \in DOMAIN down' : down'[n].type = "Reply" => down'[n].id \in Call
    BY <1>1, <1>c DEF Numbers
  <2>5. \A n \in DOMAIN down' : down'[n].type = "Torn" => \E j \in Call : result'[j].got = "IO_TIMEOUT"
    <3>1. SUFFICES ASSUME NEW n \in DOMAIN down', down'[n].type = "Torn"
                   PROVE  \E j \in Call : result'[j].got = "IO_TIMEOUT"
      OBVIOUS
    <3>2. PICK j \in Call : result[j].got = "IO_TIMEOUT"
      BY <3>1, <1>1 DEF IInv, Displaced
    <3> QED
      BY <3>2, <1>4, <1>7
  <2> QED
    BY <2>1, <2>2, <2>3, <2>4, <2>5, <1>13, <1>0 DEF Displaced
<1>16. Fresh'
  BY <1>0, <1>4, <1>7, CallIsNat DEF IInv, Fresh
<1>17. Truthful'
  BY <1>0, <1>1, SameSuccesses DEF IInv, Truthful
<1>18. EffectsInOrder'
  <2>1. h.ok => h.id \in Applied \ late
    BY <1>1, <1>3 DEF IInv, Truthful
  <2> QED
    BY <2>1, <1>0, <1>6, <1>7, <1>8, SameSuccesses DEF IInv, EffectsInOrder
<1>19. RepliesInOrder'
  <2>1. \A d : (\E j \in 1..d : j \in Call /\ result[j].got = "IO_TIMEOUT")
                 => \E j \in 1..d : result'[j].got = "IO_TIMEOUT"
    BY <1>4, <1>7
  <2>2. result'[made].of = made \/
          (result'[made].of < made /\ \E j \in 1..result'[made].of : result'[j].got = "IO_TIMEOUT")
    BY <2>1, <1>3, <1>4, <1>6, <1>7, <1>9, <1>10
  <2>3. ASSUME NEW i \in Replies
        PROVE  \/ result'[i].of = i
               \/ result'[i].of < i /\ \E j \in 1..result'[i].of : result'[j].got = "IO_TIMEOUT"
    <3>1. \A j \in 1..result[i].of : j \in Call
      BY MaxOpsAssumption DEF IInv, TypeOK, Replies, Result, Call
    <3> QED
      BY <2>1, <2>3, <3>1, <1>8 DEF IInv, RepliesInOrder
  <2>4. \A i, j \in Replies : i < j => result'[i].of < result'[j].of
    BY <1>8 DEF IInv, RepliesInOrder
  <2>5. \A j \in Replies : result'[j].of < result'[made].of /\ ~(made < j)
    BY <1>4, <1>6, <1>7, <1>8, <1>c DEF Numbers
  <2>6. ~(made < made)
    BY <1>4
  <2> QED
    BY <2>2, <2>3, <2>4, <2>5, <2>6, <1>8 DEF RepliesInOrder
<1>20. Dispatching' /\ Resolved'
  BY <1>0, SameSlots DEF IInv, Dispatching
<1>21. Phases'
  BY <1>0, <1>1 DEF IInv, Phases
<1>22. Metered' /\ MetricsAreFinal'
  BY <1>0, <1>1, <1>2, SameSuccesses DEF IInv, Metered, MetricsAreFinal
<1> QED
  BY <1>11, <1>14, <1>15, <1>16, <1>17, <1>18, <1>19, <1>20, <1>21, <1>22 DEF IInv

LEMMA FiniteSuccesses ==
  ASSUME IInv
  PROVE  IsFiniteSet(Succeeded) /\ Cardinality(Succeeded) \in Nat
<1>1. IsFiniteSet(Call)
  BY FS_Interval, MaxOpsAssumption DEF Call
<1>2. Succeeded \subseteq Call
  BY NumbersAre DEF Succeeded, Applied, Numbers
<1> QED
  BY <1>1, <1>2, FS_Subset, FS_CardinalityType

\* Every success the script saw is an effect of its own.
LEMMA SuccessesAreEffects ==
  ASSUME IInv
  PROVE  Cardinality({i \in Replies : result[i].ok}) <= Cardinality(Succeeded)
<1> DEFINE S == {i \in Replies : result[i].ok}
           effectOf == [i \in S |-> result[i].of]
<1>1. effectOf \in [S -> Succeeded]
  BY DEF IInv, EffectsInOrder, Succeeded
<1>2. \A i, j \in S : effectOf[i] = effectOf[j] => i = j
  <2>1. SUFFICES ASSUME NEW i \in S, NEW j \in S, effectOf[i] = effectOf[j], i # j PROVE FALSE
    OBVIOUS
  <2>2. result[i].of = result[j].of /\ i \in Replies /\ j \in Replies
    BY <2>1
  <2>3. i \in Nat /\ j \in Nat /\ result[i].of \in Nat
    BY <2>2, NumbersAre DEF Numbers
  <2>4. i < j \/ j < i
    BY <2>1, <2>3
  <2>5. result[i].of < result[j].of \/ result[j].of < result[i].of
    BY <2>2, <2>4 DEF IInv, RepliesInOrder
  <2> QED
    BY <2>2, <2>3, <2>5
<1> HIDE DEF S, effectOf
<1>3. effectOf \in Injection(S, Succeeded)
  BY <1>1, <1>2 DEF Injection, IsInjective
<1>4. Cardinality(S) <= Cardinality(Succeeded)
  BY <1>3, FiniteSuccesses, FS_Injection
<1> QED
  BY <1>4 DEF S

LEMMA DrainReturnsStep == ASSUME IInv, DrainReturns PROVE IInv'
<1> USE DEF daemonVars
<1> DEFINE h == Head(down)
<1>c. Numbers
  BY NumbersAre
<1>0. /\ box = "draining" /\ box' = "ended" /\ down # <<>> /\ down' = Tail(down)
      /\ UNCHANGED <<init, expired, made, result, up, daemonVars>>
      /\ drained' = IF h.type = "Metrics" THEN h.count ELSE None
  BY DEF DrainReturns, Whole
<1>1. /\ down' \in Seq(Response)
      /\ h = down[1] /\ h \in Response /\ 1 \in DOMAIN down
      /\ \A n \in DOMAIN down' : /\ n \in Nat /\ 1 < n + 1
                                 /\ n + 1 \in DOMAIN down /\ down'[n] = down[n + 1]
  BY <1>0, Read
<1> HIDE DEF h
<1>2. drained' # None => h.type = "Metrics" /\ h.count = metrics /\ drained' = metrics /\ Settled
  BY <1>0, <1>1 DEF IInv, Metered
<1>3. TypeOK'
  <2>1. drained' \in 0..MaxOps \cup {None}
    BY <1>2 DEF IInv, TypeOK
  <2> QED
    BY <2>1, <1>0, <1>1 DEF IInv, TypeOK, BoxState
<1>4. InOrder'
  <2>1. \A d : Past(d) => Past(d)'
    BY <1>0, <1>1 DEF Past, Replies
  <2>2. ASSUME NEW n \in DOMAIN down', down'[n].type = "Reply"
        PROVE  /\ \A m \in DOMAIN down' : m < n /\ down'[m].type = "Reply" => down'[m].id < down'[n].id
               /\ \A i \in Replies' : result'[i].of < down'[n].id
    <3>1. n + 1 \in DOMAIN down /\ down'[n] = down[n + 1] /\ n \in Nat
      BY <1>1
    <3>2. \A m \in DOMAIN down' : m < n => m + 1 < n + 1 /\ m + 1 \in DOMAIN down /\ down'[m] = down[m + 1]
      BY <1>1, <3>1
    <3>3. Replies' = Replies /\ result' = result
      BY <1>0 DEF Replies
    <3> QED
      BY <2>2, <3>1, <3>2, <3>3 DEF IInv, InOrder
  <2> QED
    BY <2>1, <2>2, <1>0 DEF IInv, InOrder
<1>5. Displaced' /\ Fresh'
  BY <1>0, <1>1 DEF IInv, Displaced, Late, Fresh
<1>6. Truthful' /\ EffectsInOrder' /\ RepliesInOrder'
  BY <1>0, <1>1, SameSuccesses DEF IInv, Truthful, EffectsInOrder, RepliesInOrder, Replies
<1>7. Dispatching' /\ Resolved'
  BY <1>0, SameSlots DEF IInv, Dispatching
<1>8. Phases'
  BY <1>0, <1>1 DEF IInv, Phases
<1>9. Metered'
  BY <1>0, <1>1, <1>2, SameSuccesses DEF IInv, Metered, Settled
<1>10. MetricsAreFinal'
  <2>1. Settled => /\ current' = None /\ DOMAIN up' = {}
                   /\ Cardinality(Succeeded) <= metrics
    BY <1>0, EmptyStream DEF Settled
  <2>2. Settled => Cardinality({i \in Replies : result[i].ok}) <= metrics
    <3>1. /\ Cardinality({i \in Replies : result[i].ok}) <= Cardinality(Succeeded)
          /\ Cardinality(Succeeded) \in Nat /\ metrics \in Nat
      BY SuccessesAreEffects, FiniteSuccesses, <1>c DEF Numbers
    <3>2. Cardinality({i \in Replies : result[i].ok}) \in Nat
      <4>1. IsFiniteSet(Call)
        BY FS_Interval, MaxOpsAssumption DEF Call
      <4> QED
        BY <4>1, FS_Subset, FS_CardinalityType DEF Replies
    <3> QED
      BY <2>1, <3>1, <3>2
  <2>3. {i \in Replies' : result'[i].ok} = {i \in Replies : result[i].ok}
    BY <1>0 DEF Replies
  <2> QED
    BY <2>1, <2>2, <2>3, <1>0, <1>2 DEF MetricsAreFinal
<1> QED
  BY <1>3, <1>4, <1>5, <1>6, <1>7, <1>8, <1>9, <1>10 DEF IInv

-----------------------------------------------------------------------------
(* The daemon reads *)

\* The stream to the daemon after the first frame has been taken from it.
LEMMA Served ==
  ASSUME IInv, up # <<>>, up' = Tail(up)
  PROVE  /\ up' \in Seq(Request)
         /\ Head(up) = up[1] /\ Head(up) \in Request /\ 1 \in DOMAIN up
         /\ Len(up') = Len(up) - 1 /\ Len(up) \in Nat
         /\ \A n \in DOMAIN up' : /\ n \in Nat /\ 1 < n + 1
                                  /\ n + 1 \in DOMAIN up /\ up'[n] = up[n + 1]
BY Taken DEF IInv, TypeOK

\* A nonempty set of positions has a first one.
LEMMA NatMin == ASSUME NEW S \in SUBSET Nat, S # {} PROVE \E i \in S : \A j \in S : i <= j
<1>1. PICK i \in S : \A j \in S : ~(<<j, i>> \in OpToRel(<, Nat))
  BY NatLessThanWellFounded, WFMin, Zenon
<1>2. \A j \in S : ~(j < i)
  BY <1>1 DEF OpToRel
<1> QED
  BY <1>2

\* resolve looks at the kinds in order; the first that fails has a code of its own.
LEMMA FirstUnresolvedCode ==
  ASSUME NEW in, Unresolved(in) # {}
  PROVE  FirstUnresolved(in) \in {"RESOURCE_NOT_FOUND", "RESOURCE_KIND_MISMATCH"}
<1> DEFINE U == Unresolved(in)
<1>1. U \subseteq Nat
  BY KindAssumption, LenProperties DEF Unresolved
<1>2. PICK i \in U : \A j \in U : i <= j
  BY <1>1, NatMin
<1> HIDE DEF U
<1> DEFINE first == CHOOSE m \in U : \A j \in U : m <= j
<1>4. first \in U
  BY <1>2
<1> HIDE DEF first
<1>5. Pick(in, Kind[first]) \notin {"none", "resolved"}
  BY <1>4 DEF U, Unresolved
<1>6. FirstUnresolved(in) = Pick(in, Kind[first])
  BY DEF FirstUnresolved, first, U
<1> QED
  BY <1>5, <1>6 DEF Pick

\* A frame of the daemon that is not a reply, or none at all.
LEMMA NotReply ==
  ASSUME IInv, NEW f \in Response, f.type # "Reply", ToBox(f)
  PROVE  /\ down' \in Seq(Response)
         /\ \A n \in DOMAIN down' : \/ n \in DOMAIN down /\ down'[n] = down[n]
                                    \/ down'[n] = f /\ ~BoxGone /\ n = Len(down) + 1
         /\ Len(down) \in Nat /\ Len(down') <= Len(down) + 1
<1>1. down \in Seq(Response) /\ Len(down) \in Nat
  BY LenProperties DEF IInv, TypeOK
<1>2. CASE BoxGone
  BY <1>1, <1>2 DEF ToBox
<1>3. CASE ~BoxGone
  <2>1. down' = Append(down, f)
    BY <1>3 DEF ToBox
  <2> QED
    BY <1>1, <1>3, <2>1, Written
<1> QED
  BY <1>2, <1>3

\* Order and lateness when requests leave the stream from its front and other
\* responses than replies are added.
LEMMA FewerRequests ==
  ASSUME IInv, UNCHANGED <<boxVars, current, metrics, performed, late>>,
         NEW shift \in {0, 1},
         \A n \in DOMAIN up' : up'[n].type = "Call" =>
           n \in Nat /\ n + shift \in DOMAIN up /\ up'[n] = up[n + shift],
         \A n \in DOMAIN down' : down'[n].type \in {"Reply", "Torn"} =>
           n \in DOMAIN down /\ down'[n] = down[n],
         serve' # "ended" => serve # "ended"
  PROVE  /\ InOrder' /\ Displaced' /\ Fresh'
         /\ Truthful' /\ EffectsInOrder' /\ RepliesInOrder'
<1> USE DEF boxVars
<1>1. InOrder'
  <2>1. \A d : Past(d) => Past(d)'
    BY DEF Past, Replies
  <2>2. Past(made + 1)' /\ (current' # None => current'.id <= made' /\ Past(current.id)')
    BY <2>1 DEF IInv, InOrder
  <2>3. ASSUME NEW n \in DOMAIN up', up'[n].type = "Call"
        PROVE  /\ up'[n].id <= made' /\ Past(up[n].id)'
               /\ current' # None => current'.id < up'[n].id
               /\ \A m \in DOMAIN up' : m < n /\ up'[m].type = "Call" => up'[m].id < up'[n].id
    <3>1. n \in Nat /\ n + shift \in DOMAIN up /\ up'[n] = up[n + shift]
      BY <2>3
    <3>2. up'[n].id <= made' /\ Past(up[n].id)' /\ (current' # None => current'.id < up'[n].id)
      BY <2>1, <2>3, <3>1 DEF IInv, InOrder
    <3>3. ASSUME NEW m \in DOMAIN up', m < n, up'[m].type = "Call" PROVE up'[m].id < up'[n].id
      <4>1. m + shift \in DOMAIN up /\ up'[m] = up[m + shift] /\ m + shift < n + shift
        BY <3>1, <3>3
      <4> QED
        BY <2>3, <3>1, <3>3, <4>1 DEF IInv, InOrder
    <3> QED
      BY <3>2, <3>3
  <2>4. \A n \in DOMAIN down' : down'[n].type = "Reply" =>
          /\ \A m \in DOMAIN down' : m < n /\ down'[m].type = "Reply" => down'[m].id < down'[n].id
          /\ \A i \in Replies' : result'[i].of < down'[n].id
    BY DEF IInv, InOrder, Replies
  <2> QED
    BY <2>2, <2>3, <2>4 DEF InOrder
<1>2. Displaced'
  <2>1. \A d : Late(d) => Late(d)'
    BY DEF Late
  <2> QED
    BY <2>1 DEF IInv, Displaced
<1>3. Fresh' /\ Truthful' /\ EffectsInOrder' /\ RepliesInOrder'
  BY SameSuccesses DEF IInv, Fresh, Truthful, EffectsInOrder, RepliesInOrder, Replies
<1> QED
  BY <1>1, <1>2, <1>3

\* The answer to Init.
LEMMA ServeInitStep == ASSUME IInv, ServeInit PROVE IInv'
<1> USE DEF boxVars
<1>0. /\ serve = "accepted" /\ up # <<>> /\ up' = Tail(up)
      /\ UNCHANGED <<boxVars, current, metrics, performed, late>>
      /\ serve' \in {"ready", "ended"}
  BY DEF ServeInit, Respond
<1>1. /\ up' \in Seq(Request)
      /\ Len(up') = Len(up) - 1 /\ Len(up) \in Nat /\ 1 \in DOMAIN up
      /\ \A n \in DOMAIN up' : /\ n \in Nat /\ 1 < n + 1
                               /\ n + 1 \in DOMAIN up /\ up'[n] = up[n + 1]
  BY <1>0, Served
<1>2. PICK f \in Response : ToBox(f) /\ f.type \in {"Ack", "InitError"}
  <2>1. CASE init.token \notin Accepted \/ Unresolved(init) # {}
    <3> DEFINE code == IF init.token \notin Accepted THEN "UNAUTHENTICATED" ELSE FirstUnresolved(init)
               f == [type |-> "InitError", code |-> code]
    <3>1. code \in {"UNAUTHENTICATED", "RESOURCE_NOT_FOUND", "RESOURCE_KIND_MISMATCH"}
      BY <2>1, FirstUnresolvedCode
    <3>2. f \in Response /\ f.type = "InitError"
      BY <3>1 DEF Response
    <3>3. ToBox(f)
      BY <2>1 DEF ServeInit
    <3> QED
      BY <3>2, <3>3
  <2>2. CASE ~(init.token \notin Accepted \/ Unresolved(init) # {})
    BY <2>2, MakeResponse DEF ServeInit, Respond
  <2> QED
    BY <2>1, <2>2
<1>3. /\ down' \in Seq(Response)
      /\ \A n \in DOMAIN down' : \/ n \in DOMAIN down /\ down'[n] = down[n]
                                 \/ down'[n] = f /\ ~BoxGone
      /\ Len(down) \in Nat /\ Len(down') <= Len(down) + 1
  BY <1>2, NotReply
<1>4. slot' \in [Kinds -> SlotState] /\ Resolved'
  <2>1. CASE init.token \notin Accepted \/ Unresolved(init) # {}
    <3>1. slot' = slot
      BY <2>1 DEF ServeInit
    <3> QED
      BY <3>1, <1>0, SameSlots DEF IInv, TypeOK
  <2>2. CASE ~(init.token \notin Accepted \/ Unresolved(init) # {})
    <3>1. slot' = Slots(init)
      BY <2>2 DEF ServeInit
    <3> QED
      BY <3>1, <2>2, <1>0 DEF Slots, Resolved, SlotState, Pick
  <2> QED
    BY <2>1, <2>2
<1>5. box \in {"handshake", "failed"} /\ drained = None
  <2>1. box \in BoxState
    BY DEF IInv, TypeOK
  <2>2. box \in {"handshake", "failed"}
    BY <2>1, <1>0 DEF IInv, Phases, BoxState
  <2> QED
    BY <2>2 DEF IInv, Metered
<1>6. TypeOK'
  BY <1>0, <1>1, <1>3, <1>4 DEF IInv, TypeOK, ServeState
<1>7. InOrder' /\ Displaced' /\ Fresh' /\ Truthful' /\ EffectsInOrder' /\ RepliesInOrder'
  <2>1. 1 \in {0, 1}
    OBVIOUS
  <2> QED
    BY <2>1, <1>0, <1>1, <1>2, <1>3, FewerRequests
<1>8. Dispatching'
  BY <1>0 DEF IInv, Dispatching
<1>9. Phases'
  <2>1. \A n \in DOMAIN up' : up'[n].type = "Drain" => n = Len(up') /\ box \in {"draining", "ended"}
    BY <1>1 DEF IInv, Phases
  <2>2. box = "handshake" => Len(up') + Len(down') <= 1 /\ up' = <<>>
    <3>1. box = "handshake" => Len(up) + Len(down) <= 1
      BY DEF IInv, Phases
    <3>2. Len(up) >= 1
      BY <1>1, LenProperties DEF IInv, TypeOK
    <3>3. box = "handshake" => Len(up') + Len(down') <= 1 /\ Len(up') = 0
      BY <3>1, <3>2, <1>1, <1>3, LenProperties
    <3> QED
      BY <3>3, <1>1, EmptySeq
  <2> QED
    BY <2>1, <2>2, <1>0, <1>5 DEF Phases
<1>10. Metered' /\ MetricsAreFinal'
  BY <1>0, <1>1, <1>2, <1>3, <1>5, SameSuccesses DEF IInv, Metered, Settled, MetricsAreFinal
<1> QED
  BY <1>4, <1>6, <1>7, <1>8, <1>9, <1>10 DEF IInv

\* The oldest call in the stream is the next to be dispatched.
LEMMA ServeCallStep == ASSUME IInv, ServeCall PROVE IInv'
<1> USE DEF boxVars
<1>c. Numbers
  BY NumbersAre
<1> DEFINE h == Head(up)
<1>0. /\ serve = "ready" /\ serve' = "dispatching" /\ up # <<>> /\ up' = Tail(up)
      /\ h.type = "Call" /\ current' = h
      /\ UNCHANGED <<boxVars, down, slot, metrics, performed, late>>
  BY DEF ServeCall
<1>1. /\ up' \in Seq(Request)
      /\ h = up[1] /\ h \in Request /\ 1 \in DOMAIN up
      /\ Len(up') = Len(up) - 1 /\ Len(up) \in Nat
      /\ \A n \in DOMAIN up' : /\ n \in Nat /\ 1 < n + 1
                               /\ n + 1 \in DOMAIN up /\ up'[n] = up[n + 1]
  BY <1>0, Served
<1>2. h # None /\ h.id \in Call /\ h.id \in Nat
  BY <1>0, <1>1, RequestFrames, CallIsNat
<1> HIDE DEF h
<1>3. /\ h.id <= made /\ Past(h.id) /\ Late(h.id)
      /\ \A n \in DOMAIN up : 1 < n /\ up[n].type = "Call" => h.id < up[n].id
  BY <1>0, <1>1 DEF IInv, InOrder, Displaced
<1>4. current = None /\ drained = None /\ \A n \in DOMAIN down : down[n].type # "Metrics"
  BY <1>0 DEF IInv, Dispatching, Metered, Settled
<1>5. TypeOK'
  BY <1>0, <1>1 DEF IInv, TypeOK, ServeState
<1>6. InOrder'
  <2>1. \A d : Past(d) => Past(d)'
    BY <1>0 DEF Past, Replies
  <2>2. Past(made + 1)'
    BY <2>1, <1>0 DEF IInv, InOrder
  <2>3. current'.id <= made' /\ Past(current.id)'
    BY <2>1, <1>0, <1>3
  <2>4. ASSUME NEW n \in DOMAIN up', up'[n].type = "Call"
        PROVE  /\ up'[n].id <= made' /\ Past(up[n].id)'
               /\ current'.id < up'[n].id
               /\ \A m \in DOMAIN up' : m < n /\ up'[m].type = "Call" => up'[m].id < up'[n].id
    <3>1. n \in Nat /\ n + 1 \in DOMAIN up /\ up'[n] = up[n + 1] /\ 1 < n + 1
      BY <1>1
    <3>2. up'[n].id <= made' /\ Past(up[n].id)' /\ current'.id < up'[n].id
      BY <2>1, <2>4, <3>1, <1>0, <1>3 DEF IInv, InOrder
    <3>3. ASSUME NEW m \in DOMAIN up', m < n, up'[m].type = "Call" PROVE up'[m].id < up'[n].id
      <4>1. m + 1 \in DOMAIN up /\ up'[m] = up[m + 1] /\ m + 1 < n + 1
        BY <3>1, <3>3, <1>1
      <4> QED
        BY <2>4, <3>1, <3>3, <4>1 DEF IInv, InOrder
    <3> QED
      BY <3>2, <3>3
  <2>5. \A n \in DOMAIN down' : down'[n].type = "Reply" =>
          /\ \A m \in DOMAIN down' : m < n /\ down'[m].type = "Reply" => down'[m].id < down'[n].id
          /\ \A i \in Replies' : result'[i].of < down'[n].id
    BY <1>0 DEF IInv, InOrder, Replies
  <2> QED
    BY <2>2, <2>3, <2>4, <2>5 DEF InOrder
<1>7. Displaced' /\ Fresh'
  <2>1. \A d : Late(d) => Late(d)'
    BY <1>0 DEF Late
  <2> QED
    BY <2>1, <1>0, <1>1, <1>3 DEF IInv, Displaced, Fresh
<1>8. Truthful' /\ EffectsInOrder' /\ RepliesInOrder'
  BY <1>0, SameEffects DEF IInv
<1>9. Dispatching' /\ Resolved'
  BY <1>0, <1>2, SameSlots DEF IInv, Dispatching
<1>10. Phases'
  <2>1. \A n \in DOMAIN up' : up'[n].type = "Drain" => n = Len(up') /\ box \in {"draining", "ended"}
    BY <1>1 DEF IInv, Phases
  <2>2. box \notin {"start", "handshake"}
    BY <1>0, <1>2, <1>3, CallIsNat, <1>c DEF IInv, Fresh, Numbers
  <2> QED
    BY <2>1, <2>2, <1>0 DEF IInv, Phases
<1>11. Metered' /\ MetricsAreFinal'
  BY <1>0, <1>4, SameSuccesses DEF IInv, Metered, MetricsAreFinal
<1> QED
  BY <1>5, <1>6, <1>7, <1>8, <1>9, <1>10, <1>11 DEF IInv

\* The Drain is the last request: when it is served nothing is left to do.
LEMMA ServeDrainStep == ASSUME IInv, ServeDrain PROVE IInv'
<1> USE DEF boxVars
<1>0. /\ serve = "ready" /\ serve' \in {"ready", "ended"} /\ up # <<>> /\ up' = Tail(up)
      /\ Head(up).type = "Drain" /\ ToBox(Metrics(metrics))
      /\ UNCHANGED <<boxVars, current, slot, metrics, performed, late>>
  BY DEF ServeDrain, Respond
<1>1. up' \in Seq(Request) /\ Head(up) = up[1] /\ 1 \in DOMAIN up /\ Len(up') = Len(up) - 1
  BY <1>0, Served
<1>2. Len(up) = 1 /\ box \in {"draining", "ended"}
  BY <1>0, <1>1 DEF IInv, Phases
<1>3. up' = <<>> /\ DOMAIN up' = {}
  BY <1>1, <1>2, EmptySeq, EmptyStream
<1> DEFINE f == Metrics(metrics)
<1>4. f \in Response /\ f.type = "Metrics" /\ f.count = metrics
  BY MakeResponse DEF IInv, TypeOK
<1>5. /\ down' \in Seq(Response)
      /\ \A n \in DOMAIN down' : \/ n \in DOMAIN down /\ down'[n] = down[n]
                                 \/ down'[n] = f /\ ~BoxGone /\ n = Len(down) + 1
  BY <1>0, <1>4, NotReply
<1> HIDE DEF f
<1>6. current = None /\ Cardinality(Succeeded) <= metrics
  BY <1>0 DEF IInv, Dispatching, Metered
<1>7. TypeOK'
  BY <1>0, <1>1, <1>5 DEF IInv, TypeOK, ServeState
<1>8. InOrder' /\ Displaced' /\ Fresh' /\ Truthful' /\ EffectsInOrder' /\ RepliesInOrder'
  <2>1. \A n \in DOMAIN down' : down'[n].type \in {"Reply", "Torn"} =>
          n \in DOMAIN down /\ down'[n] = down[n]
    BY <1>4, <1>5
  <2>2. 1 \in {0, 1}
    OBVIOUS
  <2> QED
    BY <2>1, <2>2, <1>0, <1>3, FewerRequests
<1>9. Dispatching' /\ Resolved'
  BY <1>0, <1>6, SameSlots DEF IInv, Dispatching
<1>10. Phases'
  BY <1>0, <1>2, <1>3, <1>4, <1>5 DEF IInv, Phases
<1>11. Metered'
  <2>1. Settled'
    BY <1>0, <1>2, <1>3, <1>6, SameSuccesses DEF Settled
  <2> QED
    BY <2>1, <1>0, <1>4, <1>5, SameSuccesses DEF IInv, Metered
<1>12. MetricsAreFinal'
  BY <1>0, <1>3 DEF IInv, MetricsAreFinal, Replies
<1> QED
  BY <1>7, <1>8, <1>9, <1>10, <1>11, <1>12 DEF IInv

\* What follows a torn frame is never served.
LEMMA ServeTornStep == ASSUME IInv, ServeTorn PROVE IInv'
<1> USE DEF boxVars
<1>0. /\ serve = "ready" /\ serve' \in {"ready", "ended"} /\ up # <<>> /\ Head(up) = Torn
      /\ up' \in {<<>>, <<Torn>>}
      /\ UNCHANGED <<boxVars, down, current, slot, metrics, performed, late>>
  BY DEF ServeTorn
<1>1. up' \in Seq(Request) /\ \A n \in DOMAIN up' : up'[n] = Torn
  <2>1. CASE up' = <<>>
    BY <2>1, EmptySeq, EmptyStream
  <2>2. CASE up' = <<Torn>>
    <3>1. Torn \in Request
      BY MakeRequest
    <3> QED
      BY <2>2, <3>1
  <2> QED
    BY <2>1, <2>2, <1>0
<1>2. \A n \in DOMAIN up' : up'[n].type = "Torn"
  BY <1>1, MakeRequest
<1>3. drained = None /\ \A n \in DOMAIN down : down[n].type # "Metrics"
  BY <1>0 DEF IInv, Metered, Settled
<1>4. TypeOK'
  BY <1>0, <1>1 DEF IInv, TypeOK, ServeState
<1>5. InOrder' /\ Displaced' /\ Fresh' /\ Truthful' /\ EffectsInOrder' /\ RepliesInOrder'
  <2>1. 1 \in {0, 1}
    OBVIOUS
  <2> QED
    BY <2>1, <1>0, <1>2, FewerRequests
<1>6. Dispatching' /\ Resolved'
  BY <1>0, SameSlots DEF IInv, Dispatching
<1>7. Phases'
  <2>1. box \notin {"start", "handshake"}
    BY <1>0, MakeRequest DEF IInv, Phases
  <2> QED
    BY <2>1, <1>0, <1>2 DEF IInv, Phases
<1>8. Metered' /\ MetricsAreFinal'
  BY <1>0, <1>3, SameSuccesses DEF IInv, Metered, MetricsAreFinal
<1> QED
  BY <1>4, <1>5, <1>6, <1>7, <1>8 DEF IInv

-----------------------------------------------------------------------------
(* The daemon answers *)

\* A dispatch ends.  Its call is later than everything done so far and earlier than
\* everything that waits, so its effect and its reply go to the end of their sequences.
LEMMA Dispatched ==
  ASSUME IInv, serve = "dispatching", serve' \in {"ready", "ended"}, current' = None,
         UNCHANGED <<boxVars, up>>,
         NEW effect \in BOOLEAN, NEW ok \in BOOLEAN, ok => effect,
         performed' = IF effect THEN Append(performed, current.id) ELSE performed,
         late' \in {late, late \cup {current.id}}, effect => late' = late,
         metrics' \in {metrics, metrics + 1},
         effect => serve' = "ended" \/ metrics' = metrics + 1,
         \/ down' = down
         \/ down' = <<>>
         \/ down' = Append(down, Reply(current.id, ok)),
         slot' \in [Kinds -> SlotState], Resolved'
  PROVE  IInv'
<1> USE DEF boxVars
<1>c. Numbers
  BY NumbersAre
<1> DEFINE c == current.id
<1>1. /\ current # None /\ c \in Call /\ c \in Nat /\ c <= made /\ Past(c) /\ Late(c)
      /\ \A n \in DOMAIN up : up[n].type = "Call" => c < up[n].id
      /\ drained = None /\ \A n \in DOMAIN down : down[n].type # "Metrics"
  <2>1. current # None
    BY DEF IInv, Dispatching
  <2> QED
    BY <2>1, <1>c DEF IInv, InOrder, Displaced, Metered, Settled, Numbers
<1>2. Reply(c, ok) \in Response /\ Reply(c, ok).type = "Reply" /\ Reply(c, ok).id = c /\ Reply(c, ok).ok = ok
  BY <1>1, MakeResponse
<1> HIDE DEF c
<1>3. /\ performed' \in Seq(Call)
      /\ Len(performed) \in Nat /\ Len(performed') <= Len(performed) + 1
      /\ ~effect => performed' = performed
      /\ effect => \E n \in DOMAIN performed' : performed'[n] = c
      /\ \A n \in DOMAIN performed : n \in DOMAIN performed' /\ performed'[n] = performed[n]
      /\ \A n \in DOMAIN performed' : \/ n \in DOMAIN performed /\ performed'[n] = performed[n]
                                      \/ effect /\ n = Len(performed) + 1 /\ performed'[n] = c
      /\ \A n \in DOMAIN performed : n \in Nat /\ n <= Len(performed)
  <2>1. performed \in Seq(Call) /\ Len(performed) \in Nat
    BY LenProperties DEF IInv, TypeOK
  <2>2. \A n \in DOMAIN performed : n \in Nat /\ n <= Len(performed)
    BY <2>1, InStream
  <2>3. CASE effect
    <3>1. performed' = Append(performed, c)
      BY <2>3 DEF c
    <3> QED
      BY <2>1, <2>2, <2>3, <3>1, <1>1, Written
  <2>4. CASE ~effect
    BY <2>1, <2>2, <2>4
  <2> QED
    BY <2>3, <2>4
<1>l. /\ late' \in SUBSET Call /\ late \subseteq late'
      /\ effect => late' = late
      /\ \A i \in late' : i \in late \/ i = c
      /\ c \notin late /\ c \notin Applied
  <2>1. \A i \in late : i < c /\ i \in Nat
    BY <1>1, <1>c DEF Past, Numbers
  <2>2. \A n \in DOMAIN performed : performed[n] < c /\ performed[n] \in Nat
    BY <1>1, <1>c DEF Past, Numbers
  <2>3. c \notin late /\ c \notin Applied
    BY <2>1, <2>2, <1>1 DEF Applied
  <2>4. late' = late \/ late' = late \cup {c}
    BY DEF c
  <2> QED
    BY <2>3, <2>4, <1>1 DEF IInv, TypeOK
<1>a. /\ Applied \subseteq Applied'
      /\ effect => Applied' = Applied \cup {c}
      /\ ~effect => Applied' = Applied
  BY <1>3 DEF Applied
<1>4. /\ down' \in Seq(Response)
      /\ \A n \in DOMAIN down' :
           \/ n \in DOMAIN down /\ down'[n] = down[n]
           \/ /\ down'[n] = Reply(c, ok) /\ n = Len(down) + 1
              /\ \A m \in DOMAIN down' : m < n => m \in DOMAIN down /\ down'[m] = down[m]
      /\ \A n \in DOMAIN down : n \in Nat /\ n <= Len(down)
      /\ Len(down) \in Nat
  <2>1. down \in Seq(Response) /\ Len(down) \in Nat
    BY LenProperties DEF IInv, TypeOK
  <2>2. \A n \in DOMAIN down : n \in Nat /\ n <= Len(down)
    BY <2>1, InStream
  <2>3. CASE down' = down
    BY <2>1, <2>2, <2>3
  <2>4. CASE down' = <<>>
    BY <2>1, <2>2, <2>4, EmptySeq, EmptyStream
  <2>5. CASE down' = Append(down, Reply(c, ok))
    BY <2>1, <2>2, <2>5, <1>2, Written
  <2> QED
    BY <2>3, <2>4, <2>5 DEF c
<1>5. metrics' \in Nat /\ metrics < c /\ metrics' <= c
  BY <1>1, <1>c DEF Past, Numbers
<1>6. TypeOK'
  <2>1. metrics' \in 0..MaxOps
    BY <1>1, <1>5, CallIsNat, MaxOpsAssumption
  <2> QED
    BY <2>1, <1>3, <1>4, <1>l DEF IInv, TypeOK, ServeState
<1>7. \A d \in Nat : c < d => (Past(d) => Past(d)')
  <2>1. ASSUME NEW d \in Nat, c < d, Past(d) PROVE Past(d)'
    <3>1. metrics' < d
      BY <2>1, <1>1, <1>5
    <3>2. \A m \in DOMAIN performed' : performed'[m] < d
      BY <2>1, <1>3 DEF Past
    <3>3. \A n \in DOMAIN down' : down'[n].type = "Reply" => down'[n].id < d
      BY <2>1, <1>2, <1>4 DEF Past
    <3>4. \A i \in late' : i < d
      BY <2>1, <1>l DEF Past
    <3> QED
      BY <2>1, <3>1, <3>2, <3>3, <3>4 DEF Past, Replies
  <2> QED
    BY <2>1
<1>8. InOrder'
  <2>1. Past(made + 1)'
    BY <1>1, <1>7, <1>c DEF IInv, InOrder, Numbers
  <2>2. ASSUME NEW n \in DOMAIN up', up'[n].type = "Call"
        PROVE  /\ up'[n].id <= made' /\ Past(up[n].id)'
               /\ \A m \in DOMAIN up' : m < n /\ up'[m].type = "Call" => up'[m].id < up'[n].id
    BY <2>2, <1>1, <1>7, <1>c DEF IInv, InOrder, Numbers
  <2>3. ASSUME NEW n \in DOMAIN down', down'[n].type = "Reply"
        PROVE  /\ \A m \in DOMAIN down' : m < n /\ down'[m].type = "Reply" => down'[m].id < down'[n].id
               /\ \A i \in Replies' : result'[i].of < down'[n].id
    <3>1. Replies' = Replies /\ result' = result
      BY DEF Replies
    <3>2. CASE n \in DOMAIN down /\ down'[n] = down[n]
      <4>1. \A m \in DOMAIN down' : m < n => m \in DOMAIN down /\ down'[m] = down[m]
        BY <3>2, <1>4
      <4> QED
        BY <2>3, <3>1, <3>2, <4>1 DEF IInv, InOrder
    <3>3. CASE /\ down'[n] = Reply(c, ok)
               /\ \A m \in DOMAIN down' : m < n => m \in DOMAIN down /\ down'[m] = down[m]
      BY <3>1, <3>3, <1>1, <1>2 DEF Past
    <3> QED
      BY <3>2, <3>3, <1>4
  <2> QED
    BY <2>1, <2>2, <2>3 DEF InOrder
<1>9. Displaced' /\ Fresh'
  <2>1. \A d : Late(d) => Late(d)'
    BY DEF Late
  <2> QED
    BY <2>1, <1>1, <1>2, <1>4 DEF IInv, Displaced, Fresh
<1>10. Truthful'
  <2>1. ASSUME NEW n \in DOMAIN down', down'[n].type = "Reply", down'[n].ok
        PROVE  down'[n].id \in Applied' \ late'
    <3>1. CASE n \in DOMAIN down /\ down'[n] = down[n]
      <4>1. down[n].id \in Applied \ late /\ down[n].id < c /\ down[n].id \in Nat
        BY <2>1, <3>1, <1>1, <1>c DEF IInv, Truthful, Past, Numbers
      <4> QED
        BY <3>1, <4>1, <1>1, <1>a, <1>l
    <3>2. CASE down'[n] = Reply(c, ok)
      <4>1. effect
        BY <2>1, <3>2, <1>2
      <4> QED
        BY <3>2, <4>1, <1>2, <1>a, <1>l
    <3> QED
      BY <3>1, <3>2, <1>4
  <2> QED
    BY <2>1 DEF Truthful
<1>11. RepliesInOrder'
  BY DEF IInv, RepliesInOrder, Replies
<1>12. EffectsInOrder'
  <2>1. ASSUME NEW m \in DOMAIN performed', NEW n \in DOMAIN performed', m < n
        PROVE  /\ performed'[m] # performed'[n]
               /\ performed'[m] < performed'[n] \/ performed'[n] \in late'
    <3>1. m \in DOMAIN performed /\ performed'[m] = performed[m]
      BY <2>1, <1>3
    <3>2. performed[m] < c /\ performed[m] \in Nat
      BY <3>1, <1>1, <1>c DEF Past, Numbers
    <3>3. performed[m] # c
      BY <3>2, <1>1
    <3> QED
      BY <2>1, <3>1, <3>2, <3>3, <1>3, <1>l DEF IInv, EffectsInOrder
  <2>2. ASSUME NEW i \in Replies', result'[i].ok PROVE result'[i].of \in Applied' \ late'
    <3>1. i \in Replies /\ result'[i] = result[i]
      BY <2>2 DEF Replies
    <3>2. result[i].of \in Applied \ late /\ result[i].of < c /\ result[i].of \in Nat
      BY <2>2, <3>1, <1>1, <1>c DEF IInv, EffectsInOrder, Past, Numbers
    <3> QED
      BY <3>1, <3>2, <1>1, <1>a, <1>l
  <2> QED
    BY <2>1, <2>2 DEF EffectsInOrder
<1>13. Dispatching'
  BY DEF Dispatching
<1>14. Phases'
  <2>1. box \notin {"start", "handshake"}
    BY <1>1, <1>c, CallIsNat DEF IInv, Fresh, Numbers
  <2> QED
    BY <2>1, <1>2, <1>4 DEF IInv, Phases
<1>15. Metered' /\ MetricsAreFinal'
  <2>1. serve' # "ended" => Cardinality(Succeeded') <= metrics'
    <3>1. Cardinality(Succeeded) <= metrics /\ IsFiniteSet(Succeeded) /\ Cardinality(Succeeded) \in Nat
      BY FiniteSuccesses DEF IInv, Metered
    <3>2. CASE effect
      <4>1. Succeeded' = Succeeded \cup {c} /\ c \notin Succeeded
        BY <3>2, <1>a, <1>l DEF Succeeded
      <4>2. Cardinality(Succeeded') = Cardinality(Succeeded) + 1
        BY <3>1, <4>1, FS_AddElement
      <4> QED
        BY <3>1, <3>2, <4>2, <1>c DEF Numbers
    <3>3. CASE ~effect
      <4>1. Succeeded' = Succeeded
        BY <3>3, <1>a, <1>l DEF Succeeded
      <4> QED
        BY <3>1, <4>1, <1>c DEF Numbers
    <3> QED
      BY <3>2, <3>3
  <2>2. \A n \in DOMAIN down' : down'[n].type # "Metrics"
    BY <1>1, <1>2, <1>4
  <2> QED
    BY <2>1, <2>2, <1>1 DEF Metered, MetricsAreFinal
<1> QED
  BY <1>6, <1>8, <1>9, <1>10, <1>11, <1>12, <1>13, <1>14, <1>15 DEF IInv

\* A dispatch only ever touches the slot of its kind, and only when it is there.
LEMMA SlotKept ==
  ASSUME IInv, UNCHANGED init, NEW k \in Kinds, NEW s \in SlotState,
         slot[k] = "absent" => s = "absent",
         slot' = [slot EXCEPT ![k] = s]
  PROVE  slot' \in [Kinds -> SlotState] /\ Resolved'
BY DEF IInv, TypeOK, Resolved

LEMMA SlotStayed ==
  ASSUME IInv, UNCHANGED <<init, slot>>
  PROVE  slot' \in [Kinds -> SlotState] /\ Resolved'
BY SameSlots DEF IInv, TypeOK

LEMMA DispatchRefusedStep == ASSUME IInv, DispatchRefused PROVE IInv'
<1> USE DEF boxVars
<1>1. /\ serve = "dispatching" /\ serve' \in {"ready", "ended"} /\ current' = None
      /\ UNCHANGED <<boxVars, up, metrics, performed, late>>
      /\ down' = down \/ down' = Append(down, Reply(current.id, FALSE))
  BY DEF DispatchRefused, Replied, Respond, ToBox
<1>2. slot' \in [Kinds -> SlotState] /\ Resolved'
  <2>1. PICK s \in SlotState :
          /\ CASE SlotOf(current.kind) = "unset" -> s \in {"open", "failed"}
               [] OTHER -> s = SlotOf(current.kind)
          /\ slot' = IF current.kind \in Kinds THEN [slot EXCEPT ![current.kind] = s] ELSE slot
    BY DEF DispatchRefused
  <2>2. CASE current.kind \in Kinds
    <3>1. slot[current.kind] = "absent" => s = "absent"
      BY <2>1, <2>2 DEF SlotOf
    <3> QED
      BY <2>1, <2>2, <3>1, <1>1, SlotKept
  <2>3. CASE current.kind \notin Kinds
    BY <2>1, <2>3, <1>1, SlotStayed
  <2> QED
    BY <2>2, <2>3
<1>3. FALSE \in BOOLEAN /\ metrics' \in {metrics, metrics + 1}
  BY <1>1
<1>4. late' \in {late, late \cup {current.id}}
  BY <1>1
<1> QED
  BY <1>1, <1>2, <1>3, <1>4, Dispatched

\* A backend that runs an operation has a slot.
LEMMA RunningSlot ==
  ASSUME IInv, UNCHANGED init, SlotOf(current.kind) \in {"unset", "open"},
         slot' = [slot EXCEPT ![current.kind] = "open"]
  PROVE  slot' \in [Kinds -> SlotState] /\ Resolved'
<1>1. current.kind \in Kinds /\ slot[current.kind] # "absent"
  BY DEF SlotOf
<1>2. "open" \in SlotState
  BY DEF SlotState
<1> QED
  BY <1>1, <1>2, SlotKept

LEMMA DispatchRunsStep ==
  ASSUME IInv, NEW ok \in BOOLEAN, DispatchRuns(ok)
  PROVE  IInv'
<1> USE DEF boxVars
<1>1. /\ serve = "dispatching" /\ serve' \in {"ready", "ended"} /\ current' = None
      /\ UNCHANGED <<boxVars, up>>
      /\ metrics' = metrics + 1
      /\ performed' = IF ok THEN Append(performed, current.id) ELSE performed
      /\ late' \in {late, late \cup {current.id}} /\ (ok => late' = late)
      /\ down' = down \/ down' = Append(down, Reply(current.id, ok))
  BY DEF DispatchRuns, Running, Replied, Respond, ToBox
<1>2. slot' \in [Kinds -> SlotState] /\ Resolved'
  BY <1>1, RunningSlot DEF DispatchRuns, Running
<1> QED
  BY <1>1, <1>2, Dispatched

LEMMA DispatchTooLargeStep == ASSUME IInv, DispatchTooLarge PROVE IInv'
<1> USE DEF boxVars
<1>1. /\ serve = "dispatching" /\ serve' = "ended" /\ current' = None
      /\ UNCHANGED <<boxVars, up, down, late>>
      /\ metrics' = metrics + 1
      /\ performed' = IF TRUE THEN Append(performed, current.id) ELSE performed
  BY DEF DispatchTooLarge, Running
<1>2. slot' \in [Kinds -> SlotState] /\ Resolved'
  BY <1>1, RunningSlot DEF DispatchTooLarge, Running
<1>3. TRUE \in BOOLEAN /\ FALSE \in BOOLEAN /\ late' \in {late, late \cup {current.id}}
  BY <1>1
<1> QED
  BY <1>1, <1>2, <1>3, Dispatched

\* An operation that was given up takes effect: none of the calls answered with success.
LEMMA LateEffectStep ==
  ASSUME IInv, NEW e \in late, LateEffect(e)
  PROVE  IInv'
<1> USE DEF boxVars
<1>c. Numbers
  BY NumbersAre
<1>0. /\ e \in late /\ e \notin Applied /\ performed' = Append(performed, e) /\ e \in Call
      /\ UNCHANGED <<boxVars, up, down, serve, current, slot, metrics, late>>
  BY <1>c DEF LateEffect, Numbers
<1>1. /\ performed' \in Seq(Call)
      /\ \A n \in DOMAIN performed : n \in DOMAIN performed' /\ performed'[n] = performed[n]
      /\ \A n \in DOMAIN performed' : \/ n \in DOMAIN performed /\ performed'[n] = performed[n]
                                      \/ n = Len(performed) + 1 /\ performed'[n] = e
      /\ \A n \in DOMAIN performed : n \in Nat /\ n <= Len(performed)
      /\ Len(performed) \in Nat
  <2>1. performed \in Seq(Call)
    BY DEF IInv, TypeOK
  <2> QED
    BY <1>0, <2>1, Written
<1>2. Applied' = Applied \cup {e} /\ Succeeded' = Succeeded /\ late' = late
  <2>1. Applied' = Applied \cup {e}
    <3>1. e \in Applied'
      BY <1>0, Written DEF Applied, IInv, TypeOK
    <3> QED
      BY <1>1, <3>1 DEF Applied
  <2> QED
    BY <1>0, <2>1 DEF Succeeded
<1>3. TypeOK'
  BY <1>0, <1>1 DEF IInv, TypeOK
<1>4. InOrder'
  <2>1. \A d : Past(d) => Past(d)'
    BY <1>0, <1>1 DEF Past, Replies
  <2> QED
    BY <2>1, <1>0 DEF IInv, InOrder, Replies
<1>5. Displaced' /\ Fresh' /\ RepliesInOrder'
  BY <1>0 DEF IInv, Displaced, Late, Fresh, RepliesInOrder, Replies
<1>6. Truthful'
  BY <1>0, <1>2 DEF IInv, Truthful
<1>7. EffectsInOrder'
  <2>1. ASSUME NEW m \in DOMAIN performed', NEW n \in DOMAIN performed', m < n
        PROVE  /\ performed'[m] # performed'[n]
               /\ performed'[m] < performed'[n] \/ performed'[n] \in late'
    <3>1. m \in DOMAIN performed /\ performed'[m] = performed[m] /\ performed[m] \in Applied
      BY <2>1, <1>1 DEF Applied
    <3> QED
      BY <2>1, <3>1, <1>0, <1>1 DEF IInv, EffectsInOrder
  <2>2. \A i \in Replies' : result'[i].ok => result'[i].of \in Applied' \ late'
    BY <1>0, <1>2 DEF IInv, EffectsInOrder, Replies
  <2> QED
    BY <2>1, <2>2 DEF EffectsInOrder
<1>8. Dispatching' /\ Phases' /\ Resolved'
  BY <1>0, SameSlots DEF IInv, Dispatching, Phases
<1>9. Metered' /\ MetricsAreFinal'
  BY <1>0, <1>2 DEF IInv, Metered, Settled, MetricsAreFinal, Replies
<1> QED
  BY <1>3, <1>4, <1>5, <1>6, <1>7, <1>8, <1>9 DEF IInv

\* fabricd may exit at any point, with or without what it had sent.
LEMMA DaemonDiesStep ==
  ASSUME IInv, NEW arrives \in BOOLEAN, DaemonDies(arrives)
  PROVE  IInv'
<1> USE DEF boxVars
<1>0. /\ serve # "ended" /\ serve' = "ended" /\ current' = None /\ box # "start"
      /\ UNCHANGED <<boxVars, up, slot, metrics, performed>>
      /\ down' = down \/ down' = <<>>
      /\ late' \in {late, late \cup {current.id}}
      /\ serve # "dispatching" => late' = late
  BY DEF DaemonDies, Running
<1>1. CASE serve = "dispatching"
  <2>1. slot' \in [Kinds -> SlotState] /\ Resolved'
    BY <1>0, SlotStayed
  <2>2. FALSE \in BOOLEAN /\ metrics' \in {metrics, metrics + 1}
    BY <1>0
  <2> QED
    BY <1>0, <1>1, <2>1, <2>2, Dispatched
<1>2. CASE serve # "dispatching"
  <2>1. performed' = performed /\ late' = late /\ current = None
    BY <1>0, <1>2 DEF IInv, Dispatching
  <2>2. /\ down' \in Seq(Response) /\ Len(down') <= Len(down)
        /\ \A n \in DOMAIN down' : n \in DOMAIN down /\ down'[n] = down[n]
    <3>1. down \in Seq(Response) /\ Len(down) \in Nat
      BY LenProperties DEF IInv, TypeOK
    <3>2. <<>> \in Seq(Response) /\ Len(<<>>) = 0 /\ DOMAIN <<>> = {}
      BY EmptySeq, EmptyStream
    <3>3. CASE down' = down
      BY <3>1, <3>3
    <3>4. CASE down' = <<>>
      BY <3>1, <3>2, <3>4
    <3> QED
      BY <3>3, <3>4, <1>0
  <2>3. TypeOK'
    BY <1>0, <2>1, <2>2 DEF IInv, TypeOK, ServeState
  <2>4. InOrder' /\ Displaced' /\ Fresh' /\ Truthful' /\ EffectsInOrder' /\ RepliesInOrder'
    <3>1. \A n \in DOMAIN up' : n \in Nat /\ n + 0 \in DOMAIN up /\ up'[n] = up[n + 0]
      BY <1>0, InStream DEF IInv, TypeOK
    <3>2. 0 \in {0, 1}
      OBVIOUS
    <3> QED
      BY <3>1, <3>2, <2>1, <2>2, <1>0, FewerRequests
  <2>5. Dispatching' /\ Resolved'
    BY <1>0, <1>2, SameSlots DEF IInv, Dispatching
  <2>6. Phases'
    <3>1. Len(up) \in Nat /\ Len(down) \in Nat /\ Len(down') \in Nat
      BY <2>2, LenProperties DEF IInv, TypeOK
    <3> QED
      BY <3>1, <1>0, <2>2 DEF IInv, Phases
  <2>7. Metered'
    BY <1>0, <2>1, <2>2, SameSuccesses DEF IInv, Metered, Settled
  <2>8. MetricsAreFinal'
    BY <1>0, <2>1 DEF IInv, MetricsAreFinal, Replies
  <2> QED
    BY <2>3, <2>4, <2>5, <2>6, <2>7, <2>8 DEF IInv
<1> QED
  BY <1>1, <1>2

-----------------------------------------------------------------------------
LEMMA NextIInv == IInv /\ [Next]_vars => IInv'
<1> SUFFICES ASSUME IInv, [Next]_vars PROVE IInv'
  OBVIOUS
<1>1. CASE \/ Unreachable \/ HandshakeLost \/ SessionDropped \/ DeadlinePasses \/ DrainLost
           \/ DrainGarbled \/ ServeEof \/ UNCHANGED vars
  BY <1>1, PhaseSteps
<1>2. CASE SendInit \/ StartDrain \/ \E k \in Kinds \cup {None} : StartCall(k)
  BY <1>2, SendInitStep, StartDrainStep, StartCallStep
<1>3. CASE CallNotWritten \/ CallTorn \/ CallLost \/ CallTimesOut \/ CallGarbled
  BY <1>3, LostCallSteps
<1>4. CASE Handshaken \/ CallReturns \/ DrainReturns
  BY <1>4, HandshakenStep, CallReturnsStep, DrainReturnsStep
<1>5. CASE ServeInit \/ ServeCall \/ ServeDrain \/ ServeTorn
  BY <1>5, ServeInitStep, ServeCallStep, ServeDrainStep, ServeTornStep
<1>6. CASE DispatchSteps
  BY <1>6, DispatchRefusedStep, DispatchRunsStep, DispatchTooLargeStep DEF DispatchSteps
<1>7. CASE \E arrives \in BOOLEAN : DaemonDies(arrives)
  BY <1>7, DaemonDiesStep
<1>8. CASE \E i \in late : LateEffect(i)
  BY <1>8, LateEffectStep
<1> QED
  BY <1>1, <1>2, <1>3, <1>4, <1>5, <1>6, <1>7, <1>8 DEF Next, BoxSteps, CallSteps, ServeSteps

\* The inductive invariant holds in every state of the session.
THEOREM Invariance == Spec => []IInv
<1>1. Init => IInv
  BY InitIInv
<1>2. IInv /\ [Next]_vars => IInv'
  BY NextIInv
<1> QED
  BY <1>1, <1>2, PTL DEF Spec

\* sidecar.rs and main.rs: only frames of the protocol are in the stream, in either
\* direction, and no execution makes more calls than the engine's op limit.
THEOREM TypeCorrect == Spec => []TypeOK
<1>1. IInv => TypeOK
  BY DEF IInv
<1> QED
  BY <1>1, Invariance, PTL

\* SidecarEgress::call: a reply is delivered once, in the order of the calls, never ahead
\* of its call, and never to another than its own unless a call before had timed out.
THEOREM RepliesAreInOrder == Spec => []RepliesInOrder
<1>1. IInv => RepliesInOrder
  BY DEF IInv
<1> QED
  BY <1>1, Invariance, PTL

\* serve: a call takes effect at most once, and a success that reached the script is an
\* effect that has taken place, in the order of the calls, whatever timed out, tore or
\* crashed; only what was given up with its operation under way takes effect out of order.
THEOREM EffectsAreInOrder == Spec => []EffectsInOrder
<1>1. IInv => EffectsInOrder
  BY DEF IInv
<1> QED
  BY <1>1, Invariance, PTL

\* resolve and from_configs: for every table and every Init, a slot the session has is for
\* a resource of its own tenant and of that kind, and its token was accepted.
THEOREM ResourcesAreOwn == Spec => []OnlyOwnResources
<1>1. IInv => OnlyOwnResources
  <2> SUFFICES ASSUME IInv, NEW k \in Kinds, slot[k] # "absent"
               PROVE  /\ init.token \in Accepted
                      /\ Table[init.select[k]] = [tenant |-> init.tenant, kind |-> k]
    BY DEF OnlyOwnResources
  <2>1. init.token \in Accepted /\ Pick(init, k) = "resolved"
    BY DEF IInv, Resolved
  <2>2. /\ init.select[k] \in DOMAIN Table
        /\ Table[init.select[k]].tenant = init.tenant /\ Table[init.select[k]].kind = k
    BY <2>1 DEF Pick
  <2> QED
    BY <2>1, <2>2, TableAssumption
<1> QED
  BY <1>1, Invariance, PTL

\* drain_metrics: metrics that reach the box are those of the whole session, with every
\* operation the script saw succeed among them.
THEOREM DrainedMetricsAreFinal == Spec => []MetricsAreFinal
<1>1. IInv => MetricsAreFinal
  BY DEF IInv
<1> QED
  BY <1>1, Invariance, PTL
=============================================================================
