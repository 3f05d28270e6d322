---------------------------- MODULE FabricProofs ----------------------------
(***************************************************************************)
(* What the box reaches the daemon by, and who the daemon lets in.            *)
(*                                                                         *)
(* Fabric: types, connection slots, the mutex of the cached connection and     *)
(* the ownership of connections.  The slots need the invariant themselves (a    *)
(* permit given back fits below the maximum because an admitted connection had   *)
(* it); that no session is cut off by others needs that a request with a stream  *)
(* holds a connection.                                                      *)
(*                                                                         *)
(* TokenVerifier: the cache fails closed and never goes back, for every        *)
(* sequence of key sets and any number of sessions.  Both rest on the same     *)
(* account of the refresh loop: the cache is the key map of one published set,  *)
(* and at most one answer is under way, only while the loop waits for it, of a   *)
(* set no older than the cached one.                                         *)
(***************************************************************************)
EXTENDS Fabric, TokenVerifier, TLAPS, FiniteSetTheorems

\* From dialling to the end of its session a request has a handle of a connection.
HoldsOne == \A r \in Request :
  at[r] \in {"dialing", "opening", "streaming", "waiting", "session"} => conn[r] \in Connection

IInv == TypeOK /\ ConnectionSlots /\ LockHeld /\ HoldsOne /\ NotCutByOthers

-----------------------------------------------------------------------------
LEMMA Limits == Addresses \in Nat /\ MaxConnections \in Nat
BY LimitAssumption

LEMMA NoneIsNone == (\A r \in Request : r # None) /\ (\A c \in Connection : c # None)
BY NoneAssumption

LEMMA AdmittedFinite ==
  /\ IsFiniteSet(Admitted) /\ Cardinality(Admitted) \in Nat
  /\ IsFiniteSet(Admitted') /\ Cardinality(Admitted') \in Nat
<1>1. Admitted \subseteq Connection /\ Admitted' \subseteq Connection
  BY DEF Admitted
<1>2. IsFiniteSet(Admitted) /\ IsFiniteSet(Admitted')
  BY <1>1, SetAssumption, FS_Subset
<1> QED
  BY <1>2, FS_CardinalityType

\* A permit is taken with the admission of a connection and given back with its end.
LEMMA SlotTaken ==
  ASSUME IInv, NEW c \in Connection, server[c] \notin {"handshaking", "serving"},
         server' = [server EXCEPT ![c] = "handshaking"], permits > 0, permits' = permits - 1
  PROVE  ConnectionSlots' /\ permits' \in 0 .. MaxConnections
<1>1. Admitted' = Admitted \cup {c} /\ c \notin Admitted
  BY DEF Admitted, IInv, TypeOK
<1>2. Cardinality(Admitted') = Cardinality(Admitted) + 1
  BY <1>1, AdmittedFinite, FS_AddElement
<1> QED
  BY <1>2, AdmittedFinite, Limits DEF IInv, TypeOK, ConnectionSlots

LEMMA SlotReturned ==
  ASSUME IInv, NEW c \in Connection, server[c] \in {"handshaking", "serving"},
         server' = [server EXCEPT ![c] = "none"], permits' = permits + 1
  PROVE  ConnectionSlots' /\ permits' \in 0 .. MaxConnections
<1>1. Admitted' = Admitted \ {c} /\ c \in Admitted
  BY DEF Admitted, IInv, TypeOK
<1>2. Cardinality(Admitted') = Cardinality(Admitted) - 1
  BY <1>1, AdmittedFinite, FS_RemoveElement
<1> QED
  BY <1>2, AdmittedFinite, Limits DEF IInv, TypeOK, ConnectionSlots

LEMMA SlotsKept ==
  ASSUME IInv, Admitted' = Admitted, permits' = permits
  PROVE  ConnectionSlots' /\ permits' \in 0 .. MaxConnections
BY DEF IInv, TypeOK, ConnectionSlots

\* What a step of a request leaves to show once its own facts are known.
LEMMA BoxMoves ==
  ASSUME IInv, NEW r \in Request, NEW l \in At, Goto(r, l),
         NEW k \in Connection \cup {None}, Hold(r, k),
         l \in {"dialing", "opening", "streaming", "waiting", "session"} => k \in Connection,
         UNCHANGED link, failed \subseteq failed',
         l = "session" => link[k] # "closed",
         lock' = lock \/ lock' = None,
         lock' = r => l \in {"locked", "dialing"}
  PROVE  /\ at' \in [Request -> At]
         /\ conn' \in [Request -> Connection \cup {None}]
         /\ LockHeld' /\ HoldsOne' /\ NotCutByOthers'
<1>1. /\ at' \in [Request -> At] /\ at'[r] = l
      /\ \A q \in Request : q # r => at'[q] = at[q]
  BY DEF IInv, TypeOK, Goto
<1>2. /\ conn' \in [Request -> Connection \cup {None}] /\ conn'[r] = k
      /\ \A q \in Request : q # r => conn'[q] = conn[q]
  BY DEF IInv, TypeOK, Hold
<1>3. LockHeld'
  <2> SUFFICES ASSUME lock' # None PROVE at'[lock'] \in {"locked", "dialing"}
    BY DEF LockHeld
  <2>1. lock' = lock /\ lock \in Request /\ at[lock] \in {"locked", "dialing"}
    BY DEF IInv, TypeOK, LockHeld
  <2> QED
    BY <1>1, <2>1
<1>4. HoldsOne'
  BY <1>1, <1>2 DEF IInv, HoldsOne
<1>5. NotCutByOthers'
  BY <1>1, <1>2 DEF IInv, NotCutByOthers
<1> QED
  BY <1>1, <1>2, <1>3, <1>4, <1>5

\* A step that only moves a request: Hold or conn unchanged amount to the same.
LEMMA HoldSame ==
  ASSUME TypeOK, NEW r \in Request, conn' = conn
  PROVE  conn[r] \in Connection \cup {None} /\ Hold(r, conn[r])
BY DEF TypeOK, Hold

-----------------------------------------------------------------------------
LEMMA InitEstablishes == Init => IInv
<1> SUFFICES ASSUME Init PROVE IInv
  OBVIOUS
<1>1. TypeOK
  BY Limits DEF Init, TypeOK, At, Server, Serve
<1>2. ConnectionSlots
  <2>1. Admitted = {}
    BY DEF Init, Admitted
  <2> QED
    BY <2>1, FS_EmptySet, Limits DEF Init, ConnectionSlots
<1>3. LockHeld /\ HoldsOne /\ NotCutByOthers
  BY DEF Init, LockHeld, HoldsOne, NotCutByOthers
<1> QED
  BY <1>1, <1>2, <1>3 DEF IInv

\* A step of the box on its own state: the daemon and the links stay as they are.
LEMMA BoxStep ==
  ASSUME IInv, NEW r \in Request, NEW l \in At, Goto(r, l),
         NEW k \in Connection \cup {None}, Hold(r, k),
         l \in {"dialing", "opening", "streaming", "waiting", "session"} => k \in Connection,
         l = "session" => link[k] # "closed",
         lock' = lock \/ lock' = None,
         lock' = r => l \in {"locked", "dialing"},
         dialed' \in [Request -> 0 .. Addresses], again' \subseteq Request,
         cached' \in Connection \cup {None},
         UNCHANGED <<link, failed, server, permits, up>>,
         serve' \in [Request -> Serve], stream' \in [Request -> Connection \cup {None}]
  PROVE  IInv'
<1>1. /\ at' \in [Request -> At] /\ conn' \in [Request -> Connection \cup {None}]
      /\ LockHeld' /\ HoldsOne' /\ NotCutByOthers'
  BY BoxMoves
<1>2. lock' \in Request \cup {None}
  BY DEF IInv, TypeOK
<1>3. ConnectionSlots'
  BY SlotsKept DEF Admitted
<1>4. TypeOK'
  BY <1>1, <1>2 DEF IInv, TypeOK
<1> QED
  BY <1>1, <1>3, <1>4 DEF IInv

\* The addresses tried are forgotten with the guard.
LEMMA UnlockTypes ==
  ASSUME IInv, NEW r \in Request, Unlock(r)
  PROVE  /\ dialed' \in [Request -> 0 .. Addresses]
         /\ lock' = lock \/ lock' = None
         /\ lock' # r
BY Limits, NoneIsNone DEF IInv, TypeOK, Unlock

LEMMA BoxPreserves ==
  ASSUME IInv, NEW r \in Request,
         ReadToken(r) \/ Contend(r) \/ Box(r) \/ Cancel(r)
  PROVE  IInv'
<1> USE DEF client, daemon
<1>0. conn' = conn => conn[r] \in Connection \cup {None} /\ Hold(r, conn[r])
  BY HoldSame DEF IInv
<1>t. /\ at[r] \in At /\ dialed \in [Request -> 0 .. Addresses] /\ again \subseteq Request
      /\ cached \in Connection \cup {None} /\ serve \in [Request -> Serve]
      /\ stream \in [Request -> Connection \cup {None}]
      /\ conn[r] \in Connection \cup {None}
  BY DEF IInv, TypeOK
<1>h. /\ at[r] \in {"dialing", "opening", "streaming", "waiting", "session"} => conn[r] \in Connection
      /\ lock = r => at[r] \in {"locked", "dialing"}
  BY NoneIsNone DEF IInv, HoldsOne, LockHeld
<1>1. CASE ReadToken(r)
  <2>1. CASE Goto(r, "locking")
    BY <1>0, <1>t, <1>h, <1>1, <2>1, BoxStep DEF ReadToken, At
  <2>2. CASE Goto(r, "failed")
    BY <1>0, <1>t, <1>h, <1>1, <2>2, BoxStep DEF ReadToken, At
  <2> QED
    BY <1>1, <2>1, <2>2 DEF ReadToken
<1>2. CASE Lock(r)
  <2>1. lock' = r /\ at' = [at EXCEPT ![r] = "locked"]
    BY <1>2 DEF Lock, Goto
  <2>2. /\ at' \in [Request -> At] /\ at'[r] = "locked"
        /\ \A q \in Request : q # r => at'[q] = at[q]
    BY <2>1 DEF IInv, TypeOK, At
  <2>3. TypeOK'
    BY <1>2, <2>1, <2>2 DEF Lock, IInv, TypeOK
  <2>4. LockHeld' /\ HoldsOne' /\ NotCutByOthers'
    BY <1>2, <2>1, <2>2 DEF Lock, IInv, LockHeld, HoldsOne, NotCutByOthers
  <2>5. ConnectionSlots'
    BY <1>2, SlotsKept DEF Lock, Admitted
  <2> QED
    BY <2>3, <2>4, <2>5 DEF IInv
<1>3. CASE Reuse(r)
  <2>1. cached \in Connection
    BY <1>3, <1>t, NoneIsNone DEF Reuse, Reusable
  <2> QED
    BY <1>3, <1>t, <2>1, UnlockTypes, BoxStep DEF Reuse, At
<1>4. ASSUME NEW c \in Connection, Dial(r, c) PROVE IInv'
  <2>1. /\ at' = [at EXCEPT ![r] = "dialing"] /\ conn' = [conn EXCEPT ![r] = c]
        /\ link' = [link EXCEPT ![c] = "dialing"] /\ failed' = failed \ {c}
        /\ lock' = lock
        /\ \A q \in Request : conn[q] # c
    BY <1>4 DEF Dial, Goto, Hold, Fresh
  <2>2. /\ at' \in [Request -> At] /\ at'[r] = "dialing"
        /\ \A q \in Request : q # r => at'[q] = at[q]
        /\ conn' \in [Request -> Connection \cup {None}] /\ conn'[r] = c
        /\ \A q \in Request : q # r => conn'[q] = conn[q]
    BY <2>1 DEF IInv, TypeOK, At
  <2>3. dialed' \in [Request -> 0 .. Addresses]
    BY <1>4, Limits DEF Dial, IInv, TypeOK
  <2>4. server' \in [Connection -> Server]
    BY <1>4 DEF Dial, IInv, TypeOK, Server
  <2>5. TypeOK'
    BY <1>4, <2>1, <2>2, <2>3, <2>4 DEF Dial, IInv, TypeOK
  <2>6. ConnectionSlots'
    <3>1. server[c] = "none" /\ \A d \in Connection :
            server'[d] = IF d = c THEN (IF up THEN "incoming" ELSE "none") ELSE server[d]
      BY <1>4 DEF Dial, Fresh, IInv, TypeOK
    <3>2. Admitted' = Admitted
      BY <3>1 DEF Admitted
    <3> QED
      BY <1>4, <3>2, SlotsKept DEF Dial
  <2>7. LockHeld' /\ HoldsOne'
    BY <2>1, <2>2 DEF IInv, TypeOK, LockHeld, HoldsOne
  <2>8. NotCutByOthers'
    <3> SUFFICES ASSUME NEW q \in Request, at'[q] = "session", link'[conn'[q]] = "closed"
                 PROVE  conn'[q] \in failed'
      BY DEF NotCutByOthers
    <3>1. q # r /\ at[q] = "session" /\ conn'[q] = conn[q] /\ conn[q] \in Connection
      BY <2>2 DEF IInv, HoldsOne
    <3>2. conn[q] # c
      BY <2>1
    <3>3. link[conn[q]] = "closed"
      BY <2>1, <3>1, <3>2 DEF IInv, TypeOK
    <3> QED
      BY <2>1, <3>1, <3>2, <3>3 DEF IInv, NotCutByOthers
  <2> QED
    BY <2>5, <2>6, <2>7, <2>8 DEF IInv
<1>5. CASE LookupFails(r)
  <2>1. dialed' \in [Request -> 0 .. Addresses]
    BY <1>5, <1>t, Limits DEF LookupFails
  <2>2. TypeOK'
    BY <1>5, <2>1 DEF LookupFails, IInv, TypeOK
  <2>3. ConnectionSlots' /\ LockHeld' /\ HoldsOne' /\ NotCutByOthers'
    BY <1>5 DEF LookupFails, IInv, ConnectionSlots, Admitted, LockHeld, HoldsOne, NotCutByOthers
  <2> QED
    BY <2>2, <2>3 DEF IInv
<1>6. CASE DialFails(r)
  BY <1>6, <1>t, BoxStep DEF DialFails, At
<1>7. CASE Dialed(r)
  BY <1>0, <1>t, <1>h, <1>7, UnlockTypes, BoxStep DEF Dialed, At
<1>8. CASE NoReplica(r)
  BY <1>0, <1>t, <1>8, UnlockTypes, BoxStep DEF NoReplica, At
<1>9. CASE OpenBi(r)
  BY <1>0, <1>t, <1>h, <1>9, BoxStep DEF OpenBi, At
<1>10. CASE OpenFails(r)
  <2>1. CASE r \in again
    BY <1>t, <1>h, <1>10, <2>1, BoxStep DEF OpenFails, At
  <2>2. CASE r \notin again
    BY <1>t, <1>h, <1>10, <2>2, BoxStep DEF OpenFails, At
  <2> QED
    BY <2>1, <2>2
<1>11. CASE Invalidate(r)
  BY <1>0, <1>t, <1>h, <1>11, NoneIsNone, BoxStep DEF Invalidate, At
<1>12. CASE SendInit(r)
  <2>1. serve' \in [Request -> Serve] /\ stream' \in [Request -> Connection \cup {None}]
    BY <1>t, <1>h, <1>12 DEF SendInit, Serve
  <2> QED
    BY <1>0, <1>t, <1>h, <1>12, <2>1, BoxStep DEF SendInit, At
<1>13. CASE Acked(r)
  BY <1>0, <1>t, <1>h, <1>13, BoxStep DEF Acked, At
<1>14. CASE HandshakeRefused(r)
  BY <1>t, <1>h, <1>14, BoxStep DEF HandshakeRefused, At
<1>15. CASE EndSession(r)
  BY <1>t, <1>h, <1>15, BoxStep DEF EndSession, At
<1>16. CASE Cancel(r)
  BY <1>t, <1>16, UnlockTypes, BoxStep DEF Cancel, At
<1> QED
  BY <1>1, <1>2, <1>3, <1>4, <1>5, <1>6, <1>7, <1>8, <1>9, <1>10, <1>11, <1>12, <1>13,
     <1>14, <1>15, <1>16 DEF Contend, Box

\* The links: only the network and the last handle close one.
LEMMA LinkPreserves ==
  ASSUME IInv, NEW c \in Connection, HandleDropped(c) \/ LinkLost(c)
  PROVE  IInv'
<1> USE DEF client, daemon
<1>1. /\ link' = [link EXCEPT ![c] = "closed"]
      /\ UNCHANGED <<at, conn, dialed, again, lock, cached, server, permits, serve, stream, up>>
      /\ failed \subseteq failed' /\ failed' \subseteq Connection
      /\ c \in failed' \/ \A r \in Request : conn[r] # c
  BY DEF IInv, TypeOK, HandleDropped, LinkLost
<1>2. TypeOK'
  BY <1>1 DEF IInv, TypeOK
<1>3. ConnectionSlots' /\ LockHeld' /\ HoldsOne'
  BY <1>1 DEF IInv, ConnectionSlots, Admitted, LockHeld, HoldsOne
<1>4. NotCutByOthers'
  BY <1>1 DEF IInv, TypeOK, HoldsOne, NotCutByOthers
<1> QED
  BY <1>2, <1>3, <1>4 DEF IInv

\* The listener: permits move with the connections they admit; opening a link that was
\* being dialled closes none.
LEMMA ListenerPreserves ==
  ASSUME IInv, NEW c \in Connection, Listener(c)
  PROVE  IInv'
<1> USE DEF client, daemon
<1>1. /\ UNCHANGED <<at, conn, dialed, again, lock, cached, serve, stream, up, failed>>
      /\ server' \in [Connection -> Server]
      /\ link' \in [Connection -> {"closed", "dialing", "open"}]
      /\ \A d \in Connection : link'[d] = "closed" => link[d] = "closed"
  BY DEF IInv, TypeOK, Server, Listener, AcceptIncoming, AcquirePermit, HandshakeDone,
         HandshakeFails, ConnectionEnds
<1>2. ConnectionSlots' /\ permits' \in 0 .. MaxConnections
  <2>1. CASE AcceptIncoming(c)
    <3>1. Admitted' = Admitted
      BY <2>1 DEF AcceptIncoming, Admitted, IInv, TypeOK
    <3> QED
      BY <2>1, <3>1, SlotsKept DEF AcceptIncoming
  <2>2. CASE AcquirePermit(c)
    BY <2>2, SlotTaken DEF AcquirePermit
  <2>3. CASE HandshakeDone(c)
    <3>1. Admitted' = Admitted
      BY <2>3 DEF HandshakeDone, Admitted, IInv, TypeOK
    <3> QED
      BY <2>3, <3>1, SlotsKept DEF HandshakeDone
  <2>4. CASE HandshakeFails(c) \/ ConnectionEnds(c)
    BY <2>4, SlotReturned DEF HandshakeFails, ConnectionEnds
  <2> QED
    BY <2>1, <2>2, <2>3, <2>4 DEF Listener
<1>3. TypeOK'
  BY <1>1, <1>2 DEF IInv, TypeOK
<1>4. LockHeld' /\ HoldsOne' /\ NotCutByOthers'
  BY <1>1 DEF IInv, LockHeld, HoldsOne, NotCutByOthers
<1> QED
  BY <1>2, <1>3, <1>4 DEF IInv

\* The sessions of the daemon and its restarts.
LEMMA DaemonPreserves ==
  ASSUME IInv, (\E r \in Request : SessionTask(r)) \/ DaemonStops \/ DaemonStarts
  PROVE  IInv'
<1> USE DEF client, daemon
<1>1. UNCHANGED <<at, conn, dialed, again, lock, cached, link, failed>>
  BY DEF SessionTask, Authenticate, ServeGoto, ServeEnds, DaemonStops, DaemonStarts
<1>2. /\ serve' \in [Request -> Serve] /\ stream' \in [Request -> Connection \cup {None}]
      /\ server' \in [Connection -> Server] /\ up' \in BOOLEAN
  <2>1. CASE \E r \in Request : SessionTask(r)
    BY <2>1 DEF IInv, TypeOK, Serve, SessionTask, Authenticate, ServeGoto, ServeEnds
  <2>2. CASE DaemonStops
    BY <2>2 DEF IInv, TypeOK, Serve, Server, DaemonStops
  <2>3. CASE DaemonStarts
    BY <2>3 DEF IInv, TypeOK, DaemonStarts
  <2> QED
    BY <2>1, <2>2, <2>3
<1>3. ConnectionSlots' /\ permits' \in 0 .. MaxConnections
  <2>1. CASE DaemonStops
    <3>1. Admitted' = {}
      BY <2>1 DEF DaemonStops, Admitted
    <3> QED
      BY <2>1, <3>1, FS_EmptySet, Limits DEF DaemonStops, ConnectionSlots
  <2>2. CASE ~DaemonStops
    <3>1. permits' = permits /\ server' = server
      BY <2>2 DEF SessionTask, Authenticate, ServeGoto, ServeEnds, DaemonStarts
    <3> QED
      BY <3>1, SlotsKept DEF Admitted
  <2> QED
    BY <2>1, <2>2
<1>4. TypeOK'
  BY <1>1, <1>2, <1>3 DEF IInv, TypeOK
<1>5. LockHeld' /\ HoldsOne' /\ NotCutByOthers'
  BY <1>1 DEF IInv, LockHeld, HoldsOne, NotCutByOthers
<1> QED
  BY <1>3, <1>4, <1>5 DEF IInv

LEMMA NextPreserves == IInv /\ [Next]_vars => IInv'
<1> SUFFICES ASSUME IInv, [Next]_vars PROVE IInv'
  OBVIOUS
<1>1. CASE \E r \in Request : ReadToken(r) \/ Contend(r) \/ Box(r) \/ Cancel(r)
  BY <1>1, BoxPreserves
<1>2. CASE \E c \in Connection : HandleDropped(c) \/ LinkLost(c)
  BY <1>2, LinkPreserves
<1>3. CASE \E c \in Connection : Listener(c)
  BY <1>3, ListenerPreserves
<1>4. CASE (\E r \in Request : SessionTask(r)) \/ DaemonStops \/ DaemonStarts
  BY <1>4, DaemonPreserves
<1>5. CASE UNCHANGED vars
  BY <1>5 DEF vars, client, daemon, IInv, TypeOK, ConnectionSlots, Admitted, LockHeld,
              HoldsOne, NotCutByOthers
<1> QED
  BY <1>1, <1>2, <1>3, <1>4, <1>5 DEF Next

\* The inductive invariant holds of every behaviour.
THEOREM Invariance == Spec => []IInv
BY InitEstablishes, NextPreserves, PTL DEF Spec

\* Types, for any number of requests, connections and addresses.
THEOREM TypeCorrect == Spec => []TypeOK
<1>1. IInv => TypeOK
  BY DEF IInv
<1> QED
  BY <1>1, Invariance, PTL

\* fabricd's max_connections permits and its admitted connections always add up, through
\* failed handshakes, lost connections and restarts (quic_accept_loop).
THEOREM ConnectionSlotsHolds == Spec => []ConnectionSlots
<1>1. IInv => ConnectionSlots
  BY DEF IInv
<1> QED
  BY <1>1, Invariance, PTL

\* The mutex of QuicClient is held only inside live_connection, whoever fails or is
\* cancelled there.
THEOREM LockHeldHolds == Spec => []LockHeld
<1>1. IInv => LockHeld
  BY DEF IInv
<1> QED
  BY <1>1, Invariance, PTL

\* invalidate, failover and cancellation of one request never close the connection under
\* another request's session.
THEOREM NotCutByOthersHolds == Spec => []NotCutByOthers
<1>1. IInv => NotCutByOthers
  BY DEF IInv
<1> QED
  BY <1>1, Invariance, PTL

-----------------------------------------------------------------------------
(* TokenVerifier *)

\* The cache is one published set, never a mixture.
CacheIsOneSet == /\ keys = IF loaded = 0 THEN {} ELSE KeyMap(Published[loaded])
                 /\ loaded # 0 => loaded \in fetched

\* One fetch at a time.
OneFetch == /\ loaded <= version
            /\ \A v \in answers : loaded <= v /\ v <= version
            /\ \A u, v \in answers : u = v
            /\ refresh # "receiving" => answers = {}

VerifierInv == VerifierTypeOK /\ CacheIsOneSet /\ OneFetch /\ FailClosed

-----------------------------------------------------------------------------
LEMMA VersionsAreNat == Version \subseteq Nat \ {0} /\ 1 \in Version
<1>1. Len(Published) \in Nat /\ Len(Published) # 0
  BY PublishedAssumption
<1> QED
  BY <1>1 DEF Version

LEMMA PublishedKeys == \A v \in Version : Published[v] \subseteq Key
BY PublishedAssumption DEF Version

LEMMA KeyMapUsable == \A set : KeyMap(set) \subseteq Usable
BY DEF KeyMap

\* What a session has been granted stays covered while the process fetches more.
LEMMA CoverGrows ==
  ASSUME VerifierInv, fetched \subseteq fetched', UNCHANGED sessions
  PROVE  FailClosed'
BY DEF VerifierInv, FailClosed, sessions

-----------------------------------------------------------------------------
LEMMA VerifierInitEstablishes == VerifierInit => VerifierInv
<1> SUFFICES ASSUME VerifierInit PROVE VerifierInv
  OBVIOUS
<1>1. VerifierTypeOK
  BY VersionsAreNat, PublishedKeys DEF VerifierInit, VerifierTypeOK, Refresh
<1>2. CacheIsOneSet /\ OneFetch
  BY DEF VerifierInit, CacheIsOneSet, OneFetch
<1>3. FailClosed
  BY DEF VerifierInit, FailClosed
<1> QED
  BY <1>1, <1>2, <1>3 DEF VerifierInv

\* One step of a session leaves the verifier alone: only the cover of the session is at
\* stake.
LEMMA SessionPreserves ==
  ASSUME VerifierInv, NEW s \in Session,
         \/ \E t \in Token \cup {NoToken} : Present(s, t)
         \/ LookupKey(s) \/ UnknownKey(s) \/ Accept(s) \/ Reject(s) \/ SessionEnds(s)
  PROVE  VerifierInv'
<1> USE DEF issuer, verifier, sessions
<1>1. UNCHANGED <<version, tokenFile, refresh, answers, keys, loaded, fetched>>
  BY DEF Present, LookupKey, UnknownKey, Accept, Reject, SessionEnds
<1>2. /\ token' \in [Session -> Token \cup {NoToken}]
      /\ verify' \in [Session -> {"none", "presented", "verifying", "accepted"}]
  BY DEF VerifierInv, VerifierTypeOK, Present, LookupKey, UnknownKey, Accept, Reject, SessionEnds
<1>3. VerifierTypeOK' /\ CacheIsOneSet' /\ OneFetch'
  BY <1>1, <1>2 DEF VerifierInv, VerifierTypeOK, CacheIsOneSet, OneFetch
<1>4. \A q \in Session : q # s => token'[q] = token[q] /\ verify'[q] = verify[q]
  BY DEF VerifierInv, VerifierTypeOK, Present, LookupKey, UnknownKey, Accept, Reject, SessionEnds
<1>5. /\ verify'[s] \in {"verifying", "accepted"} =>
           \E v \in fetched : Names(token'[s], KeyMap(Published[v]))
      /\ verify'[s] = "accepted" => token'[s] = Projected(token'[s].kid)
  <2>1. CASE (\E t \in Token \cup {NoToken} : Present(s, t)) \/ UnknownKey(s) \/ Reject(s) \/ SessionEnds(s)
    BY <2>1 DEF VerifierInv, VerifierTypeOK, Present, UnknownKey, Reject, SessionEnds
  <2>2. CASE LookupKey(s)
    <3>1. loaded \in fetched /\ Names(token[s], KeyMap(Published[loaded]))
      BY <2>2 DEF VerifierInv, CacheIsOneSet, LookupKey
    <3>2. token' = token /\ verify'[s] = "verifying"
      BY <2>2 DEF VerifierInv, VerifierTypeOK, LookupKey
    <3> QED
      BY <3>1, <3>2
  <2>3. CASE Accept(s)
    <3>1. token' = token /\ verify[s] = "verifying" /\ token[s].signed /\ token[s].claims
      BY <2>3 DEF Accept
    <3>2. token[s] \in Token
      BY <3>1 DEF VerifierInv, VerifierTypeOK, FailClosed, Names
    <3>3. token[s] = Projected(token[s].kid)
      BY <3>1, <3>2 DEF Token, Projected
    <3> QED
      BY <3>1, <3>3 DEF VerifierInv, FailClosed
  <2> QED
    BY <2>1, <2>2, <2>3
<1>6. FailClosed'
  BY <1>1, <1>4, <1>5 DEF VerifierInv, FailClosed
<1> QED
  BY <1>3, <1>6 DEF VerifierInv

LEMMA VerifierNextPreserves == VerifierInv /\ [VerifierNext]_verifierVars => VerifierInv'
<1> SUFFICES ASSUME VerifierInv, [VerifierNext]_verifierVars PROVE VerifierInv'
  OBVIOUS
<1> USE VersionsAreNat DEF issuer, verifier, sessions
<1>1. CASE Rotate
  BY <1>1 DEF Rotate, VerifierInv, VerifierTypeOK, CacheIsOneSet, OneFetch, FailClosed
<1>2. CASE ProjectToken
  BY <1>2, PublishedKeys DEF ProjectToken, VerifierInv, VerifierTypeOK, CacheIsOneSet, OneFetch, FailClosed
<1>3. CASE Discover
  BY <1>3 DEF Discover, VerifierInv, VerifierTypeOK, CacheIsOneSet, OneFetch, FailClosed, Refresh
<1>4. CASE Answer
  <2>1. answers = {} /\ answers' = {version}
    BY <1>4 DEF Answer, VerifierInv, OneFetch
  <2> QED
    BY <1>4, <2>1 DEF Answer, VerifierInv, VerifierTypeOK, CacheIsOneSet, OneFetch, FailClosed, Refresh
<1>5. CASE FetchFails
  BY <1>5 DEF FetchFails, VerifierInv, VerifierTypeOK, CacheIsOneSet, OneFetch, FailClosed, Refresh
<1>6. CASE Wake
  BY <1>6 DEF Wake, VerifierInv, VerifierTypeOK, CacheIsOneSet, OneFetch, FailClosed, Refresh
<1>7. ASSUME NEW v \in Version, Refreshed(v) PROVE VerifierInv'
  <2>1. answers' = {} /\ loaded <= v /\ v <= version /\ v # 0
    BY <1>7 DEF Refreshed, VerifierInv, OneFetch
  <2>2. VerifierTypeOK'
    BY <1>7, <2>1, KeyMapUsable DEF Refreshed, VerifierInv, VerifierTypeOK, Refresh
  <2>3. CacheIsOneSet'
    BY <1>7, <2>1 DEF Refreshed, CacheIsOneSet
  <2>4. OneFetch'
    BY <1>7, <2>1 DEF Refreshed, VerifierInv, OneFetch
  <2>5. FailClosed'
    BY <1>7, <2>1, CoverGrows DEF Refreshed
  <2> QED
    BY <2>2, <2>3, <2>4, <2>5 DEF VerifierInv
<1>8. CASE \E s \in Session : \/ \E t \in Token \cup {NoToken} : Present(s, t)
                             \/ LookupKey(s) \/ UnknownKey(s)
                             \/ Accept(s) \/ Reject(s) \/ SessionEnds(s)
  BY <1>8, SessionPreserves
<1>9. CASE Restart
  <2>1. VerifierTypeOK' /\ CacheIsOneSet' /\ OneFetch'
    BY <1>9 DEF Restart, VerifierInv, VerifierTypeOK, CacheIsOneSet, OneFetch, Refresh
  <2>2. FailClosed'
    BY <1>9 DEF Restart, FailClosed
  <2> QED
    BY <2>1, <2>2 DEF VerifierInv
<1>10. CASE UNCHANGED verifierVars
  BY <1>10 DEF verifierVars, VerifierInv, VerifierTypeOK, CacheIsOneSet, OneFetch, FailClosed
<1> QED
  BY <1>1, <1>2, <1>3, <1>4, <1>5, <1>6, <1>7, <1>8, <1>9, <1>10 DEF VerifierNext

\* The inductive invariant holds of every behaviour.
THEOREM VerifierInvariance == VerifierSpec => []VerifierInv
BY VerifierInitEstablishes, VerifierNextPreserves, PTL DEF VerifierSpec

\* Types; the cache holds usable keys only (sa_token.rs, build_key_map).
THEOREM VerifierTypeCorrect == VerifierSpec => []VerifierTypeOK
<1>1. VerifierInv => VerifierTypeOK
  BY DEF VerifierInv
<1> QED
  BY <1>1, VerifierInvariance, PTL

\* JwksVerifier::verify accepts only tokens the issuer signed for this daemon, with a key
\* of a set that this process has fetched since it started.
THEOREM FailClosedHolds == VerifierSpec => []FailClosed
<1>1. VerifierInv => FailClosed
  BY DEF VerifierInv
<1> QED
  BY <1>1, VerifierInvariance, PTL

\* refresh_loop never replaces the cache by an older set.
THEOREM KeysNeverGoBackHolds == VerifierSpec => KeysNeverGoBack
<1>1. VerifierInv /\ [VerifierNext]_verifierVars => [loaded' >= loaded \/ loaded' = 0]_verifierVars
  <2> SUFFICES ASSUME VerifierInv, VerifierNext PROVE loaded' >= loaded \/ loaded' = 0
    OBVIOUS
  <2> USE DEF issuer, verifier, sessions
  <2>1. loaded \in Nat
    BY VersionsAreNat DEF VerifierInv, VerifierTypeOK
  <2>2. ASSUME NEW v \in Version, Refreshed(v) PROVE loaded' >= loaded
    BY <2>2, VersionsAreNat DEF Refreshed, VerifierInv, OneFetch
  <2>3. CASE Restart
    BY <2>3 DEF Restart
  <2>4. CASE UNCHANGED loaded
    BY <2>1, <2>4
  <2> QED
    BY <2>2, <2>3, <2>4 DEF VerifierNext, Rotate, ProjectToken, Discover, Answer, FetchFails, Wake,
                            Present, LookupKey, UnknownKey, Accept, Reject, SessionEnds
<1> QED
  BY <1>1, VerifierInvariance, PTL DEF VerifierSpec, KeysNeverGoBack
=============================================================================
