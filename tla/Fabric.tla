------------------------------- MODULE Fabric -------------------------------
(***************************************************************************)
(* The QUIC link between one box and one fabricd: QuicClient and              *)
(* connect_session of crates/runlet/src/sidecar.rs against the accept loop    *)
(* and the connection tasks of crates/fabricd/src/main.rs.                   *)
(*                                                                         *)
(* Requests share one cached connection behind an async mutex that is held   *)
(* across the dialling.  A Connection is reference counted: it closes when   *)
(* neither the cache nor a request holds it.  Replicas share nothing, so one *)
(* stands for all: an address that is somebody else's is one whose dial      *)
(* fails.  Whether a token is accepted is the subject of TokenVerifier, what  *)
(* a session does once it is open that of Session.                          *)
(***************************************************************************)
EXTENDS Integers, FiniteSets

CONSTANTS Request,         \* requests that open a session, once each
          Connection,      \* connection identities, used again when forgotten
          Addresses,       \* addresses connect_any tries
          MaxConnections,  \* QuicListenerConfig::max_connections
          MaxBidiStreams,  \* MAX_BIDI_STREAMS
          None             \* no value

ASSUME SetAssumption == IsFiniteSet(Request) /\ IsFiniteSet(Connection)
ASSUME LimitAssumption == /\ Addresses \in Nat /\ MaxConnections \in Nat
                          /\ MaxBidiStreams \in Nat
ASSUME NoneAssumption == None \notin Request \cup Connection

\* connect_session in the box, and serve in the daemon.
At == {"idle", "locking", "locked", "dialing", "opening", "invalidating",
       "streaming", "waiting", "session", "failed", "ended"}
Serve == {"none", "init", "serving", "rejected"}
Server == {"none", "incoming", "waiting", "handshaking", "serving"}

VARIABLES
  at,      \* per request, how far connect_session has got
  conn,    \* per request, the connection it holds a clone of
  dialed,  \* per request, the addresses tried by this connect_any
  again,   \* requests on their second live_connection
  lock,    \* the holder of QuicClient::connection
  cached,  \* the connection in it
  link,    \* per connection, as the box sees it
  server,  \* per connection, how far the daemon has got with it
  permits, \* conn_limit
  serve,   \* per request, how far the daemon's session task has got
  stream,  \* per request, the connection that task serves
  up,      \* the daemon runs
  failed   \* history: connections the network or the daemon failed

client == <<at, conn, dialed, again, lock, cached>>
daemon == <<server, permits, serve, stream, up>>
vars == <<client, link, daemon, failed>>

Init == /\ at = [r \in Request |-> "idle"]
        /\ conn = [r \in Request |-> None]
        /\ dialed = [r \in Request |-> 0]
        /\ again = {}
        /\ lock = None
        /\ cached = None
        /\ link = [c \in Connection |-> "closed"]
        /\ server = [c \in Connection |-> "none"]
        /\ permits = MaxConnections
        /\ serve = [r \in Request |-> "none"]
        /\ stream = [r \in Request |-> None]
        /\ up = TRUE
        /\ failed = {}

Goto(r, l) == at' = [at EXCEPT ![r] = l]
Hold(r, c) == conn' = [conn EXCEPT ![r] = c]

\* live_connection is left: its guard is dropped, the addresses are forgotten.
Unlock(r) == /\ lock' = IF lock = r THEN None ELSE lock
             /\ dialed' = [dialed EXCEPT ![r] = 0]

\* The cached connection if it is still open, or None.
Reusable == IF cached # None /\ link[cached] = "open" THEN cached ELSE None

\* An identity nothing refers to any more.
Fresh(c) == /\ link[c] = "closed" /\ server[c] = "none" /\ cached # c
            /\ \A r \in Request : conn[r] # c /\ stream[r] # c

\* The streams flow control counts: it forgets one when both ends are done with it.
Streams(c) == {r \in Request : \/ conn[r] = c /\ at[r] \in {"streaming", "waiting", "session"}
                              \/ stream[r] = c}

-----------------------------------------------------------------------------
(* connect_session *)

\* BoxAuth::token: the file is read before anything else.
ReadToken(r) == /\ at[r] = "idle"
                /\ Goto(r, "locking") \/ Goto(r, "failed")
                /\ UNCHANGED <<conn, dialed, again, lock, cached, link, daemon, failed>>

\* live_connection: self.connection.lock().await
Lock(r) == /\ at[r] = "locking" /\ lock = None
           /\ lock' = r
           /\ Goto(r, "locked")
           /\ UNCHANGED <<conn, dialed, again, cached, link, daemon, failed>>

\* live_connection: the cached connection is open.
Reuse(r) == /\ at[r] = "locked" /\ Reusable # None
            /\ Hold(r, cached)
            /\ Unlock(r)
            /\ Goto(r, "opening")
            /\ UNCHANGED <<again, cached, link, daemon, failed>>

\* connect_any: dial the next address, under the lock.
Dial(r, c) == /\ at[r] = "locked" /\ Reusable = None
              /\ dialed[r] < Addresses
              /\ Fresh(c)
              /\ dialed' = [dialed EXCEPT ![r] = dialed[r] + 1]
              /\ Hold(r, c)
              /\ link' = [link EXCEPT ![c] = "dialing"]
              /\ server' = [server EXCEPT ![c] = IF up THEN "incoming" ELSE "none"]
              /\ failed' = failed \ {c}
              /\ Goto(r, "dialing")
              /\ UNCHANGED <<again, lock, cached, permits, serve, stream, up>>

\* connect_any: the name does not resolve, go on with the next.
LookupFails(r) == /\ at[r] = "locked" /\ Reusable = None
                  /\ dialed[r] < Addresses
                  /\ dialed' = [dialed EXCEPT ![r] = dialed[r] + 1]
                  /\ UNCHANGED <<at, conn, again, lock, cached, link, daemon, failed>>

\* connect_any: this address did not answer, go on with the next.
DialFails(r) == /\ at[r] = "dialing" /\ link[conn[r]] = "closed"
                /\ Hold(r, None)
                /\ Goto(r, "locked")
                /\ UNCHANGED <<dialed, again, lock, cached, link, daemon, failed>>

\* live_connection: the fresh connection is cached and the lock released.
Dialed(r) == /\ at[r] = "dialing" /\ link[conn[r]] = "open"
             /\ cached' = conn[r]
             /\ Unlock(r)
             /\ Goto(r, "opening")
             /\ UNCHANGED <<conn, again, link, daemon, failed>>

\* A failed connect_any that keeps the guard.
NoReplicaKeepsLock(r) == /\ at[r] = "locked" /\ Reusable = None
                         /\ dialed[r] = Addresses
                         /\ Goto(r, "failed")
                         /\ UNCHANGED <<conn, dialed, again, lock, cached, link, daemon, failed>>

\* connect_any is out of addresses: Unavailable, the guard is dropped.
NoReplica(r) == /\ at[r] = "locked" /\ Reusable = None
                /\ dialed[r] = Addresses
                /\ Unlock(r)
                /\ Goto(r, "failed")
                /\ UNCHANGED <<conn, again, cached, link, daemon, failed>>

\* open_bi, as soon as flow control allows another stream.
OpenBi(r) == /\ at[r] = "opening" /\ link[conn[r]] = "open"
             /\ Cardinality(Streams(conn[r])) < MaxBidiStreams
             /\ Goto(r, "streaming")
             /\ UNCHANGED <<conn, dialed, again, lock, cached, link, daemon, failed>>

\* open_bi fails: reconnect once, then give up.
OpenFails(r) == /\ at[r] = "opening" /\ link[conn[r]] = "closed"
                /\ Hold(r, None)
                /\ Goto(r, IF r \in again THEN "failed" ELSE "invalidating")
                /\ UNCHANGED <<dialed, again, lock, cached, link, daemon, failed>>

\* invalidate that closes what it finds in the cache.
InvalidateCloses(r) == /\ at[r] = "invalidating" /\ lock = None
                       /\ cached' = None
                       /\ link' = [c \in Connection |-> IF c = cached THEN "closed" ELSE link[c]]
                       /\ again' = again \cup {r}
                       /\ Goto(r, "locking")
                       /\ UNCHANGED <<conn, dialed, lock, daemon, failed>>

\* invalidate: whatever is cached, be it another request's fresh connection, is forgotten.
Invalidate(r) == /\ at[r] = "invalidating" /\ lock = None
                 /\ cached' = None
                 /\ again' = again \cup {r}
                 /\ Goto(r, "locking")
                 /\ UNCHANGED <<conn, dialed, lock, link, daemon, failed>>

\* handshake: Init, with the token read at the start, starts a session task in the daemon.
SendInit(r) == /\ at[r] = "streaming" /\ link[conn[r]] = "open"
               /\ Goto(r, "waiting")
               /\ IF server[conn[r]] = "serving"
                  THEN /\ serve' = [serve EXCEPT ![r] = "init"]
                       /\ stream' = [stream EXCEPT ![r] = conn[r]]
                  ELSE UNCHANGED <<serve, stream>>
               /\ UNCHANGED <<conn, dialed, again, lock, cached, link, server, permits, up, failed>>

\* handshake: Ack.
Acked(r) == /\ at[r] = "waiting" /\ serve[r] = "serving" /\ link[conn[r]] = "open"
            /\ Goto(r, "session")
            /\ UNCHANGED <<conn, dialed, again, lock, cached, link, daemon, failed>>

\* handshake: InitError, or the connection fails under it.
HandshakeRefused(r) == /\ at[r] \in {"streaming", "waiting"}
                       /\ link[conn[r]] = "closed" \/ serve[r] = "rejected"
                       /\ Hold(r, None)
                       /\ Goto(r, "failed")
                       /\ UNCHANGED <<dialed, again, lock, cached, link, daemon, failed>>

\* The execution is over, the stream is dropped.
EndSession(r) == /\ at[r] = "session"
                 /\ Hold(r, None)
                 /\ Goto(r, "ended")
                 /\ UNCHANGED <<dialed, again, lock, cached, link, daemon, failed>>

\* The client of the box disconnects: the handler is dropped at any await, with
\* the guard, the clone or the connection attempt it holds.
Cancel(r) == /\ at[r] \in {"locking", "locked", "dialing", "opening", "invalidating",
                           "streaming", "waiting"}
             /\ Hold(r, None)
             /\ Unlock(r)
             /\ Goto(r, "ended")
             /\ UNCHANGED <<again, cached, link, daemon, failed>>

-----------------------------------------------------------------------------
(* quinn and the network *)

\* The last handle of a connection is dropped: it closes.
HandleDropped(c) == /\ link[c] # "closed" /\ cached # c
                    /\ \A r \in Request : conn[r] # c
                    /\ link' = [link EXCEPT ![c] = "closed"]
                    /\ UNCHANGED <<client, daemon, failed>>

\* The box's end times out or is told of an error.
LinkLost(c) == /\ link[c] # "closed"
               /\ link' = [link EXCEPT ![c] = "closed"]
               /\ failed' = failed \cup {c}
               /\ UNCHANGED <<client, daemon>>

-----------------------------------------------------------------------------
(* quic_accept_loop and handle_quic_connection *)

\* endpoint.accept: the loop takes one connection and waits for its permit.
AcceptIncoming(c) == /\ server[c] = "incoming"
                     /\ \A d \in Connection : server[d] # "waiting"
                     /\ server' = [server EXCEPT ![c] = "waiting"]
                     /\ UNCHANGED <<client, link, permits, serve, stream, up, failed>>

AcquirePermit(c) == /\ server[c] = "waiting" /\ permits > 0
                    /\ permits' = permits - 1
                    /\ server' = [server EXCEPT ![c] = "handshaking"]
                    /\ UNCHANGED <<client, link, serve, stream, up, failed>>

HandshakeDone(c) == /\ server[c] = "handshaking" /\ link[c] = "dialing"
                    /\ server' = [server EXCEPT ![c] = "serving"]
                    /\ link' = [link EXCEPT ![c] = "open"]
                    /\ UNCHANGED <<client, permits, serve, stream, up, failed>>

\* A failed handshake that returns without its permit.
HandshakeFailsLeaking(c) == /\ server[c] = "handshaking"
                            /\ server' = [server EXCEPT ![c] = "none"]
                            /\ UNCHANGED <<client, link, permits, serve, stream, up, failed>>

\* incoming.await fails: the task returns and drops its permit.
HandshakeFails(c) == /\ server[c] = "handshaking"
                     /\ server' = [server EXCEPT ![c] = "none"]
                     /\ permits' = permits + 1
                     /\ UNCHANGED <<client, link, serve, stream, up, failed>>

\* accept_bi fails: the box closed, or the connection idled out.  The session
\* tasks of its streams are detached and go on.
ConnectionEnds(c) == /\ server[c] = "serving"
                     /\ server' = [server EXCEPT ![c] = "none"]
                     /\ permits' = permits + 1
                     /\ UNCHANGED <<client, link, serve, stream, up, failed>>

-----------------------------------------------------------------------------
(* serve: authentication at the start of a session *)

ServeGoto(r, l) == /\ serve' = [serve EXCEPT ![r] = l]
                   /\ UNCHANGED <<client, link, server, permits, stream, up, failed>>

\* authenticate and resolve: Ack or InitError.
Authenticate(r) == serve[r] = "init" /\ (ServeGoto(r, "serving") \/ ServeGoto(r, "rejected"))

\* The session task sees the end of its stream, at the latest after a call.
ServeEnds(r) == /\ serve[r] # "none"
                /\ at[r] \in {"failed", "ended"} \/ server[stream[r]] = "none"
                /\ serve' = [serve EXCEPT ![r] = "none"]
                /\ stream' = [stream EXCEPT ![r] = None]
                /\ UNCHANGED <<client, link, server, permits, up, failed>>

\* run_listeners returns (signal, or a failing UDS accept) or the process dies.
DaemonStops == /\ up
               /\ up' = FALSE
               /\ server' = [c \in Connection |-> "none"]
               /\ serve' = [r \in Request |-> "none"]
               /\ stream' = [r \in Request |-> None]
               /\ permits' = MaxConnections
               /\ UNCHANGED <<client, link, failed>>

\* main: a new process.
DaemonStarts == /\ ~up
                /\ up' = TRUE
                /\ UNCHANGED <<client, link, server, permits, serve, stream, failed>>

Box(r) == \/ \E c \in Connection : Dial(r, c)
          \/ Reuse(r) \/ LookupFails(r) \/ DialFails(r) \/ Dialed(r) \/ NoReplica(r)
          \/ OpenFails(r) \/ SendInit(r) \/ Acked(r) \/ HandshakeRefused(r) \/ EndSession(r)
Contend(r) == Lock(r) \/ Invalidate(r) \/ OpenBi(r)
SessionTask(r) == Authenticate(r) \/ ServeEnds(r)
Listener(c) == \/ AcceptIncoming(c) \/ AcquirePermit(c) \/ HandshakeDone(c)
               \/ HandshakeFails(c) \/ ConnectionEnds(c)

Next == \/ \E r \in Request : ReadToken(r) \/ Contend(r) \/ Box(r) \/ Cancel(r) \/ SessionTask(r)
        \/ \E c \in Connection : HandleDropped(c) \/ LinkLost(c) \/ Listener(c)
        \/ DaemonStops \/ DaemonStarts

Spec == Init /\ [][Next]_vars

\* A dial, or a connection whose peer is gone, times out (IDLE_TIMEOUT).
TimesOut(c) == (link[c] = "dialing" \/ server[c] = "none") /\ LinkLost(c)

\* Tasks are scheduled; the async mutex and the stream credits are handed out
\* fairly (tokio and quinn queue their waiters); executions end, and a daemon
\* that runs goes through its handshakes and answers Init.  Nothing is assumed
\* of the network, of a daemon that is down, or of a handshake's success.
Fairness == /\ \A r \in Request : /\ WF_vars(Box(r))
                                  /\ SF_vars(Contend(r))
                                  /\ WF_vars(SessionTask(r))
            /\ \A c \in Connection : /\ WF_vars(HandleDropped(c) \/ TimesOut(c))
                                     /\ WF_vars(link[c] # "open" /\ Listener(c))

FairSpec == Spec /\ Fairness

-----------------------------------------------------------------------------
(* Properties *)

TypeOK == /\ at \in [Request -> At]
          /\ conn \in [Request -> Connection \cup {None}]
          /\ dialed \in [Request -> 0 .. Addresses]
          /\ again \subseteq Request
          /\ lock \in Request \cup {None}
          /\ cached \in Connection \cup {None}
          /\ link \in [Connection -> {"closed", "dialing", "open"}]
          /\ server \in [Connection -> Server]
          /\ permits \in 0 .. MaxConnections
          /\ serve \in [Request -> Serve]
          /\ stream \in [Request -> Connection \cup {None}]
          /\ up \in BOOLEAN
          /\ failed \subseteq Connection

Admitted == {c \in Connection : server[c] \in {"handshaking", "serving"}}

\* A connection slot of the daemon is taken by exactly one connection between its
\* admission and its end, whether the handshake succeeds, fails or is abandoned:
\* none leaks, and max_connections is never exceeded.
ConnectionSlots == permits + Cardinality(Admitted) = MaxConnections

\* The mutex of the cached connection is held only by a request that is between
\* locking it and leaving live_connection; no error, failover or cancellation
\* leaves it locked.
LockHeld == lock # None => at[lock] \in {"locked", "dialing"}

\* A session loses its connection only by a failure of the network or the
\* daemon, never because another request found the cached connection stale and
\* dropped it: the cache is not the owner of the connections.
NotCutByOthers == \A r \in Request :
  at[r] = "session" /\ link[conn[r]] = "closed" => conn[r] \in failed

\* A request that begins to open a session gets it or an error: the lock held
\* across failover, lost connections and cancelled holders do not strand it.
RequestsEnd == \A r \in Request :
  at[r] = "locking" ~> at[r] \in {"session", "failed", "ended"}
=============================================================================
