------------------------------ MODULE Backends ------------------------------
(***************************************************************************)
(* The calls of one session on its BackendSet (fabric-backends/src/         *)
(* backendset.rs) down to the systems behind it: the Postgres connection of   *)
(* db.rs with its transaction, and mongo.rs, kv.rs, mail.rs, auth.rs and       *)
(* amq.rs.  The session's thread makes one call at a time; what a call has    *)
(* put on the wire may take effect after the call has given up on it.        *)
(*                                                                         *)
(* A payload is "good", "malformed" (the BackendSet cannot unpack it) or     *)
(* "invalid" (the backend's own checks refuse it).  SQL text, documents,     *)
(* addresses and claims are left out.  The size of a call is the number of rows    *)
(* a read finds, of messages in a batch or of recipients of a mail.            *)
(***************************************************************************)
EXTENDS Integers, Sequences, FiniteSets

CONSTANTS Scripts,    \* the scripts: sequences of calls [cap, act, size, payload]
          Configured, \* the capabilities the session's names resolved to
          MaxCalls,   \* engine limit on egress calls of one execution
          MaxBatch,   \* AmqConfig::max_batch
          MaxRows,    \* DbConfig::max_rows and MongoConfig::max_docs
          MaxRecipients, \* MailConfig::max_recipients
          MaxSends,   \* MailConfig::max_sends, 0 for no limit
          Explicit    \* auth calls whose endpoint is in AuthConfig: userinfo_url, introspect_url

Cap == {"db", "mongo", "mail", "redis", "amq", "auth"}
Lazy == Cap \ {"amq"}
AuthAct == {"user_info", "introspect"}
Act == {"query", "execute", "begin", "commit", "rollback", \* db
        "find", "write",                                   \* mongo
        "send", "request",                                 \* mail, amq
        "user_info", "introspect",                         \* auth: AuthAct
        "op"}                                              \* redis, and no capability

ASSUME ScriptsAssumption ==
  \A s \in Scripts : /\ s \in Seq([cap : Cap \cup {"other"}, act : Act, size : Nat,
                                  payload : {"good", "malformed", "invalid"}])
                     /\ Len(s) <= MaxCalls
ASSUME BoundAssumption == /\ MaxCalls \in Nat /\ MaxBatch \in Nat /\ MaxRows \in Nat
                          /\ MaxRecipients \in Nat /\ MaxSends \in Nat
ASSUME ConfiguredAssumption == Configured \subseteq Cap /\ Explicit \subseteq AuthAct

VARIABLES
  calls,      \* the calls made, each with what the script got from it
  at,         \* where the session's thread is in the last of them
  slot,       \* per lazy capability, its OnceLock
  expired,    \* backends (db, mongo) whose deadline has passed
  metered,    \* per call, metrics recorded for it
  reply,      \* an answer on its way to the call under way
  flying,     \* calls under way at mongo, redis, mail, auth or as a NATS request
  performed,  \* calls these have carried out
  discovered, \* AuthState::discovery is memoized
  endpoints,  \* the auth calls it has an endpoint for
  broker,     \* AmqConfig::backend
  published,  \* per call, messages given to the client's connection to the broker
  taken,      \* per call, messages of these the broker has taken
  refused,    \* calls whose other messages it refused, or lost with the connection
  link,       \* the Postgres connection
  wire,       \* messages on it the server has not taken, in order
  tx,         \* the server session's transaction
  block,      \* writes in it
  saved       \* writes committed

thread == <<calls, at, metered>>
oidc == <<discovered, endpoints>>
amq == <<broker, published, taken, refused>>
remote == <<flying, performed, oidc, amq>>
server == <<tx, block, saved>>
vars == <<thread, slot, expired, reply, remote, link, wire, server>>

At == {"idle", "slot", "prepare", "run", "simple", "waiting", "discovering",
       "publishing", "closed"}
Got == {"pending", "ok", "error", "timeout", "invalid", "refused"}
Id == 1..MaxCalls

Init == /\ calls = <<>> /\ at = "idle"
        /\ slot = [c \in Lazy |-> "unset"]
        /\ expired = {}
        /\ metered = [i \in Id |-> 0]
        /\ reply = "none"
        /\ flying = {} /\ performed = {}
        /\ discovered = FALSE /\ endpoints = {}
        /\ broker \in {"rabbitmq", "nats"}
        /\ published = [i \in Id |-> 0] /\ taken = [i \in Id |-> 0] /\ refused = {}
        /\ link = "none" /\ wire = <<>>
        /\ tx = "idle" /\ block = {} /\ saved = {}

Cur == Len(calls)
Op == calls[Cur]

\* sandbox::record: whatever came of it, the call is one metric.
RecordOk(got) == metered' = [metered EXCEPT ![Cur] = IF got = "ok" THEN @ + 1 ELSE @]
Record(got) == metered' = [metered EXCEPT ![Cur] = @ + 1]

\* What a read hands the script of the n rows there are, and whether it says that some
\* are missing.
Rows(n) == [rows |-> IF n > MaxRows THEN MaxRows ELSE n, truncated |-> n > MaxRows]

\* drain_cursor: the row after the last that fits is what shows there are more.
Drained(n) == [rows |-> IF n >= MaxRows THEN MaxRows ELSE n,
               truncated |-> \E k \in 1..n : k - 1 >= MaxRows]

Result(got) == CASE got = "ok" /\ Op.act = "query" -> Rows(Op.size)
                 [] got = "ok" /\ Op.act = "find" -> Drained(Op.size)
                 [] OTHER -> [rows |-> 0, truncated |-> FALSE]

Return(got) == /\ calls' = [calls EXCEPT ![Cur].got = got, ![Cur].result = Result(got)]
               /\ at' = "idle"
               /\ reply' = "none"

\* An error from the BackendSet itself, or from a check ahead of the record.
Refuse == Return("refused") /\ UNCHANGED metered

\* The end of a backend's call, after its dispatch.
Finish(got) == Return(got) /\ Record(got)

-----------------------------------------------------------------------------
(* BackendSet *)

\* A call and what came of it.
Entry(o, got, result) == [cap |-> o.cap, act |-> o.act, size |-> o.size, payload |-> o.payload,
                  got |-> got, result |-> result]

\* Egress::call, for the next call of a script that made those before it.
Call(s) ==
  /\ at = "idle" /\ Cur < Len(s)
  /\ \A i \in 1..Cur : calls[i] = Entry(s[i], calls[i].got, calls[i].result)
  /\ calls' = Append(calls, Entry(s[Cur + 1], "pending",
                                 [rows |-> 0, truncated |-> FALSE]))
  /\ at' = "slot"
  /\ UNCHANGED <<metered, slot, expired, reply, remote, link, wire, server>>

NotConfigured ==
  /\ at = "slot" /\ Op.cap \notin Configured
  /\ Refuse
  /\ UNCHANGED <<slot, expired, remote, link, wire, server>>

\* get_or_init, the first time: the backend is kept, or the error.
Opens(c) ==
  /\ at = "slot" /\ Op.cap = c /\ c \in Configured /\ slot[c] = "unset"
  /\ \E s \in {"open", "failed"} :
       /\ slot' = [slot EXCEPT ![c] = s]
       /\ link' = IF c = "db" /\ s = "open" THEN "up" ELSE link
  /\ UNCHANGED <<thread, expired, reply, remote, wire, server>>

\* db (through the breaker, then SET statement_timeout) and redis connect; mongo, mail and
\* auth only build a client.
DbConnect == Opens("db")
RedisConnect == Opens("redis")
MongoConnect == Opens("mongo")
MailConnect == Opens("mail")
AuthConnect == Opens("auth")

ConnectFailed ==
  /\ at = "slot" /\ Op.cap \in Configured \cap Lazy /\ slot[Op.cap] = "failed"
  /\ Refuse
  /\ UNCHANGED <<slot, expired, remote, link, wire, server>>

\* The backend of the call under way is there.
Ready(c) == at = "slot" /\ Op.cap = c /\ c \in Configured
            /\ (c \in Lazy => slot[c] = "open")

\* parse_db_payload, parse_mongo_payload, parse_auth_token; the other payloads are
\* parsed by the backend.
Unpacks == {"db", "mongo", "auth"}

BadPayload ==
  /\ \E c \in Unpacks : Ready(c)
  /\ Op.payload = "malformed"
  /\ Refuse
  /\ UNCHANGED <<slot, expired, remote, link, wire, server>>

\* The checks of each backend ahead of any I/O: known actions with parameters that parse,
DbValid == Op.payload = "good"
MongoValid == Op.payload = "good"
RedisValid == Op.payload = "good"
\* client credentials for introspect,
AuthValid == Op.payload = "good"
\* recipients, not too many of them, in the domains that are allowed,
MailValid == Op.payload = "good" /\ Op.size \in 1..MaxRecipients
\* a batch within the limit, or a request on NATS.
AmqValid == /\ Op.payload = "good"
            /\ Op.act = "send" => Op.size \in 1..MaxBatch
            /\ Op.act = "request" => broker = "nats"

Valid(c) == CASE c = "db" -> DbValid [] c = "mongo" -> MongoValid
              [] c = "redis" -> RedisValid [] c = "auth" -> AuthValid
              [] c = "mail" -> MailValid [] c = "amq" -> AmqValid

\* MailBackend::call: metrics recorded so far stand for the sends made.
MailMetrics == {i \in DOMAIN calls : calls[i].cap = "mail" /\ metered[i] > 0}
CappedLate == MaxSends # 0 /\ Cardinality(MailMetrics) > MaxSends
Capped == MaxSends # 0 /\ Cardinality(MailMetrics) >= MaxSends

MailLimit ==
  /\ Ready("mail") /\ Capped
  /\ Refuse
  /\ UNCHANGED <<slot, expired, remote, link, wire, server>>

Invalid ==
  /\ \E c \in Cap : /\ Ready(c) /\ ~Valid(c)
                    /\ (c = "mail" => ~Capped)
                    /\ (c \in Unpacks => Op.payload # "malformed")
  /\ Finish("invalid")
  /\ UNCHANGED <<slot, expired, remote, link, wire, server>>

-----------------------------------------------------------------------------
(* db.  A client whose connection is gone sends nothing. *)

CommandSwapped(act) == CASE act = "begin" -> "BEGIN"
                         [] act \in {"commit", "rollback"} -> "COMMIT"
                         [] OTHER -> "PREPARE"
Command(act) == CASE act = "begin" -> "BEGIN"
                  [] act = "commit" -> "COMMIT"
                  [] act = "rollback" -> "ROLLBACK"
                  [] OTHER -> "PREPARE"

Send(cmd) == wire' = Append(wire, [id |-> Cur, cmd |-> cmd])

\* do_query, do_execute (prepare, then run) and do_simple.  block_on_db polls the
\* future before it looks at the clock: the first message goes out even when
\* the deadline has passed.
DbDispatch ==
  /\ Ready("db") /\ DbValid
  /\ IF link = "up"
       THEN /\ Send(Command(Op.act))
            /\ at' = IF Op.act \in {"query", "execute"} THEN "prepare" ELSE "simple"
            /\ UNCHANGED <<calls, metered, reply>>
       ELSE Finish("error") /\ UNCHANGED wire
  /\ UNCHANGED <<slot, expired, remote, link, server>>

\* The statement is prepared and is run.
DbPrepared ==
  /\ at = "prepare" /\ reply = "ok"
  /\ reply' = "none"
  /\ at' = "run"
  /\ Send("RUN")
  /\ UNCHANGED <<calls, metered, slot, expired, remote, link, server>>

\* An error, or the result of the run.
DbAnswered ==
  /\ at \in {"prepare", "run", "simple"} /\ reply # "none"
  /\ reply = "ok" => at # "prepare"
  /\ Finish(reply)
  /\ UNCHANGED <<slot, expired, remote, link, wire, server>>

\* block_on_db drops the future; what it has sent stays sent.
DbElapsed ==
  /\ at \in {"prepare", "run", "simple"} /\ "db" \in expired
  /\ Finish("timeout")
  /\ UNCHANGED <<slot, expired, remote, link, wire, server>>

\* The connection's driver has ended; the client's futures fail.
DbLost ==
  /\ at \in {"prepare", "run", "simple"} /\ link = "down"
  /\ Finish("error")
  /\ UNCHANGED <<slot, expired, remote, link, wire, server>>

\* The deadline of db and of mongo runs from the connect.
Expire(c) ==
  /\ c \in {"db", "mongo"} /\ slot[c] = "open" /\ c \notin expired
  /\ expired' = expired \cup {c}
  /\ UNCHANGED <<thread, slot, reply, remote, link, wire, server>>

-----------------------------------------------------------------------------
(* Postgres *)

After(ok, t, b, s) == [ok |-> ok, tx |-> t, block |-> b, saved |-> s]

\* A statement that fails fails the transaction it is in.
Failure == After(FALSE, IF tx = "idle" THEN "idle" ELSE "failed", block, saved)

\* What the server may make of a message: in a failed transaction only its end
\* succeeds, and a COMMIT of it is a rollback that is answered as a success.
Outcomes(m) ==
  CASE m.cmd = "BEGIN" -> IF tx = "failed" THEN {Failure}
                          ELSE {After(TRUE, "open", block, saved)}
    [] m.cmd = "COMMIT" -> IF tx = "failed" THEN {After(TRUE, "idle", {}, saved)}
                           ELSE {After(TRUE, "idle", {}, saved \cup block),
                                 After(FALSE, "idle", {}, saved)}
    [] m.cmd = "ROLLBACK" -> {After(TRUE, "idle", {}, saved)}
    [] m.cmd = "PREPARE" -> {Failure} \cup IF tx = "failed" THEN {}
                                           ELSE {After(TRUE, tx, block, saved)}
    [] m.cmd = "RUN" ->
         LET w == {i \in {m.id} : calls[i].act = "execute"} IN
           {Failure} \cup CASE tx = "failed" -> {}
                            [] tx = "open" -> {After(TRUE, tx, block \cup w, saved)}
                            [] tx = "idle" -> {After(TRUE, tx, block, saved \cup w)}

\* The reply to a future that was dropped is dropped too.
ServerTakes ==
  /\ wire # <<>>
  /\ wire' = Tail(wire)
  /\ \E o \in Outcomes(Head(wire)) :
       /\ tx' = o.tx /\ block' = o.block /\ saved' = o.saved
       /\ reply' = IF link = "up" /\ Head(wire).id = Cur
                      /\ at \in {"prepare", "run", "simple"}
                    THEN IF o.ok THEN "ok" ELSE "error"
                    ELSE reply
  /\ UNCHANGED <<thread, slot, expired, remote, link>>

LinkBreaks ==
  /\ link = "up"
  /\ link' = "down"
  /\ reply' = IF at \in {"prepare", "run", "simple"} THEN "none" ELSE reply
  /\ UNCHANGED <<thread, slot, expired, remote, wire, server>>

\* The server session ends: the client terminated it once its queue was sent, or
\* the connection broke with messages the server never got.
ServerEnds ==
  /\ link = "down" \/ (link = "up" /\ at = "closed" /\ wire = <<>>)
  /\ link' = "ended"
  /\ wire' = <<>>
  /\ tx' = "idle" /\ block' = {}
  /\ UNCHANGED <<thread, slot, expired, reply, remote, saved>>

-----------------------------------------------------------------------------
(* mongo, redis, mail, auth, and the request of amq: one request, one answer *)

Request ==
  /\ at' = "waiting"
  /\ flying' = flying \cup {Cur}
  /\ UNCHANGED <<calls, metered, slot, expired, reply, performed, oidc, amq, link, wire, server>>

MongoRead == Ready("mongo") /\ Op.act = "find" /\ MongoValid /\ Request
MongoWrite == Ready("mongo") /\ Op.act = "write" /\ MongoValid /\ Request
RedisDispatch == Ready("redis") /\ RedisValid /\ Request
MailDispatch == Ready("mail") /\ ~Capped /\ MailValid /\ Request
AmqRequest == Ready("amq") /\ Op.act = "request" /\ AmqValid /\ Request

\* resolve_userinfo, resolve_introspect: the URL of the configuration, or discovery.
AuthDispatch ==
  /\ Ready("auth") /\ AuthValid
  /\ IF Op.act \in Explicit THEN Request
     ELSE /\ at' = "discovering"
          /\ UNCHANGED <<calls, metered, slot, expired, reply, remote, link, wire, server>>

\* AuthState::discover: what the issuer's document names is memoized.
Discovers ==
  /\ at = "discovering" /\ ~discovered
  /\ discovered' = TRUE
  /\ endpoints' \in SUBSET AuthAct
  /\ UNCHANGED <<thread, slot, expired, reply, flying, performed, amq, link, wire, server>>

DiscoveryFails ==
  /\ at = "discovering" /\ ~discovered
  /\ Finish("error")
  /\ UNCHANGED <<slot, expired, remote, link, wire, server>>

\* The memoized document names the endpoint,
Resolved == at = "discovering" /\ discovered /\ Op.act \in endpoints /\ Request

\* or it does not.
NoEndpoint ==
  /\ at = "discovering" /\ discovered /\ Op.act \notin endpoints
  /\ Finish("error")
  /\ UNCHANGED <<slot, expired, remote, link, wire, server>>

Waiting(i) == at = "waiting" /\ i = Cur

\* The answer to a call that was given up reaches nobody: its future was dropped or its
\* connection closed; on redis' connection, which is used again, the client skips it.
RemotePerforms(i) ==
  /\ i \in flying
  /\ flying' = flying \ {i}
  /\ performed' = performed \cup {i}
  /\ reply' \in IF ~Waiting(i) THEN {reply}
                 ELSE {"ok"} \cup {r \in {"denied"} : Op.cap = "auth"}
  /\ UNCHANGED <<thread, slot, expired, oidc, amq, link, wire, server>>

RemoteFails(i) ==
  /\ i \in flying
  /\ flying' = flying \ {i}
  /\ reply' = IF Waiting(i) THEN "error" ELSE reply
  /\ UNCHANGED <<thread, slot, expired, performed, oidc, amq, link, wire, server>>

\* do_user_info: that the token is no good is an answer; to do_introspect, whose caller is
\* the operator's client, it is a failure.
AuthResult(act, r) == IF r # "denied" THEN r
                      ELSE IF act = "user_info" THEN "ok" ELSE "error"

RemoteAnswered ==
  /\ at = "waiting" /\ reply # "none"
  /\ Finish(AuthResult(Op.act, reply))
  /\ UNCHANGED <<slot, expired, remote, link, wire, server>>

\* The clients that give up by themselves: redis' read and write timeout, the SMTP
\* transport's, the HTTP client's, async_nats' request timeout.
TimedNoMail == {"redis", "auth", "amq"}
Timed == {"redis", "mail", "auth", "amq"}

RemoteTimesOut ==
  /\ at = "waiting" \/ (at = "discovering" /\ ~discovered)
  /\ Op.cap \in Timed
  /\ Finish("timeout")
  /\ UNCHANGED <<slot, expired, remote, link, wire, server>>

\* dispatch of mongo drops the future at the deadline.
MongoElapsed ==
  /\ at = "waiting" /\ Op.cap = "mongo" /\ "mongo" \in expired
  /\ Finish("timeout")
  /\ UNCHANGED <<slot, expired, remote, link, wire, server>>

-----------------------------------------------------------------------------
(* The send of amq: a connection of its own, the messages one by one *)

AmqSend ==
  /\ Ready("amq") /\ Op.act = "send" /\ AmqValid
  /\ at' = "publishing"
  /\ UNCHANGED <<calls, metered, slot, expired, reply, remote, link, wire, server>>

Publish ==
  /\ at = "publishing" /\ published[Cur] < Op.size
  /\ published' = [published EXCEPT ![Cur] = @ + 1]
  /\ UNCHANGED <<thread, slot, expired, reply, flying, performed, oidc, broker, taken, refused,
                 link, wire, server>>

\* The broker, a message at a time; it refuses the rest by closing the channel (an exchange
\* it does not have, no right to it), or the connection breaks.
BrokerTakes(i) ==
  /\ i \notin refused /\ taken[i] < published[i]
  /\ taken' = [taken EXCEPT ![i] = @ + 1]
  /\ UNCHANGED <<thread, slot, expired, reply, flying, performed, oidc, broker, published, refused,
                 link, wire, server>>

BrokerRefuses(i) ==
  /\ i \notin refused /\ taken[i] < published[i]
  /\ refused' = refused \cup {i}
  /\ UNCHANGED <<thread, slot, expired, reply, flying, performed, oidc, broker, published, taken,
                 link, wire, server>>

\* connect, a publish or NATS' final flush fails: the messages before it are out.
PublishFailsQuietly ==
  /\ at = "publishing"
  /\ Finish(IF published[Cur] = 0 THEN "error" ELSE "ok")
  /\ UNCHANGED <<slot, expired, remote, link, wire, server>>
PublishFails ==
  /\ at = "publishing"
  /\ Finish("error")
  /\ UNCHANGED <<slot, expired, remote, link, wire, server>>

\* publish_batch closes the channel, which waits until the broker has dealt with all of it,
\* and drops what that says; nats_publish flushes what it has to the connection.
Published ==
  /\ at = "publishing" /\ published[Cur] = Op.size
  /\ broker = "rabbitmq" => taken[Cur] = Op.size \/ Cur \in refused
  /\ Finish("ok")
  /\ UNCHANGED <<slot, expired, remote, link, wire, server>>

-----------------------------------------------------------------------------
\* The session is over; the BackendSet is dropped.
End ==
  /\ at = "idle"
  /\ at' = "closed"
  /\ UNCHANGED <<calls, metered, slot, expired, reply, remote, link, wire, server>>

ThreadStep == \/ NotConfigured \/ MongoConnect \/ MailConnect \/ AuthConnect
              \/ ConnectFailed \/ BadPayload \/ MailLimit \/ Invalid
              \/ DbDispatch \/ DbPrepared \/ DbAnswered \/ DbElapsed \/ DbLost
              \/ MongoRead \/ MongoWrite \/ RedisDispatch \/ MailDispatch \/ AmqRequest
              \/ AuthDispatch \/ Resolved \/ NoEndpoint
              \/ RemoteAnswered \/ RemoteTimesOut \/ MongoElapsed

Environment == \/ ServerTakes \/ LinkBreaks \/ ServerEnds
               \/ Discovers \/ DiscoveryFails
               \/ \E i \in Id : \/ RemotePerforms(i) \/ RemoteFails(i)
                                 \/ BrokerTakes(i) \/ BrokerRefuses(i)

Next == \/ \E s \in Scripts : Call(s)
        \/ DbConnect \/ RedisConnect \/ ThreadStep \/ Environment
        \/ AmqSend \/ Publish \/ PublishFails \/ Published
        \/ \E c \in {"db", "mongo"} : Expire(c)
        \/ End

Spec == Init /\ [][Next]_vars

\* The thread runs and the clocks tick.  No system behind a backend is fair: it may
\* never answer, and neither connecting to db or redis nor amq's send has a time limit.
Fairness == /\ WF_vars(ThreadStep)
            /\ \A c \in {"db", "mongo"} : WF_vars(Expire(c))

FairSpec == Spec /\ Fairness

-----------------------------------------------------------------------------
(* Properties *)

TypeOK ==
  /\ calls \in Seq([cap : Cap \cup {"other"}, act : Act, size : Nat,
                     payload : {"good", "malformed", "invalid"}, got : Got,
                     result : [rows : Nat, truncated : BOOLEAN]])
  /\ Cur \in 0..MaxCalls
  /\ at \in At
  /\ slot \in [Lazy -> {"unset", "open", "failed"}]
  /\ expired \subseteq {"db", "mongo"}
  /\ metered \in [Id -> Nat]
  /\ reply \in {"none", "ok", "error", "denied"}
  /\ flying \subseteq Id /\ performed \subseteq Id
  /\ discovered \in BOOLEAN /\ endpoints \subseteq AuthAct
  /\ broker \in {"rabbitmq", "nats"}
  /\ published \in [Id -> Nat] /\ taken \in [Id -> Nat] /\ refused \subseteq Id
  /\ link \in {"none", "up", "down", "ended"}
  /\ wire \in Seq([id : Id, cmd : {"BEGIN", "COMMIT", "ROLLBACK", "PREPARE", "RUN"}])
  /\ tx \in {"idle", "open", "failed"}
  /\ block \subseteq Id /\ saved \subseteq Id

Made == DOMAIN calls
Db(i, acts) == calls[i].cap = "db" /\ calls[i].act \in acts /\ calls[i].got # "refused"
                 /\ calls[i].got # "invalid"
Between(i, j) == {k \in Made : i < k /\ k < j}

\* The script opened a block at i that is still open at j: begin succeeded, and it
\* asked for no end of it since.
OpenFrom(i, j) == /\ i \in Made /\ i < j /\ Db(i, {"begin"}) /\ calls[i].got = "ok"
                  /\ \A k \in Between(i, j) : ~Db(k, {"commit", "rollback"})
InBlock(j) == \E i \in Made : OpenFrom(i, j)

\* A write made inside a block is never saved unless the script asked for that
\* block's commit, before any rollback: not by a timeout, a lost connection, the end of
\* the session or a message that is processed late.
TransactionsAreHeld ==
  \A w \in saved : InBlock(w) =>
    \E k \in Made : /\ w < k /\ Db(k, {"commit"})
                    /\ \A j \in Between(w, k) : ~Db(j, {"rollback"})

\* Everything a call did, or got under way, outside the session.
Effect(i) == \/ i \in flying \cup performed \cup saved \cup block
             \/ published[i] > 0
             \/ \E k \in DOMAIN wire : wire[k].id = i

\* A success is what the call says: a write outside a block is saved, the mail is with the
\* relay, a read has all the rows there are or says that it has not, and after a commit every
\* write of a block in which nothing failed is saved.  Of a batch it says less: every message
\* was handed to the client's connection and, for RabbitMQ, the broker has dealt with it, by
\* taking all of it or by refusing some, which publish_batch does not look at.
Done(i) ==
  /\ calls[i].cap = "amq" /\ calls[i].act = "send" =>
       /\ published[i] = calls[i].size
       /\ broker = "rabbitmq" => taken[i] = calls[i].size \/ i \in refused
  /\ calls[i].act \in {"query", "find"} =>
       /\ calls[i].result.rows <= MaxRows
       /\ calls[i].result.truncated <=> (calls[i].result.rows < calls[i].size)
  /\ calls[i].cap \notin {"db", "amq"} => i \in performed
  /\ Db(i, {"execute"}) /\ ~(\E b \in Made : b < i /\ Db(b, {"begin"})) => i \in saved
  /\ Db(i, {"commit"}) =>
       \A b \in Made :
         OpenFrom(b, i) /\ (\A k \in Between(b, i) : calls[k].cap = "db" => calls[k].got = "ok")
           => \A w \in Between(b, i) : Db(w, {"execute"}) => w \in saved

\* What the script is told of a call is true of the systems behind the session: success
\* means that the call is done, as far as Done says, and a call that was refused before it
\* was tried has no effect, then or later.
AnswersAreTrue ==
  \A i \in Made : /\ calls[i].got = "ok" => Done(i)
                  /\ calls[i].got \in {"refused", "invalid"} => ~Effect(i)

\* max_sends bounds what the relay can get, also when its answers are lost and sends
\* that timed out are carried out later.
SendsBounded ==
  MaxSends # 0 =>
    Cardinality({i \in flying \cup performed : calls[i].cap = "mail"}) <= MaxSends

\* Every call with an effect is in the metrics once it has returned, exactly once, also
\* when it failed or timed out: what the response reports leaves no effect out.
EffectsMetered ==
  \A i \in Made : /\ metered[i] <= 1
                  /\ Effect(i) /\ calls[i].got # "pending" => metered[i] = 1

\* A call on a backend that is connected, or only has to be built, returns even if the
\* system behind it never answers: at the deadline for db and mongo, by the client's own
\* timeout otherwise.
CallsEnd ==
  \A i \in Id :
    (/\ i = Cur /\ at \notin {"idle", "closed"} /\ Op.cap \in Lazy
     /\ slot[Op.cap] = "open" \/ Op.cap \notin {"db", "redis"})
      ~> (i # Cur \/ at \in {"idle", "closed"})

=============================================================================
