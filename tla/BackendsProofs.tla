--------------------------- MODULE BackendsProofs ---------------------------
(***************************************************************************)
(* Backends: what the calls of a session do to the systems behind it, for     *)
(* every set of scripts and every limit.                                     *)
(*                                                                         *)
(* Every step is first put in one of a few classes by what it changes           *)
(* (StepClass): most of the forty actions end the call under way, or leave       *)
(* the Postgres connection alone.  The part of the invariant about that         *)
(* connection then has one lemma for every class that touches it, and one for   *)
(* all the others.                                                           *)
(***************************************************************************)
EXTENDS Backends, TLAPS, SequenceTheorems, FiniteSetTheorems

USE DEF oidc, amq

DbStage == {"prepare", "run", "simple"}
Stopped == {"idle", "closed"}

CallRec == [cap : Cap \cup {"other"}, act : Act, size : Nat,
            payload : {"good", "malformed", "invalid"}, got : Got,
            result : [rows : Nat, truncated : BOOLEAN]]
MsgRec == [id : Id, cmd : {"BEGIN", "COMMIT", "ROLLBACK", "PREPARE", "RUN"}]

\* The call was handed to its backend and passed the backend's own checks.
Tried(i) == /\ i \in Made
            /\ calls[i].got \notin {"refused", "invalid"}
            /\ ~(i = Cur /\ at \in {"slot", "discovering"})
Asked(i) == Tried(i) /\ calls[i].cap = "db"

OnWire(i) == \E p \in DOMAIN wire : wire[p].id = i

-----------------------------------------------------------------------------
(* The inductive invariant: the thread and the metrics *)

\* One call at a time, and where the thread is says what kind of call it makes.
OneCall ==
  /\ \A i \in Made : calls[i].got = "pending" <=> i = Cur /\ at \notin Stopped
  /\ at \notin Stopped => Cur \in Made
  /\ at \in DbStage => Op.cap = "db"
  /\ at \in {"prepare", "run"} => Op.act \in {"query", "execute"}
  /\ at = "simple" => Op.act \notin {"query", "execute"}
  /\ at = "discovering" => Op.cap = "auth"
  /\ at = "waiting" => Op.cap # "db" /\ (Op.cap = "amq" => Op.act = "request")
  /\ at = "publishing" => Op.cap = "amq" /\ Op.act = "send"

\* A call is in the metrics once it has returned, unless the BackendSet refused it.
MetersOnce ==
  \A i \in Id : metered[i] = IF i \in Made /\ calls[i].got \notin {"pending", "refused"}
                             THEN 1 ELSE 0

-----------------------------------------------------------------------------
(* The inductive invariant: mongo, redis, mail, auth and amq *)

RemoteEffects ==
  /\ at \notin DbStage \cup {"waiting"} => reply = "none"
  /\ at = "waiting" /\ reply \in {"ok", "denied"} => Cur \in performed
  /\ \A i \in flying \cup performed : Tried(i) /\ calls[i].cap # "db"
  /\ \A i \in Id : published[i] > 0 => Tried(i) /\ calls[i].cap = "amq"

-----------------------------------------------------------------------------
(* The inductive invariant: the Postgres connection *)

\* Nothing was asked of a database that is not connected.
Connection ==
  /\ slot["db"] = "open" => link # "none"
  /\ slot["db"] # "open" => link = "none" /\ tx = "idle" /\ \A i \in Made : ~Asked(i)

\* The messages on the wire: in the order of their calls, one for each, after every call
\* that was answered and every write in the transaction.
WireOrder ==
  /\ \A p, q \in DOMAIN wire : p < q => wire[p].id < wire[q].id
  /\ \A p \in DOMAIN wire :
       /\ Asked(wire[p].id)
       /\ wire[p].cmd = "RUN" \/ wire[p].cmd = Command(calls[wire[p].id].act)
       /\ wire[p].cmd = "RUN" => calls[wire[p].id].act \in {"query", "execute"}
       /\ wire[p].id = Cur /\ at \in {"prepare", "simple"} => wire[p].cmd # "RUN"
       /\ wire[p].id = Cur /\ at = "run" => wire[p].cmd = "RUN"
       /\ \A i \in Made : calls[i].cap = "db" /\ calls[i].got = "ok" => i < wire[p].id
       /\ \A w \in block : w < wire[p].id

\* Only an execute that was sent writes, when it is run.
Writers ==
  /\ \A i \in block \cup saved : Asked(i) /\ calls[i].act = "execute"
  /\ at = "prepare" => Cur \notin block

\* What the answer to the call under way says about the server.
DbReplies ==
  /\ at \in DbStage => reply # "denied"
  /\ at \in DbStage /\ reply # "none" => link = "up" /\ wire = <<>>
  /\ at = "simple" /\ Op.act = "begin" /\ reply = "ok" => tx = "open"
  /\ at = "run" /\ Op.act = "execute" /\ reply = "ok" =>
       Cur \in saved \/ \E b \in Made : b < Cur /\ Db(b, {"begin"})

\* A transaction goes back to a begin before everything the server has yet to take.
Begun ==
  tx # "idle" => \E b \in Made : /\ Asked(b) /\ calls[b].act = "begin"
                                /\ \A p \in DOMAIN wire : b < wire[p].id

\* The script sent no end of the block it opened at i.
Unended(i) == /\ Asked(i) /\ calls[i].act = "begin" /\ calls[i].got = "ok"
              /\ \A k \in Made : i < k /\ Asked(k) => calls[k].act \notin {"commit", "rollback"}

\* The server is in a transaction when it takes a message of a block, and while the
\* script may still send one.
BlocksOpen ==
  /\ \A p \in DOMAIN wire : InBlock(wire[p].id) => tx # "idle"
  /\ link = "up" => \A i \in Made : Unended(i) => tx # "idle"

\* A rollback after a write that is not saved yet is on its way, unless the connection
\* broke before it; then nothing after it is.
RollbacksDue ==
  \A w, j \in Made :
    (w \in block \/ OnWire(w)) /\ w < j /\ Asked(j) /\ calls[j].act = "rollback" =>
      OnWire(j) \/ (link # "up" /\ \A p \in DOMAIN wire : wire[p].id < j)

\* TransactionsAreHeld, by a commit that was sent.
Held ==
  \A w \in saved : InBlock(w) =>
    \E k \in Made : /\ w < k /\ Asked(k) /\ calls[k].act = "commit"
                    /\ \A j \in Between(w, k) : ~Db(j, {"rollback"})

\* A block in which every call has succeeded so far, and its writes.
Clean(b) ==
  /\ calls[b].cap = "db" /\ calls[b].act = "begin" /\ calls[b].got = "ok"
  /\ \A k \in Made : b < k /\ calls[k].cap = "db" =>
       \/ calls[k].got = "pending"
       \/ calls[k].got = "ok" /\ calls[k].act \notin {"commit", "rollback"}
Writes(b) == {w \in Made : /\ b < w /\ calls[w].cap = "db"
                           /\ calls[w].act = "execute" /\ calls[w].got = "ok"}
Intact(b) == tx = "open" /\ Writes(b) \subseteq block

\* The server has all of a clean block, and nothing but the call under way is on the wire.
CleanBlocks ==
  link = "up" => \A b \in Made : Clean(b) =>
    /\ \A p \in DOMAIN wire : at \in DbStage /\ wire[p].id = Cur
    /\ at \notin DbStage \/ reply = "none" => Intact(b)
    /\ at \in DbStage /\ reply = "ok" =>
         /\ Op.act \notin {"commit", "rollback"} => Intact(b)
         /\ Op.act = "commit" => Writes(b) \subseteq saved
         /\ at = "run" /\ Op.act = "execute" => Cur \in block

DbInv == /\ Connection /\ WireOrder /\ Writers /\ DbReplies /\ Begun
         /\ BlocksOpen /\ RollbacksDue /\ Held /\ CleanBlocks

SuccessIsDone == \A i \in Made : calls[i].got = "ok" => Done(i)

IInv == /\ TypeOK /\ OneCall /\ MetersOnce /\ RemoteEffects /\ SendsBounded
        /\ DbInv /\ SuccessIsDone

-----------------------------------------------------------------------------
(* The classes of steps *)

\* The call under way returns and nothing else happens.
Returned(got) ==
  /\ Return(got)
  /\ metered' = IF got = "refused" THEN metered ELSE [metered EXCEPT ![Cur] = @ + 1]
  /\ UNCHANGED <<slot, expired, remote, link, wire, server>>

\* before it was tried,
TurnedAway == at = "slot" /\ \E got \in {"refused", "invalid"} : Returned(got)
\* because the connection is gone,
DbGone == at = "slot" /\ Ready("db") /\ link # "up" /\ Returned("error")
\* from the database,
DbReturns == /\ at \in DbStage
             /\ \E got \in {"ok", "error", "timeout"} :
                  Returned(got) /\ (got = "ok" => reply = "ok" /\ at # "prepare")
\* or from another backend.
HandedOver == /\ published[Cur] = Op.size
              /\ broker = "rabbitmq" => taken[Cur] = Op.size \/ Cur \in refused
RemoteReturns ==
  /\ at \in {"waiting", "discovering", "publishing"}
  /\ \E got \in {"ok", "error", "timeout"} :
       /\ Returned(got)
       /\ got = "ok" => \/ at = "waiting" /\ Cur \in performed
                        \/ at = "publishing" /\ HandedOver

\* A call is sent to the database.
DbSends ==
  /\ Ready("db") /\ link = "up"
  /\ Send(Command(Op.act))
  /\ at' = IF Op.act \in {"query", "execute"} THEN "prepare" ELSE "simple"
  /\ UNCHANGED <<calls, metered, reply, slot, expired, remote, link, server>>

\* A request goes out to another backend.
Requests ==
  /\ at \in {"slot", "discovering"} /\ Op.cap # "db"
  /\ Op.cap = "amq" => Op.act = "request"
  /\ Op.cap = "mail" => ~Capped
  /\ at' = "waiting" /\ flying' = flying \cup {Cur} 
  /\ UNCHANGED <<calls, metered, slot, expired, reply, performed, oidc, amq, link, wire, server>>

\* The thread, a clock, a client that is not the database's or the broker moves on.
Moves ==
  /\ UNCHANGED <<calls, metered, reply, flying, performed, broker, published, link, wire, server>>
  /\ discovered' \in BOOLEAN /\ endpoints' \subseteq AuthAct
  /\ taken' \in [Id -> Nat] /\ refused' \subseteq Id /\ refused \subseteq refused'
  /\ \A i \in Id : taken[i] = published[i] => taken'[i] = taken[i]
  /\ slot' \in [Lazy -> {"unset", "open", "failed"}] /\ slot'["db"] = slot["db"]
  /\ expired' \subseteq {"db", "mongo"}
  /\ \/ at' = at
     \/ at = "slot" /\ Op.cap = "auth" /\ at' = "discovering"
     \/ at = "slot" /\ Op.cap = "amq" /\ Op.act = "send" /\ at' = "publishing"
     \/ at = "idle" /\ at' = "closed"

-----------------------------------------------------------------------------
(* Sequences and records *)

LEMMA Basics ==
  ASSUME TypeOK
  PROVE  /\ Cur \in 0..MaxCalls /\ Cur \in Nat /\ Made = 1..Cur /\ Made \subseteq Id
         /\ calls \in Seq(CallRec) /\ \A i \in Made : calls[i] \in CallRec
         /\ wire \in Seq(MsgRec) /\ \A p \in DOMAIN wire : wire[p] \in MsgRec /\ wire[p].id \in Nat
         /\ DOMAIN wire = 1..Len(wire) /\ Len(wire) \in Nat
<1>1. calls \in Seq(CallRec) /\ wire \in Seq(MsgRec) /\ Cur \in 0..MaxCalls
  BY DEF TypeOK, CallRec, MsgRec
<1>2. Cur \in Nat /\ Made = 1..Cur /\ Made \subseteq Id
  BY <1>1, BoundAssumption DEF Made, Cur, Id
<1>3. \A i \in Made : calls[i] \in CallRec
  BY <1>1 DEF Made
<1>4. DOMAIN wire = 1..Len(wire) /\ Len(wire) \in Nat /\ \A p \in DOMAIN wire : wire[p] \in MsgRec
  BY <1>1
<1>5. \A p \in DOMAIN wire : wire[p].id \in Nat
  BY <1>4, BoundAssumption DEF MsgRec, Id
<1> QED
  BY <1>1, <1>2, <1>3, <1>4, <1>5

\* What a read returns is a number of rows and a flag.
LEMMA ResultType ==
  ASSUME TypeOK, Cur \in Made, NEW got PROVE Result(got) \in [rows : Nat, truncated : BOOLEAN]
<1>1. Op.size \in Nat
  BY Basics DEF Op, CallRec
<1>2. \A n \in Nat : Rows(n) \in [rows : Nat, truncated : BOOLEAN]
  BY BoundAssumption DEF Rows
<1>3. \A n \in Nat : Drained(n) \in [rows : Nat, truncated : BOOLEAN]
  BY BoundAssumption DEF Drained
<1> QED
  BY <1>1, <1>2, <1>3 DEF Result

\* A return changes what the last call got, and nothing of the calls before it.
LEMMA ReturnShape ==
  ASSUME TypeOK, Cur \in Made, NEW got \in Got, Return(got)
  PROVE  /\ calls' \in Seq(CallRec) /\ Cur' = Cur /\ Made' = Made
         /\ \A i \in Made : i # Cur => calls'[i] = calls[i]
         /\ calls'[Cur].cap = Op.cap /\ calls'[Cur].act = Op.act /\ calls'[Cur].size = Op.size
         /\ calls'[Cur].got = got /\ calls'[Cur].result = Result(got)
<1> DEFINE e == [calls[Cur] EXCEPT !.got = got, !.result = Result(got)]
<1>1. Result(got) \in [rows : Nat, truncated : BOOLEAN] /\ calls[Cur] \in CallRec
  BY ResultType, Basics
<1>2. /\ e \in CallRec /\ e.cap = Op.cap /\ e.act = Op.act /\ e.size = Op.size
      /\ e.got = got /\ e.result = Result(got)
  BY <1>1 DEF CallRec, Op
<1>3. calls' = [calls EXCEPT ![Cur] = e]
  <2>1. calls' = [calls EXCEPT ![Cur].got = got, ![Cur].result = Result(got)]
    BY DEF Return
  <2> QED
    BY <2>1
<1> HIDE DEF e
<1>4. calls \in Seq(CallRec) /\ Cur \in 1..Len(calls)
  BY Basics DEF Cur
<1>5. /\ [calls EXCEPT ![Cur] = e] \in Seq(CallRec)
      /\ Len([calls EXCEPT ![Cur] = e]) = Len(calls)
      /\ \A j \in 1..Len(calls) : [calls EXCEPT ![Cur] = e][j] = IF j = Cur THEN e ELSE calls[j]
  BY <1>2, <1>4, ExceptSeq
<1>6. calls' \in Seq(CallRec) /\ Cur' = Cur
  BY <1>3, <1>5 DEF Cur
<1>7. Made' = Made
  BY <1>3 DEF Made
<1> QED
  BY <1>2, <1>3, <1>4, <1>5, <1>6, <1>7, Basics DEF Cur

\* A call is added to those made.
LEMMA CallShape ==
  ASSUME TypeOK, NEW s \in Scripts, Call(s)
  PROVE  /\ calls' \in Seq(CallRec) /\ Cur' = Cur + 1 /\ Cur' \in 1..MaxCalls
         /\ Made' = Made \cup {Cur'} /\ Cur' \notin Made
         /\ \A i \in Made : calls'[i] = calls[i]
         /\ calls'[Cur'].got = "pending"
<1>0. /\ Cur \in Nat /\ Made = 1..Cur /\ calls \in Seq(CallRec) /\ MaxCalls \in Nat
  BY Basics, BoundAssumption
<1> DEFINE e == Entry(s[Cur + 1], "pending", [rows |-> 0, truncated |-> FALSE])
<1>1. /\ s[Cur + 1] \in [cap : Cap \cup {"other"}, act : Act, size : Nat,
                         payload : {"good", "malformed", "invalid"}]
      /\ Cur + 1 <= MaxCalls
  <2>1. /\ s \in Seq([cap : Cap \cup {"other"}, act : Act, size : Nat,
                      payload : {"good", "malformed", "invalid"}])
        /\ Len(s) <= MaxCalls /\ Cur < Len(s)
    BY ScriptsAssumption DEF Call
  <2>2. Len(s) \in Nat
    BY <2>1
  <2>3. Cur + 1 \in 1..Len(s) /\ Cur + 1 <= MaxCalls
    BY <1>0, <2>1, <2>2
  <2> QED
    BY <2>1, <2>3, ElementOfSeq
<1>2. e \in CallRec /\ e.got = "pending"
  BY <1>1 DEF Entry, CallRec, Got
<1>3. calls' = Append(calls, e)
  BY DEF Call
<1> HIDE DEF e
<1>4. /\ calls' \in Seq(CallRec) /\ Len(calls') = Len(calls) + 1
      /\ \A i \in 1..Len(calls) : calls'[i] = calls[i]
      /\ calls'[Len(calls) + 1] = e
  BY <1>0, <1>2, <1>3, AppendProperties
<1>5. DOMAIN calls' = 1..(Len(calls) + 1)
  BY <1>4
<1> QED
  BY <1>0, <1>1, <1>2, <1>4, <1>5 DEF Cur, Made

\* Every step is of one of the classes.
LEMMA StepClass ==
  ASSUME IInv, [Next]_vars
  PROVE  \/ \E s \in Scripts : Call(s)
         \/ TurnedAway \/ DbGone \/ DbReturns \/ RemoteReturns
         \/ DbSends \/ DbPrepared \/ DbConnect \/ ServerTakes \/ LinkBreaks \/ ServerEnds
         \/ Requests \/ Moves \/ Publish
         \/ \E i \in Id : RemotePerforms(i) \/ RemoteFails(i)
<1>0. TypeOK /\ OneCall /\ RemoteEffects /\ DbReplies
  BY DEF IInv, DbInv
<1>a. reply \in {"none", "ok", "error", "denied"}
  BY <1>0 DEF TypeOK
<1>1. CASE NotConfigured \/ ConnectFailed \/ BadPayload \/ MailLimit
  <2>1. TurnedAway
    BY <1>1 DEF NotConfigured, ConnectFailed, BadPayload, MailLimit, Refuse, TurnedAway, Returned, Ready
  <2> QED
    BY <2>1
<1>2. CASE Invalid
  <2>1. TurnedAway
    BY <1>2 DEF Invalid, Finish, Record, TurnedAway, Returned, Ready
  <2> QED
    BY <2>1
<1>3. CASE MongoConnect \/ MailConnect \/ AuthConnect \/ RedisConnect
  <2>1. PICK c \in Lazy \ {"db"} : Opens(c)
    BY <1>3 DEF MongoConnect, MailConnect, AuthConnect, RedisConnect, Lazy, Cap
  <2>2. PICK o \in {"open", "failed"} : slot' = [slot EXCEPT ![c] = o] /\ link' = link
    BY <2>1 DEF Opens
  <2>3. "db" \in Lazy /\ slot \in [Lazy -> {"unset", "open", "failed"}]
    BY <1>0 DEF TypeOK, Lazy, Cap
  <2>4. slot' \in [Lazy -> {"unset", "open", "failed"}] /\ slot'["db"] = slot["db"]
    BY <2>2, <2>3
  <2>5. UNCHANGED <<calls, metered, at, reply, remote, wire, server, expired>>
    BY <2>1 DEF Opens, thread
  <2>6. Moves
    BY <1>0, <2>2, <2>4, <2>5 DEF Moves, TypeOK, remote
  <2> QED
    BY <2>6
<1>4. CASE DbDispatch
  <2>1. CASE link = "up"
    <3>1. DbSends
      BY <1>4, <2>1 DEF DbDispatch, DbSends
    <3> QED
      BY <3>1
  <2>2. CASE link # "up"
    <3>1. DbGone
      BY <1>4, <2>2 DEF DbDispatch, DbGone, Returned, Finish, Record, Ready
    <3> QED
      BY <3>1
  <2> QED
    BY <2>1, <2>2
<1>5. CASE DbAnswered
  <2>1. reply \in {"ok", "error", "timeout"} /\ at \in DbStage /\ (reply = "ok" => at # "prepare")
    BY <1>0, <1>a, <1>5 DEF DbAnswered, DbReplies, DbStage
  <2>2. Returned(reply)
    BY <1>5, <2>1 DEF DbAnswered, Returned, Finish, Record
  <2>3. DbReturns
    BY <2>1, <2>2 DEF DbReturns
  <2> QED
    BY <2>3
<1>6. CASE DbElapsed \/ DbLost
  <2>1. DbReturns
    BY <1>6 DEF DbElapsed, DbLost, DbReturns, DbStage, Returned, Finish, Record
  <2> QED
    BY <2>1
<1>7. CASE MongoRead \/ MongoWrite \/ RedisDispatch \/ MailDispatch \/ AmqRequest
  <2>1. Requests
    BY <1>0, <1>7 DEF MongoRead, MongoWrite, RedisDispatch, MailDispatch, AmqRequest, Request,
                      Requests, Ready, TypeOK
  <2> QED
    BY <2>1
<1>8. CASE AuthDispatch
  <2>1. CASE Op.act \in Explicit
    <3>1. Requests
      BY <1>0, <1>8, <2>1 DEF AuthDispatch, Request, Requests, Ready, TypeOK
    <3> QED
      BY <3>1
  <2>2. CASE Op.act \notin Explicit
    <3>1. Moves
      BY <1>0, <1>8, <2>2 DEF AuthDispatch, Moves, Ready, TypeOK, remote
    <3> QED
      BY <3>1
  <2> QED
    BY <2>1, <2>2
<1>9. CASE Discovers
  <2>1. Moves
    BY <1>0, <1>9 DEF Discovers, Moves, TypeOK, thread
  <2> QED
    BY <2>1
<1>14. CASE Resolved
  <2>1. Requests
    BY <1>0, <1>14 DEF Resolved, Request, Requests, OneCall
  <2> QED
    BY <2>1
<1>15. ASSUME NEW i \in Id, BrokerTakes(i) \/ BrokerRefuses(i) PROVE Moves
  <2>1. /\ UNCHANGED <<thread, slot, expired, reply, flying, performed, oidc, broker, published,
                       link, wire, server>>
        /\ taken[i] < published[i]
        /\ taken' = [taken EXCEPT ![i] = @ + 1] \/ taken' = taken
        /\ refused' = refused \/ refused' = refused \cup {i}
    BY <1>15 DEF BrokerTakes, BrokerRefuses
  <2>2. /\ taken \in [Id -> Nat] /\ published \in [Id -> Nat] /\ refused \subseteq Id
        /\ slot \in [Lazy -> {"unset", "open", "failed"}] /\ expired \subseteq {"db", "mongo"}
        /\ discovered \in BOOLEAN /\ endpoints \subseteq AuthAct
    BY <1>0 DEF TypeOK
  <2>3. taken' \in [Id -> Nat] /\ \A j \in Id : taken[j] = published[j] => taken'[j] = taken[j]
    BY <2>1, <2>2
  <2>4. refused' \subseteq Id /\ refused \subseteq refused'
    BY <2>1, <2>2
  <2> QED
    BY <2>1, <2>2, <2>3, <2>4 DEF Moves, thread
<1>10. CASE DiscoveryFails \/ NoEndpoint \/ RemoteTimesOut \/ MongoElapsed \/ PublishFails \/ Published
  <2>1. RemoteReturns
    BY <1>10 DEF DiscoveryFails, NoEndpoint, RemoteTimesOut, MongoElapsed, PublishFails, Published,
                 HandedOver, RemoteReturns, Returned, Finish, Record
  <2> QED
    BY <2>1
<1>11. CASE RemoteAnswered
  <2> DEFINE got == AuthResult(Op.act, reply)
  <2>1. /\ at = "waiting" /\ got \in {"ok", "error", "timeout"}
        /\ got = "ok" => Cur \in performed
    BY <1>0, <1>a, <1>11 DEF RemoteAnswered, AuthResult, RemoteEffects
  <2>2. Returned(got)
    BY <1>11, <2>1 DEF RemoteAnswered, Returned, Finish, Record
  <2> HIDE DEF got
  <2>3. RemoteReturns
    BY <2>1, <2>2 DEF RemoteReturns
  <2> QED
    BY <2>3
<1>12. CASE AmqSend \/ End \/ \E c \in {"db", "mongo"} : Expire(c)
  <2>1. Moves
    BY <1>0, <1>12 DEF AmqSend, End, Expire, Moves, Ready, TypeOK, thread, remote
  <2> QED
    BY <2>1
<1>13. CASE UNCHANGED vars
  <2>1. Moves
    BY <1>0, <1>13 DEF vars, thread, Moves, TypeOK, remote
  <2> QED
    BY <2>1
<1> QED
  BY <1>1, <1>2, <1>3, <1>4, <1>5, <1>6, <1>7, <1>8, <1>9, <1>10, <1>11, <1>12, <1>13, <1>14,
     <1>15 DEF Next, ThreadStep, Environment

-----------------------------------------------------------------------------
(* Types, the thread and the metrics *)

ThreadInv == TypeOK /\ OneCall /\ MetersOnce

\* Whatever call returns, whatever it got.
LEMMA ReturnThread ==
  ASSUME ThreadInv, at \notin Stopped, NEW got \in Got \ {"pending"}, Returned(got)
  PROVE  ThreadInv'
<1>0. /\ TypeOK /\ OneCall /\ MetersOnce /\ Cur \in Made /\ Made \subseteq Id /\ Made = 1..Cur
      /\ Cur \in 0..MaxCalls
  BY Basics DEF ThreadInv, OneCall
<1>1. /\ calls' \in Seq(CallRec) /\ Cur' = Cur /\ Made' = Made
      /\ \A i \in Made : i # Cur => calls'[i] = calls[i]
      /\ calls'[Cur].got = got
  BY <1>0, ReturnShape DEF Returned
<1>2. at' = "idle" /\ reply' = "none"
  BY DEF Returned, Return
<1>3. /\ metered' = IF got = "refused" THEN metered ELSE [metered EXCEPT ![Cur] = @ + 1]
      /\ UNCHANGED <<slot, expired, flying, performed, oidc, amq, link, wire, tx, block,
                     saved>>
  BY DEF Returned, remote, server
<1>4. TypeOK'
  <2>1. metered' \in [Id -> Nat]
    BY <1>0, <1>3 DEF TypeOK
  <2> QED
    BY <1>0, <1>1, <1>2, <1>3, <2>1 DEF TypeOK, At, CallRec
<1>5. OneCall'
  BY <1>0, <1>1, <1>2 DEF OneCall, Stopped, DbStage
<1>6. MetersOnce'
  <2>1. calls[Cur].got = "pending" /\ metered \in [Id -> Nat]
    BY <1>0 DEF OneCall, TypeOK
  <2> SUFFICES ASSUME NEW i \in Id
               PROVE  metered'[i] = IF i \in Made' /\ calls'[i].got \notin {"pending", "refused"}
                                    THEN 1 ELSE 0
    BY DEF MetersOnce
  <2>2. metered[i] = IF i \in Made /\ calls[i].got \notin {"pending", "refused"} THEN 1 ELSE 0
    BY <1>0 DEF MetersOnce
  <2>3. CASE i = Cur
    BY <1>0, <1>1, <1>3, <2>1, <2>2, <2>3
  <2>4. CASE i # Cur
    BY <1>0, <1>1, <1>3, <2>1, <2>2, <2>4
  <2> QED
    BY <2>3, <2>4
<1> QED
  BY <1>4, <1>5, <1>6 DEF ThreadInv

LEMMA CallThread ==
  ASSUME ThreadInv, NEW s \in Scripts, Call(s) PROVE ThreadInv'
<1>0. TypeOK /\ OneCall /\ MetersOnce /\ Cur \in Nat /\ Made = 1..Cur /\ Made \subseteq Id
  BY Basics DEF ThreadInv
<1>1. /\ calls' \in Seq(CallRec) /\ Cur' = Cur + 1 /\ Cur' \in 1..MaxCalls
      /\ Made' = Made \cup {Cur'} /\ Cur' \notin Made
      /\ \A i \in Made : calls'[i] = calls[i]
      /\ calls'[Cur'].got = "pending"
  BY <1>0, CallShape
<1>2. at = "idle" /\ at' = "slot"
  BY DEF Call
<1>3. UNCHANGED <<metered, slot, expired, reply, flying, performed, oidc, amq, link, wire,
                  tx, block, saved>>
  BY DEF Call, remote, server
<1>4. TypeOK'
  <2>1. Cur' \in 0..MaxCalls /\ at' \in At
    BY <1>1, <1>2, BoundAssumption DEF At
  <2> QED
    BY <1>0, <1>1, <1>3, <2>1 DEF TypeOK, CallRec
<1>5. OneCall'
  BY <1>0, <1>1, <1>2 DEF OneCall, Stopped, DbStage
<1>6. MetersOnce'
  BY <1>0, <1>1, <1>3 DEF MetersOnce
<1> QED
  BY <1>4, <1>5, <1>6 DEF ThreadInv

\* A step that leaves the calls and the metrics alone.
LEMMA QuietThread ==
  ASSUME ThreadInv, UNCHANGED <<calls, metered>>, TypeOK',
         at' \in Stopped <=> at \in Stopped,
         at' # at => /\ at' \in DbStage => Op.cap = "db"
                     /\ at' \in {"prepare", "run"} => Op.act \in {"query", "execute"}
                     /\ at' = "simple" => Op.act \notin {"query", "execute"}
                     /\ at' = "discovering" => Op.cap = "auth"
                     /\ at' = "waiting" => Op.cap # "db" /\ (Op.cap = "amq" => Op.act = "request")
                     /\ at' = "publishing" => Op.cap = "amq" /\ Op.act = "send"
  PROVE  ThreadInv'
<1>1. Cur' = Cur /\ Made' = Made /\ Op' = Op
  BY DEF Cur, Made, Op
<1>2. OneCall'
  <2>1. CASE at' = at
    BY <1>1, <2>1 DEF ThreadInv, OneCall
  <2>2. CASE at' # at
    BY <1>1, <2>2 DEF ThreadInv, OneCall
  <2> QED
    BY <2>1, <2>2
<1>3. MetersOnce'
  BY <1>1 DEF ThreadInv, MetersOnce
<1> QED
  BY <1>2, <1>3 DEF ThreadInv

\* What the server may make of a message.
Outcome(m, o) ==
  \/ m.cmd \notin {"COMMIT", "ROLLBACK"} /\ o = Failure
  \/ m.cmd = "BEGIN" /\ tx # "failed" /\ o = After(TRUE, "open", block, saved)
  \/ m.cmd = "COMMIT" /\ tx = "failed" /\ o = After(TRUE, "idle", {}, saved)
  \/ m.cmd = "COMMIT" /\ tx # "failed" /\ o = After(TRUE, "idle", {}, saved \cup block)
  \/ m.cmd = "COMMIT" /\ tx # "failed" /\ o = After(FALSE, "idle", {}, saved)
  \/ m.cmd = "ROLLBACK" /\ o = After(TRUE, "idle", {}, saved)
  \/ m.cmd = "PREPARE" /\ tx # "failed" /\ o = After(TRUE, tx, block, saved)
  \/ /\ m.cmd = "RUN" /\ tx = "open"
     /\ o = After(TRUE, tx, block \cup {i \in {m.id} : calls[i].act = "execute"}, saved)
  \/ /\ m.cmd = "RUN" /\ tx = "idle"
     /\ o = After(TRUE, tx, block, saved \cup {i \in {m.id} : calls[i].act = "execute"})

LEMMA OutcomeCases ==
  ASSUME TypeOK, NEW m \in MsgRec, NEW o \in Outcomes(m) PROVE Outcome(m, o)
<1> USE DEF Outcome
<1>0. tx \in {"idle", "open", "failed"}
  BY DEF TypeOK
<1>1. CASE m.cmd = "BEGIN"
  BY <1>0, <1>1 DEF Outcomes
<1>2. CASE m.cmd = "COMMIT"
  BY <1>0, <1>2 DEF Outcomes
<1>3. CASE m.cmd = "ROLLBACK"
  BY <1>0, <1>3 DEF Outcomes
<1>4. CASE m.cmd = "PREPARE"
  BY <1>0, <1>4 DEF Outcomes
<1>5. CASE m.cmd = "RUN"
  <2> DEFINE w == {i \in {m.id} : calls[i].act = "execute"}
  <2>1. CASE tx = "failed"
    BY <1>5, <2>1 DEF Outcomes
  <2>2. CASE tx = "open"
    BY <1>5, <2>2 DEF Outcomes
  <2>3. CASE tx = "idle"
    BY <1>5, <2>3 DEF Outcomes
  <2> QED
    BY <1>0, <2>1, <2>2, <2>3
<1> QED
  BY <1>1, <1>2, <1>3, <1>4, <1>5 DEF MsgRec

\* The server takes m, the first of the messages on the wire.
Takes(m, o) ==
  /\ Outcome(m, o) /\ m \in MsgRec
  /\ 1 \in DOMAIN wire /\ m = wire[1]
  /\ wire' \in Seq(MsgRec)
  /\ \A p \in DOMAIN wire' : p + 1 \in DOMAIN wire /\ wire'[p] = wire[p + 1]
  /\ \A p \in DOMAIN wire : p # 1 => p - 1 \in DOMAIN wire' /\ wire'[p - 1] = wire[p]
  /\ tx' = o.tx /\ block' = o.block /\ saved' = o.saved
  /\ reply' = IF link = "up" /\ m.id = Cur /\ at \in DbStage
                THEN IF o.ok THEN "ok" ELSE "error"
                ELSE reply
  /\ UNCHANGED <<calls, at, metered, slot, expired, flying, performed, oidc, amq, link>>

LEMMA TakesShape == ASSUME TypeOK, ServerTakes PROVE \E m, o : Takes(m, o)
<1>0. wire \in Seq(MsgRec) /\ wire # <<>> /\ wire' = Tail(wire)
  BY Basics DEF ServerTakes
<1>1. /\ Head(wire) \in MsgRec /\ Head(wire) = wire[1] /\ 1 \in DOMAIN wire
  BY <1>0
<1>2. /\ Tail(wire) \in Seq(MsgRec) /\ Len(Tail(wire)) = Len(wire) - 1
      /\ \A i \in 1..(Len(wire) - 1) : Tail(wire)[i] = wire[i + 1]
  BY <1>0, HeadTailProperties
<1>3. DOMAIN wire = 1..Len(wire) /\ Len(wire) \in Nat /\ DOMAIN wire' = 1..(Len(wire) - 1)
  BY <1>0, <1>2
<1>4. PICK o \in Outcomes(Head(wire)) :
        /\ tx' = o.tx /\ block' = o.block /\ saved' = o.saved
        /\ reply' = IF link = "up" /\ Head(wire).id = Cur /\ at \in {"prepare", "run", "simple"}
                      THEN IF o.ok THEN "ok" ELSE "error"
                      ELSE reply
  BY DEF ServerTakes
<1>5. Outcome(Head(wire), o)
  BY <1>1, <1>4, OutcomeCases
<1>6. UNCHANGED <<calls, at, metered, slot, expired, flying, performed, oidc, amq, link>>
  BY DEF ServerTakes, thread, remote
<1>7. /\ \A p \in DOMAIN wire' : p + 1 \in DOMAIN wire /\ wire'[p] = wire[p + 1]
      /\ \A p \in DOMAIN wire : p # 1 => p - 1 \in DOMAIN wire' /\ wire'[p - 1] = wire[p]
  BY <1>0, <1>2, <1>3
<1>8. Takes(Head(wire), o)
  BY <1>0, <1>1, <1>2, <1>4, <1>5, <1>6, <1>7 DEF Takes, DbStage
<1> QED
  BY <1>8

\* A message goes out behind those on the wire.
LEMMA SendShape ==
  ASSUME TypeOK, Cur \in Made, NEW cmd \in {"BEGIN", "COMMIT", "ROLLBACK", "PREPARE", "RUN"}, Send(cmd)
  PROVE  /\ wire' \in Seq(MsgRec)
         /\ DOMAIN wire' = DOMAIN wire \cup {Len(wire) + 1}
         /\ \A p \in DOMAIN wire : p < Len(wire) + 1 /\ wire'[p] = wire[p]
         /\ wire'[Len(wire) + 1] = [id |-> Cur, cmd |-> cmd]
<1> DEFINE m == [id |-> Cur, cmd |-> cmd]
<1>1. m \in MsgRec /\ wire \in Seq(MsgRec) /\ wire' = Append(wire, m)
  BY Basics DEF MsgRec, Send
<1> HIDE DEF m
<1>2. /\ wire' \in Seq(MsgRec) /\ Len(wire') = Len(wire) + 1
      /\ \A i \in 1..Len(wire) : wire'[i] = wire[i]
      /\ wire'[Len(wire) + 1] = m
  BY <1>1, AppendProperties
<1>3. DOMAIN wire' = 1..(Len(wire) + 1) /\ DOMAIN wire = 1..Len(wire) /\ Len(wire) \in Nat
  BY <1>1, <1>2
<1> QED
  BY <1>2, <1>3 DEF m

LEMMA CommandType == \A act : Command(act) \in {"BEGIN", "COMMIT", "ROLLBACK", "PREPARE"}
BY DEF Command

\* Every class of steps keeps the types, the account of the thread and the metrics.
LEMMA ThreadKept == ASSUME IInv, [Next]_vars PROVE ThreadInv'
<1>0. ThreadInv /\ TypeOK /\ OneCall
  BY DEF IInv, ThreadInv
<1>a. Cur \in 0..MaxCalls /\ Made \subseteq Id /\ (at \notin Stopped => Cur \in Made)
  BY <1>0, Basics DEF OneCall
<1>b. ASSUME UNCHANGED calls PROVE Cur' = Cur
  BY <1>b DEF Cur
<1>1. ASSUME NEW s \in Scripts, Call(s) PROVE ThreadInv'
  BY <1>0, <1>1, CallThread
<1>2. CASE TurnedAway \/ DbGone \/ DbReturns \/ RemoteReturns
  <2>1. at \notin Stopped /\ \E got \in Got \ {"pending"} : Returned(got)
    BY <1>2 DEF TurnedAway, DbGone, DbReturns, RemoteReturns, Stopped, DbStage, Got
  <2> QED
    BY <1>0, <2>1, ReturnThread
<1>3. CASE DbSends
  <2>1. at = "slot" /\ Op.cap = "db" /\ UNCHANGED <<calls, metered>>
    BY <1>3 DEF DbSends, Ready
  <2>2. wire' \in Seq(MsgRec)
    BY <1>0, <1>3, <1>a, <2>1, SendShape, CommandType DEF DbSends, Stopped
  <2>3. TypeOK'
    BY <1>0, <1>3, <1>b, <2>1, <2>2 DEF DbSends, TypeOK, At, MsgRec, remote, server
  <2>4. at' = IF Op.act \in {"query", "execute"} THEN "prepare" ELSE "simple"
    BY <1>3 DEF DbSends
  <2> QED
    BY <1>0, <2>1, <2>3, <2>4, QuietThread DEF Stopped
<1>4. CASE DbPrepared
  <2>1. /\ at = "prepare" /\ at' = "run" /\ UNCHANGED <<calls, metered>>
        /\ Op.cap = "db" /\ Op.act \in {"query", "execute"}
    BY <1>0, <1>4 DEF DbPrepared, OneCall, DbStage
  <2>2. wire' \in Seq(MsgRec)
    BY <1>0, <1>4, <1>a, <2>1, SendShape DEF DbPrepared, Stopped
  <2>3. TypeOK'
    BY <1>0, <1>4, <1>b, <2>1, <2>2 DEF DbPrepared, TypeOK, At, MsgRec, remote, server
  <2> QED
    BY <1>0, <2>1, <2>3, QuietThread DEF Stopped
<1>5. CASE DbConnect
  <2>1. UNCHANGED <<calls, metered, at>>
    BY <1>5 DEF DbConnect, Opens, thread
  <2>2. PICK o \in {"open", "failed"} :
          /\ slot' = [slot EXCEPT !["db"] = o]
          /\ link' = IF o = "open" THEN "up" ELSE link
    BY <1>5 DEF DbConnect, Opens
  <2>3. TypeOK'
    BY <1>0, <1>5, <1>b, <2>1, <2>2 DEF DbConnect, Opens, TypeOK, remote, server
  <2> QED
    BY <1>0, <2>1, <2>3, QuietThread
<1>6. CASE ServerTakes
  <2>1. PICK m, o : Takes(m, o)
    BY <1>0, <1>6, TakesShape
  <2>2. /\ tx \in {"idle", "open", "failed"} /\ block \subseteq Id /\ saved \subseteq Id /\ m.id \in Id
        /\ reply \in {"none", "ok", "error", "denied"}
    BY <1>0, <2>1 DEF TypeOK, Takes, MsgRec
  <2>3. o.tx \in {"idle", "open", "failed"} /\ o.block \subseteq Id /\ o.saved \subseteq Id
    BY <2>1, <2>2 DEF Takes, Outcome, Failure, After
  <2>4. TypeOK'
    BY <1>0, <1>b, <2>1, <2>2, <2>3 DEF Takes, TypeOK, MsgRec
  <2> QED
    BY <1>0, <2>1, <2>4, QuietThread DEF Takes
<1>7. CASE LinkBreaks \/ ServerEnds
  <2>1. UNCHANGED <<calls, metered, at>>
    BY <1>7 DEF LinkBreaks, ServerEnds, thread
  <2>2. wire' \in Seq(MsgRec)
    <3>1. wire' = wire \/ wire' = <<>>
      BY <1>7 DEF LinkBreaks, ServerEnds
    <3>2. <<>> \in Seq(MsgRec) /\ wire \in Seq(MsgRec)
      BY <1>0, Basics
    <3> QED
      BY <3>1, <3>2
  <2>3. ASSUME LinkBreaks PROVE TypeOK'
    BY <1>0, <1>b, <2>1, <2>2, <2>3 DEF LinkBreaks, TypeOK, MsgRec, remote, server
  <2>4. ASSUME ServerEnds PROVE TypeOK'
    BY <1>0, <1>b, <2>1, <2>2, <2>4 DEF ServerEnds, TypeOK, MsgRec, remote, server
  <2>5. TypeOK'
    BY <1>7, <2>3, <2>4
  <2> QED
    BY <1>0, <2>1, <2>5, QuietThread
<1>8. CASE Requests
  <2>1. /\ at \in {"slot", "discovering"} /\ at' = "waiting" /\ UNCHANGED <<calls, metered>>
        /\ Op.cap # "db" /\ (Op.cap = "amq" => Op.act = "request")
    BY <1>8 DEF Requests
  <2>2. TypeOK'
    BY <1>0, <1>8, <1>a, <1>b, <2>1 DEF Requests, TypeOK, At, Stopped, server
  <2> QED
    BY <1>0, <2>1, <2>2, QuietThread DEF Stopped, DbStage
<1>9. CASE Moves
  <2>1. TypeOK'
    BY <1>0, <1>9, <1>b DEF Moves, TypeOK, At, remote, server
  <2>2. UNCHANGED <<calls, metered>>
    BY <1>9 DEF Moves
  <2> QED
    BY <1>0, <1>9, <2>1, <2>2, QuietThread DEF Moves, Stopped, DbStage
<1>10. CASE Publish
  <2>1. UNCHANGED <<calls, metered, at>>
    BY <1>10 DEF Publish, thread
  <2>2. published' \in [Id -> Nat]
    <3>1. published \in [Id -> Nat] /\ Cur \in Id
      BY <1>0, <1>10, <1>a DEF Publish, TypeOK, Stopped
    <3>2. published' = [published EXCEPT ![Cur] = @ + 1]
      BY <1>10 DEF Publish
    <3> QED
      BY <3>1, <3>2
  <2>3. TypeOK'
    BY <1>0, <1>10, <1>b, <2>1, <2>2 DEF Publish, TypeOK, server
  <2> QED
    BY <1>0, <2>1, <2>3, QuietThread
<1>11. ASSUME NEW i \in Id, RemotePerforms(i) \/ RemoteFails(i) PROVE ThreadInv'
  <2>1. UNCHANGED <<calls, metered, at>>
    BY <1>11 DEF RemotePerforms, RemoteFails, thread
  <2>2. reply' \in {"none", "ok", "error", "denied"}
    BY <1>0, <1>11 DEF RemotePerforms, RemoteFails, TypeOK
  <2>3. TypeOK'
    BY <1>0, <1>11, <1>b, <2>1, <2>2 DEF RemotePerforms, RemoteFails, TypeOK, server
  <2> QED
    BY <1>0, <2>1, <2>3, QuietThread
<1> QED
  BY <1>1, <1>2, <1>3, <1>4, <1>5, <1>6, <1>7, <1>8, <1>9, <1>10, <1>11, StepClass

-----------------------------------------------------------------------------
(* What a step keeps of the calls made before it *)

LEMMA CallsKept ==
  ASSUME IInv, [Next]_vars
  PROVE  /\ Cur \in Nat /\ Made = 1..Cur /\ Cur' \in Nat /\ Made' = 1..Cur' /\ Made \subseteq Made'
         /\ \A i \in Made : /\ calls'[i].cap = calls[i].cap /\ calls'[i].act = calls[i].act
                            /\ calls'[i].size = calls[i].size
                            /\ calls[i].got # "pending" => calls'[i] = calls[i]
         /\ \A i \in Made' : i \in Made \/ (i = Cur' /\ calls'[i].got = "pending" /\ at' = "slot")
         /\ \A i : Tried(i) => Tried(i)'
<1>0. TypeOK /\ OneCall /\ TypeOK' /\ Cur \in Nat /\ Made = 1..Cur /\ Cur' \in Nat /\ Made' = 1..Cur'
  <2>1. TypeOK /\ OneCall /\ TypeOK'
    BY ThreadKept DEF IInv, ThreadInv
  <2>2. Cur' \in Nat /\ Made' = 1..Cur'
    BY <2>1, BoundAssumption DEF TypeOK, Made, Cur
  <2> QED
    BY <2>1, <2>2, Basics
<1>1. ASSUME NEW s \in Scripts, Call(s)
      PROVE  /\ Made \subseteq Made' /\ \A i \in Made : calls'[i] = calls[i]
             /\ \A i \in Made' : i \in Made \/ (i = Cur' /\ calls'[i].got = "pending" /\ at' = "slot")
             /\ \A i : Tried(i) => Tried(i)'
  <2>1. /\ Made' = Made \cup {Cur'} /\ Cur' \notin Made /\ calls'[Cur'].got = "pending"
        /\ \A i \in Made : calls'[i] = calls[i]
    BY <1>0, <1>1, CallShape
  <2> QED
    BY <1>1, <2>1 DEF Tried, Call
<1>2. CASE TurnedAway \/ DbGone \/ DbReturns \/ RemoteReturns
  <2>1. PICK got \in Got \ {"pending"} :
          /\ at \notin Stopped /\ Returned(got)
          /\ got \in {"refused", "invalid"} => at = "slot"
    BY <1>2 DEF TurnedAway, DbGone, DbReturns, RemoteReturns, Stopped, DbStage, Got
  <2>2. Cur \in Made /\ calls[Cur].got = "pending"
    BY <1>0, <2>1 DEF OneCall
  <2>3. /\ Cur' = Cur /\ Made' = Made
        /\ \A i \in Made : i # Cur => calls'[i] = calls[i]
        /\ calls'[Cur].cap = Op.cap /\ calls'[Cur].act = Op.act /\ calls'[Cur].size = Op.size
        /\ calls'[Cur].got = got
    BY <1>0, <2>1, <2>2, ReturnShape DEF Returned
  <2>4. at' = "idle"
    BY <2>1 DEF Returned, Return
  <2>5. \A i : Tried(i) => Tried(i)'
    BY <2>1, <2>3, <2>4 DEF Tried
  <2>6. \A i \in Made : /\ calls'[i].cap = calls[i].cap /\ calls'[i].act = calls[i].act
                        /\ calls'[i].size = calls[i].size
                        /\ calls[i].got # "pending" => calls'[i] = calls[i]
    BY <2>2, <2>3 DEF Op
  <2> QED
    BY <1>0, <2>3, <2>5, <2>6
<1>3. ASSUME UNCHANGED calls, at' = at \/ at' \notin {"slot", "discovering"} \/ at = "slot"
      PROVE  Made' = Made /\ \A i : Tried(i) => Tried(i)'
  BY <1>3 DEF Tried, Made, Cur
<1>4. CASE DbSends \/ DbPrepared \/ DbConnect \/ ServerTakes \/ LinkBreaks \/ ServerEnds
  BY <1>0, <1>3, <1>4 DEF DbSends, DbPrepared, DbConnect, Opens, ServerTakes, LinkBreaks, ServerEnds,
                          thread, Ready
<1>5. CASE Requests \/ Moves \/ Publish \/ \E i \in Id : RemotePerforms(i) \/ RemoteFails(i)
  BY <1>0, <1>3, <1>5 DEF Requests, Moves, Publish, RemotePerforms, RemoteFails, thread
<1> QED
  BY <1>0, <1>1, <1>2, <1>4, <1>5, StepClass

-----------------------------------------------------------------------------
(* mongo, redis, mail, auth and amq *)

LEMMA RemoteStep == ASSUME IInv, [Next]_vars PROVE RemoteEffects'
<1>0. TypeOK /\ OneCall /\ RemoteEffects /\ \A i \in Id : published[i] \in Nat
  BY DEF IInv, TypeOK
<1>a. /\ \A i \in Made : i \in Made' /\ calls'[i].cap = calls[i].cap
      /\ \A i : Tried(i) => Tried(i)'
  BY CallsKept
<1>b. ASSUME \A i \in flying' \cup performed' : i \in flying \cup performed,
             \A i \in Id : published'[i] = published[i]
      PROVE  /\ \A i \in flying' \cup performed' : Tried(i)' /\ calls'[i].cap # "db"
             /\ \A i \in Id : published'[i] > 0 => Tried(i)' /\ calls'[i].cap = "amq"
  BY <1>0, <1>a, <1>b DEF RemoteEffects, Tried
<1>1. ASSUME NEW s \in Scripts, Call(s) PROVE RemoteEffects'
  <2>1. at = "idle" /\ at' = "slot" /\ UNCHANGED <<reply, flying, performed, published>>
    BY <1>1 DEF Call, remote
  <2> QED
    BY <1>0, <1>b, <2>1 DEF RemoteEffects, DbStage
<1>2. CASE TurnedAway \/ DbGone \/ DbReturns \/ RemoteReturns
  <2>1. reply' = "none" /\ UNCHANGED <<flying, performed, published>>
    BY <1>2 DEF TurnedAway, DbGone, DbReturns, RemoteReturns, Returned, Return, remote
  <2> QED
    BY <1>b, <2>1 DEF RemoteEffects
<1>3. CASE DbSends \/ DbPrepared
  <2>1. at' \in DbStage /\ UNCHANGED <<flying, performed, published>>
    BY <1>3 DEF DbSends, DbPrepared, remote, DbStage
  <2> QED
    BY <1>b, <2>1 DEF RemoteEffects, DbStage
<1>4. CASE DbConnect \/ ServerTakes \/ LinkBreaks \/ ServerEnds
  <2>1. /\ UNCHANGED <<calls, at, flying, performed, published>>
        /\ at \notin DbStage => reply' = reply
    BY <1>4 DEF DbConnect, Opens, ServerTakes, LinkBreaks, ServerEnds, thread, remote, DbStage
  <2> QED
    BY <1>0, <1>b, <2>1 DEF RemoteEffects, DbStage, Cur
<1>5. CASE Requests
  <2>1. /\ at \in {"slot", "discovering"} /\ at' = "waiting" /\ reply' = reply /\ UNCHANGED calls
        /\ Op.cap # "db" /\ flying' = flying \cup {Cur} /\ UNCHANGED <<performed, published>>
    BY <1>5 DEF Requests
  <2>2. Cur \in Made /\ Cur' = Cur /\ Made' = Made /\ calls[Cur].got = "pending" /\ reply = "none"
    BY <1>0, <2>1 DEF OneCall, RemoteEffects, Stopped, DbStage, Cur, Made
  <2>3. Tried(Cur)' /\ calls'[Cur].cap # "db"
    BY <2>1, <2>2 DEF Tried, Op
  <2>4. \A i \in flying' \cup performed' : Tried(i)' /\ calls'[i].cap # "db"
    BY <1>0, <1>a, <2>1, <2>2, <2>3 DEF RemoteEffects, Tried
  <2> QED
    BY <1>0, <1>a, <2>1, <2>2, <2>4 DEF RemoteEffects, Tried, DbStage
<1>6. CASE Moves
  <2>1. UNCHANGED <<calls, reply, flying, performed, published>>
    BY <1>6 DEF Moves, remote
  <2> QED
    BY <1>0, <1>6, <1>b, <2>1 DEF RemoteEffects, DbStage, Moves, Cur
<1>7. CASE Publish
  <2>1. /\ at = "publishing" /\ UNCHANGED <<calls, at, reply, flying, performed>>
        /\ published' = [published EXCEPT ![Cur] = @ + 1]
    BY <1>7 DEF Publish, thread
  <2>2. Tried(Cur) /\ calls[Cur].cap = "amq" /\ Cur' = Cur
    BY <1>0, <2>1 DEF OneCall, Tried, Stopped, Op, Cur
  <2>3. published \in [Id -> Nat]
    BY <1>0 DEF TypeOK
  <2>4. \A i \in Id : i # Cur => published'[i] = published[i]
    BY <2>1, <2>3
  <2>5. \A i \in Id : published'[i] > 0 => Tried(i)' /\ calls'[i].cap = "amq"
    BY <1>0, <1>a, <2>1, <2>2, <2>4 DEF RemoteEffects
  <2>6. \A i \in flying' \cup performed' : Tried(i)' /\ calls'[i].cap # "db"
    BY <1>0, <1>a, <2>1 DEF RemoteEffects
  <2> QED
    BY <1>0, <2>1, <2>2, <2>5, <2>6 DEF RemoteEffects
<1>8. ASSUME NEW i \in Id, RemotePerforms(i) \/ RemoteFails(i) PROVE RemoteEffects'
  <2>1. /\ UNCHANGED <<calls, at, published>>
        /\ flying' \cup performed' \subseteq flying \cup performed /\ performed \subseteq performed'
    BY <1>8 DEF RemotePerforms, RemoteFails, thread
  <2>2. /\ Waiting(i) => at = "waiting" /\ (reply' \in {"ok", "denied"} => Cur \in performed')
        /\ ~Waiting(i) => reply' = reply
    BY <1>8 DEF RemotePerforms, RemoteFails, Waiting
  <2>3. Cur' = Cur
    BY <2>1 DEF Cur
  <2> QED
    BY <1>0, <1>b, <2>1, <2>2, <2>3 DEF RemoteEffects
<1> QED
  BY <1>1, <1>2, <1>3, <1>4, <1>5, <1>6, <1>7, <1>8, StepClass

\* A mail is sent when the metrics leave room for it, and every mail sent before is in them.
LEMMA SendsStep == ASSUME IInv, [Next]_vars PROVE SendsBounded'
<1> SUFFICES ASSUME MaxSends # 0
             PROVE  Cardinality({i \in flying' \cup performed' : calls'[i].cap = "mail"}) <= MaxSends
  BY DEF SendsBounded
<1> DEFINE Sent == {i \in flying \cup performed : calls[i].cap = "mail"}
           Next1 == {i \in flying' \cup performed' : calls'[i].cap = "mail"}
<1>0. /\ TypeOK /\ OneCall /\ MetersOnce /\ RemoteEffects /\ MaxSends \in Nat /\ Made \subseteq Id
      /\ Cardinality(Sent) <= MaxSends
  BY Basics, BoundAssumption DEF IInv, SendsBounded
<1>1. Sent \subseteq Made /\ IsFiniteSet(Id) /\ IsFiniteSet(Made) /\ IsFiniteSet(Sent)
  <2>1. IsFiniteSet(Id)
    BY BoundAssumption, FS_Interval DEF Id
  <2>2. Sent \subseteq Made
    BY <1>0 DEF RemoteEffects, Tried
  <2> QED
    BY <1>0, <2>1, <2>2, FS_Subset
<1>a. Cardinality(Sent) \in Nat
  BY <1>1, FS_CardinalityType
<1>2. ASSUME flying' \cup performed' \subseteq flying \cup performed PROVE Cardinality(Next1) <= MaxSends
  <2>1. Next1 \subseteq Sent
    BY <1>0, <1>2, CallsKept DEF RemoteEffects, Tried
  <2>2. Cardinality(Next1) <= Cardinality(Sent) /\ Cardinality(Next1) \in Nat
    <3>1. IsFiniteSet(Next1) /\ Cardinality(Next1) <= Cardinality(Sent)
      BY <1>1, <2>1, FS_Subset
    <3> QED
      BY <3>1, FS_CardinalityType
  <2> QED
    BY <1>0, <1>a, <2>2
<1>3. CASE Requests
  <2>1. /\ at \in {"slot", "discovering"} /\ UNCHANGED calls /\ flying' = flying \cup {Cur}
        /\ UNCHANGED performed /\ (Op.cap = "mail" => ~Capped)
    BY <1>3 DEF Requests
  <2>2. CASE Op.cap # "mail"
    <3>1. Next1 = Sent
      BY <2>1, <2>2 DEF Op
    <3> QED
      BY <1>0, <3>1
  <2>3. CASE Op.cap = "mail"
    <3>1. Next1 = Sent \cup {Cur}
      BY <2>1, <2>3 DEF Op
    <3>2. Cur \notin Sent
      BY <1>0, <2>1 DEF RemoteEffects, Tried
    <3>3. Cardinality(Next1) = Cardinality(Sent) + 1
      BY <1>1, <3>1, <3>2, FS_AddElement
    <3>4. Sent \subseteq MailMetrics
      <4> SUFFICES ASSUME NEW i \in Sent PROVE metered[i] > 0 /\ i \in Made /\ calls[i].cap = "mail"
        BY DEF MailMetrics, Made
      <4>1. i \in Made /\ i # Cur /\ calls[i].got # "refused" /\ i \in Id
        BY <1>0, <1>1, <3>2 DEF RemoteEffects, Tried
      <4>2. calls[i].got # "pending"
        BY <1>0, <4>1 DEF OneCall
      <4> QED
        BY <1>0, <4>1, <4>2 DEF MetersOnce
    <3>5. /\ IsFiniteSet(MailMetrics) /\ Cardinality(Sent) <= Cardinality(MailMetrics)
          /\ Cardinality(MailMetrics) \in Nat
      <4>1. MailMetrics \subseteq Made
        BY DEF MailMetrics, Made
      <4>2. IsFiniteSet(MailMetrics)
        BY <1>1, <4>1, FS_Subset
      <4> QED
        BY <3>4, <4>2, FS_Subset, FS_CardinalityType
    <3>6. Cardinality(MailMetrics) < MaxSends
      BY <1>0, <2>1, <2>3, <3>5 DEF Capped
    <3> QED
      BY <1>0, <1>a, <3>3, <3>5, <3>6
  <2> QED
    BY <2>2, <2>3
<1>4. Requests \/ flying' \cup performed' \subseteq flying \cup performed
  <2>1. CASE TurnedAway \/ DbGone \/ DbReturns \/ RemoteReturns
    BY <2>1 DEF TurnedAway, DbGone, DbReturns, RemoteReturns, Returned, remote
  <2>2. CASE \/ DbSends \/ DbPrepared \/ DbConnect \/ ServerTakes \/ LinkBreaks \/ ServerEnds
             \/ Moves \/ Publish \/ \E s \in Scripts : Call(s)
    BY <2>2 DEF DbSends, DbPrepared, DbConnect, Opens, ServerTakes, LinkBreaks, ServerEnds, Moves,
                Publish, Call, remote
  <2>3. CASE \E i \in Id : RemotePerforms(i) \/ RemoteFails(i)
    BY <2>3 DEF RemotePerforms, RemoteFails
  <2> QED
    BY <2>1, <2>2, <2>3, StepClass
<1> QED
  BY <1>2, <1>3, <1>4

-----------------------------------------------------------------------------
(* The Postgres connection *)

\* What lies behind a call does not change any more.
LEMMA PastKept ==
  ASSUME IInv, [Next]_vars
  PROVE  /\ \A i, j \in Made : i < j => calls'[i] = calls[i] /\ calls[i].got # "pending"
         /\ \A j \in Made : /\ InBlock(j)' <=> InBlock(j)
                            /\ \A i : Between(i, j)' = Between(i, j)
                            /\ \A i \in Made : i < j =>
                                 /\ Db(i, {"begin"})' <=> Db(i, {"begin"})
                                 /\ Db(i, {"rollback"})' <=> Db(i, {"rollback"})
<1>1. OneCall /\ Cur \in Nat /\ Made = 1..Cur /\ Made' = 1..Cur' /\ Cur' \in Nat /\ Made \subseteq Made'
  BY CallsKept DEF IInv
<1>2. \A i, j \in Made : i < j => calls'[i] = calls[i] /\ calls[i].got # "pending"
  BY <1>1, CallsKept DEF OneCall
<1>3. ASSUME NEW j \in Made, NEW i PROVE Between(i, j)' = Between(i, j)
  BY <1>1 DEF Between
<1>4. ASSUME NEW j \in Made, NEW i \in Made, i < j
      PROVE  /\ Db(i, {"begin"})' <=> Db(i, {"begin"})
             /\ Db(i, {"rollback"})' <=> Db(i, {"rollback"})
             /\ Db(i, {"commit", "rollback"})' <=> Db(i, {"commit", "rollback"})
  BY <1>2, <1>4 DEF Db
<1>5. ASSUME NEW j \in Made PROVE InBlock(j)' <=> InBlock(j)
  <2>1. \A i \in Made' : i < j => i \in Made
    BY <1>1
  <2>2. ASSUME NEW i \in Made, i < j
        PROVE  (\A k \in Between(i, j) : ~Db(k, {"commit", "rollback"}))'
                 <=> \A k \in Between(i, j) : ~Db(k, {"commit", "rollback"})
    <3>1. \A k \in Between(i, j) : k \in Made /\ k < j
      BY DEF Between
    <3> QED
      BY <1>3, <1>4, <3>1
  <2> QED
    BY <1>1, <1>2, <1>4, <2>1, <2>2 DEF InBlock, OpenFrom
<1> QED
  BY <1>2, <1>3, <1>4, <1>5

\* The database does not notice what goes on elsewhere.
LEMMA DbFrame ==
  ASSUME IInv, [Next]_vars, UNCHANGED <<calls, link, wire, tx, block, saved>>,
         slot'["db"] = slot["db"],
         at \in DbStage \/ at' \in DbStage => at' = at /\ reply' = reply,
         \A i \in Made : Asked(i)' => Asked(i)
  PROVE  DbInv'
<1>0. /\ Connection /\ WireOrder /\ Writers /\ DbReplies /\ Begun
      /\ BlocksOpen /\ RollbacksDue /\ Held /\ CleanBlocks
  BY DEF IInv, DbInv
<1>1. Made' = Made /\ Cur' = Cur /\ Op' = Op
  BY DEF Made, Cur, Op
<1>2. \A i \in Made : Asked(i)' <=> Asked(i)
  BY <1>1, CallsKept DEF Asked, Tried
<1>3. \A j : OnWire(j)' <=> OnWire(j)
  BY DEF OnWire
<1>4. \A p \in DOMAIN wire : wire[p].id \in Made
  BY <1>0 DEF WireOrder, Asked, Tried
<1>5. Connection'
  BY <1>0, <1>1, <1>2 DEF Connection
<1>6. WireOrder'
  <2>1. at' \in {"prepare", "simple", "run"} => at' = at
    BY DEF DbStage
  <2> QED
    BY <1>0, <1>1, <1>2, <1>4, <2>1 DEF WireOrder
<1>7. Writers'
  <2>1. \A i \in block \cup saved : i \in Made
    BY <1>0 DEF Writers, Asked, Tried
  <2> QED
    BY <1>0, <1>1, <1>2, <2>1 DEF Writers, DbStage
<1>8. DbReplies'
  <2>1. CASE at' \in DbStage
    <3>1. at' = at /\ reply' = reply
      BY <2>1
    <3>2. \A b \in Made : b < Cur => (Db(b, {"begin"})' <=> Db(b, {"begin"}))
      BY DEF Db
    <3> QED
      BY <1>0, <1>1, <3>1, <3>2 DEF DbReplies
  <2>2. CASE at' \notin DbStage
    BY <2>2 DEF DbReplies, DbStage
  <2> QED
    BY <2>1, <2>2
<1>9. Begun'
  BY <1>0, <1>1, <1>2 DEF Begun
<1>10. BlocksOpen'
  <2>1. \A i \in Made : Unended(i)' => Unended(i)
    BY <1>1, <1>2 DEF Unended
  <2> QED
    BY <1>0, <1>1, <1>4, <2>1, PastKept DEF BlocksOpen
<1>11. RollbacksDue'
  BY <1>0, <1>1, <1>2, <1>3 DEF RollbacksDue
<1>12. Held'
  <2>1. \A w \in saved : w \in Made
    BY <1>0 DEF Writers, Asked, Tried
  <2>2. \A k \in Made : \A w : \A j \in Between(w, k) : j \in Made /\ j < k
    BY DEF Between
  <2> QED
    BY <1>0, <1>1, <1>2, <2>1, <2>2, PastKept DEF Held
<1>13. CleanBlocks'
  <2>1. \A b \in Made : (Clean(b)' <=> Clean(b)) /\ Writes(b)' = Writes(b) /\ (Intact(b)' <=> Intact(b))
    BY <1>1 DEF Clean, Writes, Intact
  <2>2. CASE at \in DbStage \/ at' \in DbStage
    <3>1. at' = at /\ reply' = reply
      BY <2>2
    <3> QED
      BY <1>0, <1>1, <2>1, <3>1 DEF CleanBlocks
  <2>3. CASE ~(at \in DbStage \/ at' \in DbStage)
    BY <1>0, <1>1, <2>1, <2>3 DEF CleanBlocks, DbStage
  <2> QED
    BY <2>2, <2>3
<1> QED
  BY <1>5, <1>6, <1>7, <1>8, <1>9, <1>10, <1>11, <1>12, <1>13 DEF DbInv

\* A call that is made is not asked of the database yet.
LEMMA CallDb ==
  ASSUME IInv, [Next]_vars, NEW s \in Scripts, Call(s) PROVE DbInv'
<1>0. /\ Connection /\ WireOrder /\ Writers /\ DbReplies /\ Begun
      /\ BlocksOpen /\ RollbacksDue /\ Held /\ CleanBlocks /\ TypeOK
  BY DEF IInv, DbInv
<1>1. /\ Made' = Made \cup {Cur'} /\ Cur' \notin Made
      /\ \A i \in Made : calls'[i] = calls[i]
      /\ calls'[Cur'].got = "pending"
  BY <1>0, CallShape
<1>2. /\ at = "idle" /\ at' = "slot" /\ UNCHANGED <<slot, link, wire, tx, block, saved>>
  BY DEF Call, server
<1>3. \A i \in Made' : Asked(i)' <=> i \in Made /\ Asked(i)
  BY <1>1, <1>2 DEF Asked, Tried
<1>4. \A j : OnWire(j)' <=> OnWire(j)
  BY <1>2 DEF OnWire
<1>5. /\ \A p \in DOMAIN wire : wire[p].id \in Made
      /\ \A i \in block \cup saved : i \in Made
  BY <1>0 DEF WireOrder, Writers, Asked, Tried
<1>6. Connection'
  BY <1>0, <1>1, <1>2, <1>3 DEF Connection
<1>7. WireOrder'
  BY <1>0, <1>1, <1>2, <1>3, <1>5 DEF WireOrder
<1>8. Writers' /\ DbReplies'
  BY <1>0, <1>1, <1>2, <1>3, <1>5 DEF Writers, DbReplies, DbStage
<1>9. Begun'
  BY <1>0, <1>1, <1>2, <1>3 DEF Begun
<1>10. BlocksOpen'
  <2>1. \A i \in Made' : Unended(i)' => i \in Made /\ Unended(i)
    BY <1>1, <1>3 DEF Unended
  <2> QED
    BY <1>0, <1>2, <1>5, <2>1, PastKept DEF BlocksOpen
<1>11. RollbacksDue'
  BY <1>0, <1>1, <1>2, <1>3, <1>4, <1>5 DEF RollbacksDue, OnWire
<1>12. Held'
  <2>1. \A k \in Made : \A w : \A j \in Between(w, k) : j \in Made /\ j < k
    BY DEF Between
  <2> QED
    BY <1>0, <1>1, <1>2, <1>3, <1>5, <2>1, PastKept DEF Held
<1>13. CleanBlocks'
  <2> SUFFICES ASSUME link' = "up", NEW b \in Made', Clean(b)'
               PROVE  (\A p \in DOMAIN wire' : FALSE) /\ Intact(b)'
    BY <1>2 DEF CleanBlocks, DbStage
  <2>1. b \in Made /\ Clean(b) /\ Writes(b)' = Writes(b)
    BY <1>1 DEF Clean, Writes
  <2> QED
    BY <1>0, <1>2, <2>1 DEF CleanBlocks, Intact, DbStage
<1> QED
  BY <1>6, <1>7, <1>8, <1>9, <1>10, <1>11, <1>12, <1>13 DEF DbInv

\* A call returns: refused, from the database or from elsewhere, or because the connection
\* is gone.
LEMMA ReturnDb ==
  ASSUME IInv, [Next]_vars, at \notin Stopped, NEW got \in Got \ {"pending"}, Returned(got),
         got = "ok" /\ Op.cap = "db" => at \in {"run", "simple"} /\ reply = "ok",
         \A i \in Made : Asked(i)' => Asked(i) \/ (i = Cur /\ link # "up" /\ slot["db"] = "open")
  PROVE  DbInv'
<1>0. /\ Connection /\ WireOrder /\ Writers /\ DbReplies /\ Begun
      /\ BlocksOpen /\ RollbacksDue /\ Held /\ CleanBlocks /\ TypeOK /\ OneCall
  BY DEF IInv, DbInv
<1>a. Cur \in Made /\ Cur \in Nat /\ Made = 1..Cur /\ Op = calls[Cur] /\ calls[Cur].got = "pending"
  BY <1>0, Basics DEF OneCall, Op
<1>1. /\ Cur' = Cur /\ Made' = Made
      /\ \A i \in Made : i # Cur => calls'[i] = calls[i]
      /\ calls'[Cur].cap = Op.cap /\ calls'[Cur].act = Op.act /\ calls'[Cur].got = got
  BY <1>0, <1>a, ReturnShape DEF Returned
<1>2. at' = "idle" /\ reply' = "none" /\ UNCHANGED <<slot, link, wire, tx, block, saved>>
  BY DEF Returned, Return, server
<1>3. /\ \A i \in Made : Asked(i) => Asked(i)'
      /\ \A i \in Made : i # Cur /\ Asked(i)' => Asked(i)
      /\ \A i \in Made : calls'[i].act = calls[i].act /\ calls'[i].cap = calls[i].cap
  BY <1>1, <1>2, CallsKept DEF Asked, Tried
<1>4. \A j : OnWire(j)' <=> OnWire(j)
  BY <1>2 DEF OnWire
<1>5. /\ \A p \in DOMAIN wire : wire[p].id \in Made /\ Asked(wire[p].id)
      /\ \A i \in block \cup saved : i \in Made
  BY <1>0 DEF WireOrder, Writers, Asked, Tried
<1>6. got = "ok" /\ Op.cap = "db" => wire = <<>> /\ link = "up" /\ at \in {"run", "simple"} /\ reply = "ok"
  BY <1>0 DEF DbReplies, DbStage
<1>b. got = "ok" /\ Op.cap = "db" => DOMAIN wire = {}
  BY <1>6
<1>7. Connection'
  BY <1>0, <1>1, <1>2, <1>3 DEF Connection
<1>8. WireOrder'
  <2>1. \A p \in DOMAIN wire : \A i \in Made :
          calls'[i].cap = "db" /\ calls'[i].got = "ok" => i < wire[p].id
    BY <1>0, <1>1, <1>3, <1>b DEF WireOrder
  <2> QED
    BY <1>0, <1>1, <1>2, <1>3, <1>5, <2>1 DEF WireOrder
<1>9. Writers' /\ DbReplies'
  BY <1>0, <1>1, <1>2, <1>3, <1>5 DEF Writers, DbReplies, DbStage
<1>10. Begun'
  BY <1>0, <1>1, <1>2, <1>3 DEF Begun
<1>11. BlocksOpen'
  <2>1. ASSUME link = "up", NEW i \in Made, Unended(i)' PROVE tx # "idle"
    <3>1. CASE i # Cur
      <4>1. Unended(i)
        BY <1>1, <1>3, <2>1, <3>1 DEF Unended
      <4> QED
        BY <1>0, <2>1, <4>1 DEF BlocksOpen
    <3>2. CASE i = Cur
      <4>1. got = "ok" /\ Op.cap = "db" /\ Op.act = "begin"
        BY <1>1, <2>1, <3>2 DEF Unended, Asked
      <4> QED
        BY <1>0, <1>6, <4>1 DEF OneCall, DbReplies
    <3> QED
      BY <3>1, <3>2
  <2> QED
    BY <1>0, <1>1, <1>2, <1>5, <2>1, PastKept DEF BlocksOpen
<1>12. RollbacksDue'
  <2> SUFFICES ASSUME NEW w \in Made, NEW j \in Made, w \in block \/ OnWire(w), w < j, Asked(j)',
                      calls[j].act = "rollback"
               PROVE  OnWire(j) \/ (link # "up" /\ \A p \in DOMAIN wire : wire[p].id < j)
    BY <1>1, <1>2, <1>3, <1>4 DEF RollbacksDue
  <2>1. CASE Asked(j)
    BY <1>0, <2>1 DEF RollbacksDue
  <2>2. CASE ~Asked(j)
    <3>1. j = Cur /\ link # "up"
      BY <1>3, <2>2
    <3>2. \A p \in DOMAIN wire : wire[p].id \in Made /\ wire[p].id # Cur
      BY <1>5, <2>2, <3>1
    <3> QED
      BY <1>a, <3>1, <3>2
  <2> QED
    BY <2>1, <2>2
<1>13. Held'
  <2>1. \A k \in Made : \A w : \A j \in Between(w, k) : j \in Made /\ j < k
    BY DEF Between
  <2> QED
    BY <1>0, <1>1, <1>2, <1>3, <1>5, <2>1, PastKept DEF Held
<1>14. CleanBlocks'
  <2> SUFFICES ASSUME link = "up", NEW b \in Made, Clean(b)'
               PROVE  DOMAIN wire = {} /\ Intact(b)'
    BY <1>1, <1>2 DEF CleanBlocks, DbStage
  <2>1. CASE b = Cur
    <3>1. got = "ok" /\ Op.cap = "db" /\ Op.act = "begin"
      BY <1>1, <2>1 DEF Clean
    <3>2. tx = "open"
      BY <1>0, <1>6, <3>1 DEF OneCall, DbReplies
    <3>3. Writes(b)' = {}
      BY <1>a, <1>1, <2>1 DEF Writes
    <3> QED
      BY <1>2, <1>b, <3>1, <3>2, <3>3 DEF Intact
  <2>2. CASE b # Cur
    <3>1. b < Cur
      BY <1>a, <2>2
    <3>2. Clean(b)
      BY <1>a, <1>1, <2>2 DEF Clean
    <3>3. CASE Op.cap # "db"
      <4>1. at \notin DbStage
        BY <1>0, <3>3 DEF OneCall
      <4>2. Writes(b)' = Writes(b)
        BY <1>a, <1>1, <3>3 DEF Writes
      <4> QED
        BY <1>0, <1>2, <3>2, <4>1, <4>2 DEF CleanBlocks, Intact
    <3>4. CASE Op.cap = "db"
      <4>1. got = "ok" /\ Op.act \notin {"commit", "rollback"}
        BY <1>a, <1>1, <3>1, <3>4 DEF Clean, Got
      <4>2. at \in {"run", "simple"} /\ at \in DbStage /\ reply = "ok" /\ DOMAIN wire = {}
        BY <1>6, <1>b, <3>4, <4>1 DEF DbStage
      <4>3. Intact(b) /\ (at = "run" /\ Op.act = "execute" => Cur \in block)
        BY <1>0, <3>2, <4>1, <4>2 DEF CleanBlocks
      <4>4. Op.act = "execute" => at = "run"
        BY <1>0, <4>2 DEF OneCall
      <4>5. Writes(b)' \subseteq Writes(b) \cup {i \in {Cur} : Op.act = "execute"}
        BY <1>a, <1>1 DEF Writes
      <4> QED
        BY <1>2, <4>2, <4>3, <4>4, <4>5 DEF Intact
    <3> QED
      BY <3>3, <3>4
  <2> QED
    BY <2>1, <2>2
<1> QED
  BY <1>7, <1>8, <1>9, <1>10, <1>11, <1>12, <1>13, <1>14 DEF DbInv

\* The call of a block is asked of a server that is in the transaction.
LEMMA BlockReaches ==
  ASSUME IInv, link = "up", Cur \in Made, InBlock(Cur),
         Asked(Cur) => Op.act \notin {"commit", "rollback"}
  PROVE  tx # "idle"
<1>1. BlocksOpen /\ Cur \in Nat /\ Made = 1..Cur /\ Op = calls[Cur]
  BY Basics DEF IInv, DbInv, Op
<1>2. PICK i \in Made : OpenFrom(i, Cur)
  BY DEF InBlock
<1>3. /\ i < Cur /\ calls[i].cap = "db" /\ calls[i].act = "begin" /\ calls[i].got = "ok"
      /\ \A k \in Made : i < k /\ k < Cur => ~Db(k, {"commit", "rollback"})
  BY <1>2 DEF OpenFrom, Between, Db
<1>4. Asked(i)
  BY <1>1, <1>3 DEF Asked, Tried
<1>5. ASSUME NEW k \in Made, i < k, Asked(k) PROVE calls[k].act \notin {"commit", "rollback"}
  <2>1. CASE k = Cur
    BY <1>1, <1>5, <2>1
  <2>2. CASE k # Cur
    BY <1>1, <1>3, <1>5, <2>2 DEF Asked, Tried, Db
  <2> QED
    BY <2>1, <2>2
<1>6. Unended(i)
  BY <1>3, <1>4, <1>5 DEF Unended
<1> QED
  BY <1>1, <1>6 DEF BlocksOpen

LEMMA DbSendsDb == ASSUME IInv, [Next]_vars, DbSends PROVE DbInv'
<1>0. /\ Connection /\ WireOrder /\ Writers /\ DbReplies /\ Begun
      /\ BlocksOpen /\ RollbacksDue /\ Held /\ CleanBlocks /\ TypeOK /\ OneCall /\ RemoteEffects
  BY DEF IInv, DbInv
<1>a. at = "slot" /\ Op.cap = "db" /\ slot["db"] = "open" /\ link = "up" /\ reply = "none"
  BY <1>0 DEF DbSends, Ready, Lazy, Cap, RemoteEffects, DbStage
<1>b. /\ Cur \in Made /\ Cur \in Nat /\ Made = 1..Cur /\ Op = calls[Cur] /\ calls[Cur].got = "pending"
      /\ Made' = Made /\ Cur' = Cur /\ Op' = Op
  BY <1>0, <1>a, Basics DEF OneCall, Op, Stopped, DbSends, Made, Cur
<1>1. /\ at' \in DbStage /\ at' # "run" /\ (at' = "prepare" <=> Op.act \in {"query", "execute"})
      /\ UNCHANGED <<calls, reply, slot, link, tx, block, saved>>
  BY DEF DbSends, DbStage, server
<1> DEFINE n == Len(wire) + 1
           cmd == Command(Op.act)
<1>2. /\ DOMAIN wire' = DOMAIN wire \cup {n}
      /\ \A p \in DOMAIN wire : p < n /\ p \in Nat /\ wire'[p] = wire[p]
      /\ wire'[n].id = Cur /\ wire'[n].cmd = cmd /\ cmd # "RUN" /\ n \in Nat
  <2>1. cmd \in {"BEGIN", "COMMIT", "ROLLBACK", "PREPARE", "RUN"} /\ cmd # "RUN" /\ Send(cmd)
    BY CommandType DEF DbSends
  <2> HIDE DEF cmd
  <2>2. /\ DOMAIN wire' = DOMAIN wire \cup {n}
        /\ \A p \in DOMAIN wire : p < n /\ wire'[p] = wire[p]
        /\ wire'[n] = [id |-> Cur, cmd |-> cmd]
    BY <1>0, <1>b, <2>1, SendShape
  <2>3. DOMAIN wire \subseteq Nat /\ n \in Nat
    BY <1>0, Basics
  <2> QED
    BY <2>1, <2>2, <2>3
<1> HIDE DEF n
<1>3. \A i \in Made : /\ Asked(i) => i # Cur /\ Asked(i)'
                      /\ Asked(i)' <=> i = Cur \/ Asked(i)
  BY <1>a, <1>b, <1>1 DEF Asked, Tried, DbStage
<1>4. /\ \A p \in DOMAIN wire : Asked(wire[p].id) /\ wire[p].id \in Made /\ wire[p].id < Cur
      /\ \A i \in block \cup saved : i \in Made /\ i < Cur
  <2>1. /\ \A p \in DOMAIN wire : Asked(wire[p].id) /\ wire[p].id \in Made
        /\ \A i \in block \cup saved : i \in Made /\ Asked(i)
    BY <1>0 DEF WireOrder, Writers, Asked, Tried
  <2> QED
    BY <1>b, <1>3, <2>1
<1>5. \A j : OnWire(j)' <=> j = Cur \/ OnWire(j)
  BY <1>2 DEF OnWire
<1>6. Connection'
  BY <1>0, <1>a, <1>1 DEF Connection
<1>7. WireOrder'
  <2>1. ASSUME NEW p \in DOMAIN wire', NEW q \in DOMAIN wire', p < q PROVE wire'[p].id < wire'[q].id
    <3>1. p \in DOMAIN wire
      BY <1>2, <2>1
    <3>2. CASE q \in DOMAIN wire
      BY <1>0, <1>2, <2>1, <3>1, <3>2 DEF WireOrder
    <3>3. CASE q = n
      BY <1>2, <1>4, <3>1, <3>3
    <3> QED
      BY <1>2, <3>2, <3>3
  <2>2. ASSUME NEW p \in DOMAIN wire', NEW i \in Made, wire'[p].id = i
        PROVE  /\ Asked(i)'
               /\ wire'[p].cmd = "RUN" \/ wire'[p].cmd = Command(calls[i].act)
               /\ wire'[p].cmd = "RUN" => calls[i].act \in {"query", "execute"}
               /\ i = Cur => wire'[p].cmd # "RUN"
               /\ \A j \in Made : calls[j].cap = "db" /\ calls[j].got = "ok" => j < i
               /\ \A w \in block : w < i
    <3>1. CASE p = n
      <4>1. \A j \in Made : calls[j].got = "ok" => j < Cur
        BY <1>b
      <4> QED
        BY <1>b, <1>2, <1>3, <1>4, <2>2, <3>1, <4>1
    <3>2. CASE p # n
      <4>1. p \in DOMAIN wire /\ wire'[p] = wire[p] /\ i # Cur
        BY <1>b, <1>2, <1>4, <2>2, <3>2
      <4> QED
        BY <1>0, <1>3, <2>2, <4>1 DEF WireOrder
    <3> QED
      BY <3>1, <3>2
  <2>3. \A p \in DOMAIN wire' : wire'[p].id \in Made
    BY <1>b, <1>2, <1>4
  <2>4. \A p \in DOMAIN wire' : Asked(wire[p].id)'
    BY <2>2, <2>3 DEF Asked, Tried
  <2> QED
    BY <1>b, <1>1, <2>1, <2>2, <2>3, <2>4 DEF WireOrder
<1>8. Writers' /\ DbReplies'
  BY <1>0, <1>a, <1>b, <1>1, <1>3, <1>4 DEF Writers, DbReplies
<1>9. Begun'
  BY <1>0, <1>b, <1>1, <1>2, <1>3 DEF Begun
<1>10. BlocksOpen'
  <2>1. InBlock(Cur) => tx # "idle"
    BY <1>a, <1>b, <1>3, BlockReaches
  <2>2. \A p \in DOMAIN wire : InBlock(wire[p].id) => tx # "idle"
    BY <1>0 DEF BlocksOpen
  <2>3. \A j \in Made : j = Cur \/ OnWire(j) => (InBlock(j)' => tx # "idle")
    BY <1>b, <2>1, <2>2, PastKept DEF OnWire
  <2>4. \A p \in DOMAIN wire' : wire'[p].id \in Made /\ (wire'[p].id = Cur \/ OnWire(wire'[p].id))
    BY <1>b, <1>2, <1>4 DEF OnWire
  <2>5. \A p \in DOMAIN wire' : InBlock(wire[p].id)' => tx # "idle"
    BY <2>3, <2>4
  <2>6. \A i \in Made : Unended(i)' => tx # "idle"
    <3>1. \A i \in Made : Unended(i)' => Unended(i)
      BY <1>b, <1>1, <1>3 DEF Unended
    <3> QED
      BY <1>0, <1>a, <3>1 DEF BlocksOpen
  <2> QED
    BY <1>b, <1>1, <2>5, <2>6 DEF BlocksOpen
<1>11. RollbacksDue'
  BY <1>0, <1>a, <1>b, <1>1, <1>3, <1>5 DEF RollbacksDue
<1>12. Held'
  <2>1. \A k \in Made : \A w : \A j \in Between(w, k) : j \in Made /\ j < k
    BY DEF Between
  <2> QED
    BY <1>0, <1>b, <1>1, <1>3, <1>4, <2>1, PastKept DEF Held
<1>13. CleanBlocks'
  <2> SUFFICES ASSUME NEW b \in Made, Clean(b)'
               PROVE  (\A p \in DOMAIN wire' : wire'[p].id = Cur) /\ Intact(b)'
    BY <1>a, <1>b, <1>1 DEF CleanBlocks
  <2>1. Clean(b) /\ Writes(b)' = Writes(b)
    BY <1>b, <1>1 DEF Clean, Writes
  <2>2. (\A p \in DOMAIN wire : FALSE) /\ Intact(b)
    BY <1>0, <1>a, <2>1 DEF CleanBlocks, DbStage
  <2> QED
    BY <1>1, <1>2, <2>1, <2>2 DEF Intact
<1> QED
  BY <1>6, <1>7, <1>8, <1>9, <1>10, <1>11, <1>12, <1>13 DEF DbInv

\* The statement is run once it is prepared: nothing else is on the wire.
LEMMA DbPreparedDb == ASSUME IInv, [Next]_vars, DbPrepared PROVE DbInv'
<1>0. /\ Connection /\ WireOrder /\ Writers /\ DbReplies /\ Begun
      /\ BlocksOpen /\ RollbacksDue /\ Held /\ CleanBlocks /\ TypeOK /\ OneCall
  BY DEF IInv, DbInv
<1>a. /\ at = "prepare" /\ reply = "ok" /\ link = "up" /\ wire = <<>> /\ DOMAIN wire = {}
      /\ at' = "run" /\ reply' = "none" /\ UNCHANGED <<calls, slot, link, tx, block, saved>>
  BY <1>0 DEF DbPrepared, DbReplies, DbStage, server
<1>b. /\ Cur \in Made /\ Cur \in Nat /\ Made = 1..Cur /\ Op = calls[Cur] /\ calls[Cur].got = "pending"
      /\ Made' = Made /\ Cur' = Cur /\ Op' = Op
      /\ calls[Cur].cap = "db" /\ calls[Cur].act \in {"query", "execute"}
  BY <1>0, <1>a, Basics DEF OneCall, Op, Stopped, DbStage, Made, Cur
<1>2. \E n : DOMAIN wire' = {n} /\ wire'[n].id = Cur /\ wire'[n].cmd = "RUN" /\ n \in Nat
  <2>1. /\ DOMAIN wire' = DOMAIN wire \cup {Len(wire) + 1}
        /\ wire'[Len(wire) + 1] = [id |-> Cur, cmd |-> "RUN"]
    BY <1>0, <1>b, SendShape DEF DbPrepared
  <2>2. Len(wire) + 1 \in Nat
    BY <1>0, Basics
  <2> QED
    BY <1>a, <2>1, <2>2
<1>3. \A i \in Made : Asked(i)' <=> Asked(i)
  BY <1>a, <1>b DEF Asked, Tried
<1>4. Asked(Cur) /\ \A i \in block \cup saved : i \in Made
  BY <1>0, <1>a, <1>b DEF Writers, Asked, Tried
<1>c. \A w \in block : w < Cur
  BY <1>0, <1>a, <1>b, <1>4 DEF Writers
<1>5. \A j : OnWire(j)' <=> j = Cur
  BY <1>2 DEF OnWire
<1>6. Connection'
  BY <1>0, <1>a, <1>b, <1>3 DEF Connection
<1>7. WireOrder'
  <2>1. \A p, q \in DOMAIN wire' : ~(p < q)
    BY <1>2
  <2>2. \A p \in DOMAIN wire' : wire'[p].id = Cur /\ wire'[p].cmd = "RUN"
    BY <1>2
  <2>3. \A p \in DOMAIN wire' : Asked(wire[p].id)'
    BY <1>3, <1>4, <1>b, <2>2 DEF Asked, Tried
  <2>4. \A i \in Made : calls[i].got = "ok" => i < Cur
    BY <1>b
  <2> QED
    BY <1>a, <1>b, <1>c, <2>1, <2>2, <2>3, <2>4 DEF WireOrder
<1>8. Writers' /\ DbReplies'
  BY <1>0, <1>a, <1>b, <1>3, <1>4 DEF Writers, DbReplies
<1>9. Begun'
  <2>1. \A b \in Made : calls[b].act = "begin" => b < Cur
    BY <1>b
  <2> QED
    BY <1>0, <1>a, <1>b, <1>2, <1>3, <2>1 DEF Begun
<1>10. BlocksOpen'
  <2>1. InBlock(Cur) => tx # "idle"
    BY <1>a, <1>b, BlockReaches
  <2>2. \A j \in Made : j = Cur => (InBlock(j)' => tx # "idle")
    BY <2>1, PastKept
  <2>3. \A p \in DOMAIN wire' : wire'[p].id \in Made /\ wire'[p].id = Cur
    BY <1>b, <1>2
  <2>4. \A p \in DOMAIN wire' : InBlock(wire[p].id)' => tx # "idle"
    BY <2>2, <2>3
  <2>5. \A i \in Made : Unended(i)' => Unended(i)
    BY <1>a, <1>b, <1>3 DEF Unended
  <2> QED
    BY <1>0, <1>a, <1>b, <2>4, <2>5 DEF BlocksOpen
<1>11. RollbacksDue'
  <2>1. ~\E j : OnWire(j)
    BY <1>a DEF OnWire
  <2> QED
    BY <1>0, <1>a, <1>b, <1>3, <1>5, <2>1 DEF RollbacksDue
<1>12. Held'
  <2>1. \A k \in Made : \A w : \A j \in Between(w, k) : j \in Made /\ j < k
    BY DEF Between
  <2> QED
    BY <1>0, <1>a, <1>b, <1>3, <1>4, <2>1, PastKept DEF Held
<1>13. CleanBlocks'
  <2> SUFFICES ASSUME NEW b \in Made, Clean(b)' PROVE Intact(b)'
    BY <1>a, <1>b, <1>2 DEF CleanBlocks, DbStage
  <2>1. Clean(b) /\ Writes(b)' = Writes(b)
    BY <1>a, <1>b DEF Clean, Writes
  <2>2. Intact(b)
    BY <1>0, <1>a, <1>b, <2>1 DEF CleanBlocks, DbStage
  <2> QED
    BY <1>a, <2>1, <2>2 DEF Intact
<1> QED
  BY <1>6, <1>7, <1>8, <1>9, <1>10, <1>11, <1>12, <1>13 DEF DbInv

\* Before the first call connects, the database was asked for nothing.
LEMMA DbConnectDb == ASSUME IInv, [Next]_vars, DbConnect PROVE DbInv'
<1>0. /\ Connection /\ WireOrder /\ Writers /\ TypeOK /\ OneCall
  BY DEF IInv, DbInv
<1>a. /\ at = "slot" /\ slot["db"] = "unset" /\ UNCHANGED <<calls, at, reply, wire, tx, block, saved>>
  BY DEF DbConnect, Opens, thread, server
<1>b. PICK o \in {"open", "failed"} :
        slot' = [slot EXCEPT !["db"] = o] /\ link' = IF o = "open" THEN "up" ELSE link
  BY DEF DbConnect, Opens
<1>c. slot'["db"] = o
  BY <1>0, <1>b DEF TypeOK, Lazy, Cap
<1>1. /\ link = "none" /\ tx = "idle" /\ tx' = "idle" /\ \A i \in Made : ~Asked(i)
  BY <1>0, <1>a DEF Connection
<1>2. DOMAIN wire' = {} /\ block' = {} /\ saved' = {}
  BY <1>0, <1>a, <1>1 DEF WireOrder, Writers, Asked, Tried
<1>3. Made' = Made /\ \A i \in Made : ~Asked(i)'
  BY <1>a, <1>1 DEF Asked, Tried, Made, Cur
<1>4. Connection'
  BY <1>b, <1>c, <1>1, <1>3, <1>a DEF Connection
<1>5. WireOrder' /\ Writers' /\ DbReplies' /\ Begun' /\ Held'
  BY <1>a, <1>1, <1>2 DEF WireOrder, Writers, DbReplies, Begun, Held, DbStage
<1>6. BlocksOpen' /\ RollbacksDue'
  BY <1>2, <1>3 DEF BlocksOpen, RollbacksDue, Unended
<1>7. CleanBlocks'
  <2>1. ASSUME NEW b \in Made, Clean(b)' PROVE FALSE
    BY <1>0, <1>a, <1>3, <2>1 DEF Clean, Asked, Tried, OneCall, Stopped, Made, Cur
  <2> QED
    BY <1>3, <2>1 DEF CleanBlocks
<1> QED
  BY <1>4, <1>5, <1>6, <1>7 DEF DbInv

\* The connection breaks, or the server session ends: nothing more is promised of it.
LEMMA BreakDb == ASSUME IInv, [Next]_vars, LinkBreaks \/ ServerEnds PROVE DbInv'
<1>0. /\ Connection /\ WireOrder /\ Writers /\ DbReplies /\ Begun
      /\ BlocksOpen /\ RollbacksDue /\ Held /\ TypeOK /\ OneCall
  BY DEF IInv, DbInv
<1>1. /\ UNCHANGED <<calls, at, slot, saved>> /\ link' # "up" /\ link' # "none" /\ link # "none"
      /\ Cur' = Cur /\ Made' = Made
  BY DEF LinkBreaks, ServerEnds, thread, server, Cur, Made
<1>2. \A i : Asked(i)' <=> Asked(i)
  BY <1>1 DEF Asked, Tried
<1>3. \/ UNCHANGED <<wire, tx, block>>
      \/ wire' = <<>> /\ DOMAIN wire' = {} /\ tx' = "idle" /\ block' = {}
  BY DEF LinkBreaks, ServerEnds, server
<1>4. at \in DbStage => reply' = "none"
  BY <1>0 DEF LinkBreaks, ServerEnds, DbStage, DbReplies, TypeOK
<1>5. Connection'
  BY <1>0, <1>1, <1>2, <1>3 DEF Connection
<1>6. WireOrder' /\ Writers'
  <2>1. CASE UNCHANGED <<wire, tx, block>>
    BY <1>0, <1>1, <1>2, <2>1 DEF WireOrder, Writers, Asked, Tried
  <2>2. CASE DOMAIN wire' = {} /\ block' = {}
    BY <1>0, <1>1, <1>2, <2>2 DEF WireOrder, Writers
  <2> QED
    BY <1>3, <2>1, <2>2
<1>7. DbReplies'
  BY <1>1, <1>4 DEF DbReplies, DbStage
<1>8. Begun'
  BY <1>0, <1>1, <1>2, <1>3 DEF Begun
<1>9. BlocksOpen'
  <2>1. CASE UNCHANGED <<wire, tx, block>>
    <3>1. \A p \in DOMAIN wire : wire[p].id \in Made
      BY <1>0 DEF WireOrder, Asked, Tried
    <3> QED
      BY <1>0, <1>1, <2>1, <3>1, PastKept DEF BlocksOpen
  <2>2. CASE DOMAIN wire' = {}
    BY <1>1, <2>2 DEF BlocksOpen
  <2> QED
    BY <1>3, <2>1, <2>2
<1>10. RollbacksDue'
  <2>1. CASE UNCHANGED <<wire, tx, block>>
    BY <1>0, <1>1, <1>2, <2>1 DEF RollbacksDue, OnWire
  <2>2. CASE DOMAIN wire' = {} /\ block' = {}
    BY <2>2 DEF RollbacksDue, OnWire
  <2> QED
    BY <1>3, <2>1, <2>2
<1>11. Held'
  <2>1. \A k \in Made : \A w : \A j \in Between(w, k) : j \in Made /\ j < k
    BY DEF Between
  <2>2. \A w \in saved : w \in Made
    BY <1>0 DEF Writers, Asked, Tried
  <2> QED
    BY <1>0, <1>1, <1>2, <2>1, <2>2, PastKept DEF Held
<1>12. CleanBlocks'
  BY <1>1 DEF CleanBlocks
<1> QED
  BY <1>5, <1>6, <1>7, <1>8, <1>9, <1>10, <1>11, <1>12 DEF DbInv

\* What is known when the server takes a message: it is the first, of a call that was asked,
\* and later than all that was answered or is in the transaction.
LEMMA TakesFacts ==
  ASSUME IInv, [Next]_vars, NEW m, NEW o, Takes(m, o)
  PROVE  /\ Made' = Made /\ Cur' = Cur /\ Op' = Op /\ UNCHANGED <<calls, at, slot, link>>
         /\ \A i : Asked(i)' <=> Asked(i)
         /\ m.id \in Made /\ m.id \in Nat /\ Asked(m.id) /\ OnWire(m.id)
         /\ m.cmd = "COMMIT" <=> calls[m.id].act = "commit"
         /\ m.cmd = "ROLLBACK" <=> calls[m.id].act = "rollback"
         /\ m.cmd = "BEGIN" <=> calls[m.id].act = "begin"
         /\ m.cmd = "RUN" => calls[m.id].act \in {"query", "execute"}
         /\ \A i \in Made : calls[i].cap = "db" /\ calls[i].got = "ok" => i < m.id
         /\ \A w \in block : w \in Made /\ w < m.id
         /\ InBlock(m.id) => tx # "idle"
         /\ \A i : OnWire(i)' => OnWire(i) /\ m.id < i
         /\ \A i : OnWire(i) => i = m.id \/ OnWire(i)'
         /\ \A p \in DOMAIN wire' : OnWire(wire'[p].id) /\ wire'[p].id \in Made /\ m.id < wire'[p].id
         /\ m.id = Cur => DOMAIN wire' = {} /\ wire' = <<>>
         /\ at \in DbStage => reply = "none"
<1>0. WireOrder /\ Writers /\ DbReplies /\ BlocksOpen /\ TypeOK
  BY DEF IInv, DbInv
<1>a. Made = 1..Cur /\ Cur \in Nat /\ DOMAIN wire \subseteq Nat /\ wire # <<>>
  BY <1>0, Basics DEF Takes
<1>1. Made' = Made /\ Cur' = Cur /\ Op' = Op /\ UNCHANGED <<calls, at, slot, link>>
  BY DEF Takes, Made, Cur, Op
<1>2. \A i : Asked(i)' <=> Asked(i)
  BY <1>1 DEF Asked, Tried
<1>3. 1 \in DOMAIN wire /\ m = wire[1]
  BY DEF Takes
<1>4. Asked(m.id) /\ m.id \in Made /\ m.id \in Nat /\ OnWire(m.id)
  <2>1. Asked(m.id)
    BY <1>0, <1>3 DEF WireOrder
  <2> QED
    BY <1>a, <1>3, <2>1 DEF Asked, Tried, OnWire
<1>5. /\ m.cmd = "RUN" \/ m.cmd = Command(calls[m.id].act)
      /\ m.cmd = "RUN" => calls[m.id].act \in {"query", "execute"}
      /\ \A i \in Made : calls[i].cap = "db" /\ calls[i].got = "ok" => i < m.id
      /\ \A w \in block : w < m.id
  BY <1>0, <1>3 DEF WireOrder
<1>6. /\ m.cmd = "COMMIT" <=> calls[m.id].act = "commit"
      /\ m.cmd = "ROLLBACK" <=> calls[m.id].act = "rollback"
      /\ m.cmd = "BEGIN" <=> calls[m.id].act = "begin"
  BY <1>5 DEF Command
<1>7. \A w \in block : w \in Made
  BY <1>0 DEF Writers, Asked, Tried
<1>8. InBlock(m.id) => tx # "idle"
  BY <1>0, <1>3 DEF BlocksOpen
<1>9. \A p \in DOMAIN wire' : OnWire(wire'[p].id) /\ wire'[p].id \in Made /\ m.id < wire'[p].id
  <2> SUFFICES ASSUME NEW p \in DOMAIN wire'
               PROVE  OnWire(wire'[p].id) /\ wire'[p].id \in Made /\ m.id < wire'[p].id
    OBVIOUS
  <2>1. p + 1 \in DOMAIN wire /\ wire'[p] = wire[p + 1] /\ p \in DOMAIN wire'
    BY DEF Takes
  <2>2. p \in Nat \ {0}
    <3>1. wire' \in Seq(MsgRec)
      BY DEF Takes
    <3> QED
      BY <3>1
  <2>3. m.id < wire[p + 1].id /\ Asked(wire[p + 1].id)
    BY <1>0, <1>3, <2>1, <2>2 DEF WireOrder
  <2> QED
    BY <2>1, <2>3 DEF OnWire, Asked, Tried
<1>10. \A i : OnWire(i)' => OnWire(i) /\ m.id < i
  BY <1>9 DEF OnWire
<1>11. \A i : OnWire(i) => i = m.id \/ OnWire(i)'
  BY <1>3 DEF Takes, OnWire
<1>12. m.id = Cur => DOMAIN wire' = {} /\ wire' = <<>>
  <2>1. ASSUME m.id = Cur PROVE DOMAIN wire' = {}
    <3>1. ASSUME NEW p \in DOMAIN wire' PROVE FALSE
      <4>1. wire'[p].id \in 1..Cur /\ Cur < wire'[p].id
        BY <1>a, <1>9, <2>1
      <4> QED
        BY <1>a, <4>1
    <3> QED
      BY <3>1
  <2>2. wire' \in Seq(MsgRec)
    BY DEF Takes
  <2>3. DOMAIN wire' = {} => wire' = <<>>
    BY <2>2
  <2> QED
    BY <2>1, <2>3
<1>13. at \in DbStage => reply = "none"
  BY <1>0, <1>a DEF DbReplies
<1> QED
  BY <1>1, <1>2, <1>4, <1>5, <1>6, <1>7, <1>8, <1>9, <1>10, <1>11, <1>12, <1>13

\* How the transaction and the writes change.
LEMMA TakesWrites ==
  ASSUME IInv, [Next]_vars, NEW m, NEW o, Takes(m, o)
  PROVE  /\ \A w \in block' : w \in block \/ (w = m.id /\ m.cmd = "RUN" /\ calls[w].act = "execute")
         /\ \A w \in saved' : \/ w \in saved
                              \/ m.cmd = "COMMIT" /\ w \in block
                              \/ /\ w = m.id /\ m.cmd = "RUN" /\ calls[w].act = "execute"
                                 /\ tx = "idle"
         /\ saved \subseteq saved'
         /\ m.cmd = "ROLLBACK" => block' = {}
         /\ tx' = "idle" => tx = "idle" \/ m.cmd \in {"COMMIT", "ROLLBACK"}
         /\ tx' # "idle" => tx # "idle" \/ m.cmd = "BEGIN"
         /\ o.ok /\ m.cmd = "BEGIN" => tx' = "open"
         /\ o.ok /\ m.cmd = "COMMIT" /\ tx # "failed" => block \subseteq saved'
         /\ o.ok /\ m.cmd \notin {"COMMIT", "ROLLBACK"} /\ tx = "open" =>
              tx' = "open" /\ block \subseteq block'
         /\ o.ok /\ m.cmd = "RUN" /\ calls[m.id].act = "execute" =>
              \/ tx = "idle" /\ m.id \in saved'
              \/ tx = "open" /\ m.id \in block'
<1>1. Outcome(m, o) /\ tx' = o.tx /\ block' = o.block /\ saved' = o.saved
  BY DEF Takes
<1>2. CASE m.cmd \notin {"COMMIT", "ROLLBACK"} /\ o = Failure
  BY <1>1, <1>2 DEF Failure, After
<1>3. CASE m.cmd = "BEGIN" /\ tx # "failed" /\ o = After(TRUE, "open", block, saved)
  BY <1>1, <1>3 DEF After
<1>4. CASE m.cmd = "COMMIT" /\ tx = "failed" /\ o = After(TRUE, "idle", {}, saved)
  BY <1>1, <1>4 DEF After
<1>5. CASE m.cmd = "COMMIT" /\ tx # "failed" /\ o = After(TRUE, "idle", {}, saved \cup block)
  BY <1>1, <1>5 DEF After
<1>6. CASE m.cmd = "COMMIT" /\ tx # "failed" /\ o = After(FALSE, "idle", {}, saved)
  BY <1>1, <1>6 DEF After
<1>7. CASE m.cmd = "ROLLBACK" /\ o = After(TRUE, "idle", {}, saved)
  BY <1>1, <1>7 DEF After
<1>8. CASE m.cmd = "PREPARE" /\ tx # "failed" /\ o = After(TRUE, tx, block, saved)
  BY <1>1, <1>8 DEF After
<1>9. CASE /\ m.cmd = "RUN" /\ tx = "open"
           /\ o = After(TRUE, tx, block \cup {i \in {m.id} : calls[i].act = "execute"}, saved)
  BY <1>1, <1>9 DEF After
<1>10. CASE /\ m.cmd = "RUN" /\ tx = "idle"
            /\ o = After(TRUE, tx, block, saved \cup {i \in {m.id} : calls[i].act = "execute"})
  BY <1>1, <1>10 DEF After
<1> QED
  BY <1>1, <1>2, <1>3, <1>4, <1>5, <1>6, <1>7, <1>8, <1>9, <1>10 DEF Outcome

\* The server takes a message: its place among the others, and the answer to the thread.
LEMMA TakesWire ==
  ASSUME IInv, [Next]_vars, NEW m, NEW o, Takes(m, o)
  PROVE  Connection' /\ WireOrder' /\ Writers' /\ DbReplies' /\ Begun'
<1>0. Connection /\ WireOrder /\ Writers /\ DbReplies /\ Begun /\ TypeOK /\ OneCall
  BY DEF IInv, DbInv
<1>a. /\ Made' = Made /\ Cur' = Cur /\ Op' = Op /\ UNCHANGED <<calls, at, slot, link>>
      /\ \A i : Asked(i)' <=> Asked(i)
      /\ m.id \in Made /\ m.id \in Nat /\ Asked(m.id) /\ OnWire(m.id)
  BY TakesFacts
<1>b. Made = 1..Cur /\ Cur \in Nat
  BY <1>0, Basics
<1>c. 1 \in DOMAIN wire /\ m = wire[1]
  BY DEF Takes
<1>1. Connection'
  BY <1>0, <1>a DEF Connection
<1>2. WireOrder'
  <2>1. \A p \in DOMAIN wire' : p \in Nat /\ p + 1 \in DOMAIN wire /\ wire'[p] = wire[p + 1]
    <3>1. wire' \in Seq(MsgRec)
      BY DEF Takes
    <3>2. \A p \in DOMAIN wire' : p \in Nat
      BY <3>1
    <3> QED
      BY <3>2 DEF Takes
  <2>2. \A p, q \in DOMAIN wire' : p < q => wire'[p].id < wire'[q].id
    BY <1>0, <2>1 DEF WireOrder
  <2>3. ASSUME NEW p \in DOMAIN wire', NEW i \in Made, wire'[p].id = i
        PROVE  /\ Asked(i)'
               /\ wire'[p].cmd = "RUN" \/ wire'[p].cmd = Command(calls[i].act)
               /\ wire'[p].cmd = "RUN" => calls[i].act \in {"query", "execute"}
               /\ i = Cur /\ at \in {"prepare", "simple"} => wire'[p].cmd # "RUN"
               /\ i = Cur /\ at = "run" => wire'[p].cmd = "RUN"
               /\ \A j \in Made : calls[j].cap = "db" /\ calls[j].got = "ok" => j < i
               /\ \A w \in block : w < i
    BY <1>0, <1>a, <2>1, <2>3 DEF WireOrder
  <2>4. \A p \in DOMAIN wire' : wire'[p].id \in Made /\ m.id < wire'[p].id
    BY TakesFacts
  <2>5. \A p \in DOMAIN wire' : Asked(wire[p].id)'
    BY <2>3, <2>4 DEF Asked, Tried
  <2>6. \A p \in DOMAIN wire' : \A w \in block' : w < wire'[p].id
    <3>1. \A w \in block' : w \in block \/ w = m.id
      BY TakesWrites
    <3> QED
      BY <2>3, <2>4, <3>1
  <2> QED
    BY <1>a, <2>2, <2>3, <2>4, <2>5, <2>6 DEF WireOrder
<1>3. Writers'
  <2>1. \A i \in block \cup saved : Asked(i) /\ calls[i].act = "execute"
    BY <1>0 DEF Writers
  <2>2. \A i \in block' \cup saved' :
          i \in block \cup saved \/ (i = m.id /\ m.cmd = "RUN" /\ calls[i].act = "execute")
    BY TakesWrites
  <2>3. at = "prepare" => ~(m.id = Cur /\ m.cmd = "RUN")
    BY <1>0, <1>c DEF WireOrder
  <2>4. at = "prepare" => Cur \notin block'
    <3>1. \A w \in block' : w \in block \/ (w = m.id /\ m.cmd = "RUN")
      BY TakesWrites
    <3> QED
      BY <1>0, <2>3, <3>1 DEF Writers
  <2> QED
    BY <1>a, <2>1, <2>2, <2>4 DEF Writers
<1>4. DbReplies'
  <2> SUFFICES ASSUME at \in DbStage, reply' # "none"
               PROVE  /\ reply' # "denied" /\ link = "up" /\ wire' = <<>>
                      /\ at = "simple" /\ Op.act = "begin" /\ reply' = "ok" => tx' = "open"
                      /\ at = "run" /\ Op.act = "execute" /\ reply' = "ok" =>
                           Cur \in saved' \/ \E b \in Made : b < Cur /\ Db(b, {"begin"})'
    BY <1>a DEF DbReplies, DbStage
  <2>1. reply = "none"
    BY TakesFacts
  <2>2. link = "up" /\ m.id = Cur /\ reply' = IF o.ok THEN "ok" ELSE "error"
    BY <2>1 DEF Takes
  <2>3. wire' = <<>>
    BY <2>2, TakesFacts
  <2>4. ASSUME at = "simple", Op.act = "begin", reply' = "ok" PROVE tx' = "open"
    <3>1. o.ok /\ m.cmd = "BEGIN"
      BY <2>2, <2>4, TakesFacts DEF Op
    <3> QED
      BY <3>1, TakesWrites
  <2>5. ASSUME at = "run", Op.act = "execute", reply' = "ok"
        PROVE  Cur \in saved' \/ \E b \in Made : b < Cur /\ Db(b, {"begin"})'
    <3>1. o.ok /\ m.cmd = "RUN" /\ calls[m.id].act = "execute"
      BY <1>0, <1>c, <2>2, <2>5 DEF Op, WireOrder
    <3>2. (tx = "idle" /\ m.id \in saved') \/ tx = "open"
      BY <3>1, TakesWrites
    <3>3. ASSUME tx = "open" PROVE \E b \in Made : b < Cur /\ Db(b, {"begin"})'
      <4>1. PICK b \in Made : Asked(b) /\ calls[b].act = "begin" /\ b < m.id
        BY <1>0, <1>c, <3>3 DEF Begun
      <4> QED
        BY <1>a, <2>2, <4>1 DEF Asked, Tried, Db
    <3> QED
      BY <2>2, <3>2, <3>3
  <2> QED
    BY <2>2, <2>3, <2>4, <2>5
<1>5. Begun'
  <2> SUFFICES ASSUME tx' # "idle"
               PROVE  \E b \in Made : /\ Asked(b)' /\ calls[b].act = "begin"
                                      /\ \A p \in DOMAIN wire' : b < wire'[p].id
    BY <1>a DEF Begun
  <2>1. CASE tx # "idle"
    <3>1. PICK b \in Made : /\ Asked(b) /\ calls[b].act = "begin"
                            /\ \A p \in DOMAIN wire : b < wire[p].id
      BY <1>0, <2>1 DEF Begun
    <3>2. \A p \in DOMAIN wire' : OnWire(wire'[p].id)
      BY TakesFacts
    <3> QED
      BY <1>a, <3>1, <3>2 DEF OnWire
  <2>2. CASE m.cmd = "BEGIN"
    BY <1>a, <2>2, TakesFacts
  <2> QED
    BY <2>1, <2>2, TakesWrites
<1> QED
  BY <1>1, <1>2, <1>3, <1>4, <1>5

\* A transaction is ended only by an end the script asked for: the block's own.
LEMMA TakesBlock ==
  ASSUME IInv, [Next]_vars, NEW m, NEW o, Takes(m, o)
  PROVE  BlocksOpen' /\ RollbacksDue' /\ Held'
<1>0. BlocksOpen /\ RollbacksDue /\ Held /\ Writers /\ TypeOK /\ OneCall
  BY DEF IInv, DbInv
<1>a. /\ Made' = Made /\ Cur' = Cur /\ UNCHANGED <<calls, at, slot, link>>
      /\ \A i : Asked(i)' <=> Asked(i)
      /\ m.id \in Made /\ m.id \in Nat /\ Asked(m.id) /\ OnWire(m.id)
  BY TakesFacts
<1>b. Made = 1..Cur /\ Cur \in Nat
  BY <1>0, Basics
<1>c. 1 \in DOMAIN wire /\ m = wire[1]
  BY DEF Takes
<1>d. ASSUME tx # "idle", tx' = "idle" PROVE calls[m.id].act \in {"commit", "rollback"}
  <2>1. m.cmd \in {"COMMIT", "ROLLBACK"}
    BY <1>d, TakesWrites
  <2> QED
    BY <2>1, TakesFacts
<1>1. BlocksOpen'
  <2>1. ASSUME NEW p \in DOMAIN wire', NEW j \in Made, wire'[p].id = j, InBlock(j)' PROVE tx' # "idle"
    <3>1. OnWire(j) /\ m.id < j /\ InBlock(j)
      BY <2>1, TakesFacts, PastKept
    <3>2. tx # "idle"
      BY <1>0, <3>1 DEF BlocksOpen, OnWire
    <3>3. SUFFICES ASSUME tx' = "idle" PROVE FALSE
      OBVIOUS
    <3>4. PICK i \in Made : OpenFrom(i, j)
      BY <3>1 DEF InBlock
    <3>5. i < m.id
      BY <3>4, TakesFacts DEF OpenFrom, Db
    <3>6. m.id \in Between(i, j)
      BY <1>a, <3>1, <3>5 DEF Between
    <3>7. Db(m.id, {"commit", "rollback"})
      BY <1>a, <1>d, <3>2, <3>3 DEF Asked, Tried, Db
    <3> QED
      BY <3>4, <3>6, <3>7 DEF OpenFrom
  <2>2. \A p \in DOMAIN wire' : wire'[p].id \in Made
    BY TakesFacts
  <2>3. \A p \in DOMAIN wire' : InBlock(wire[p].id)' => tx' # "idle"
    BY <2>1, <2>2
  <2>4. ASSUME link = "up", NEW i \in Made, Unended(i)' PROVE tx' # "idle"
    <3>1. Unended(i)
      BY <1>a, <2>4 DEF Unended
    <3>2. tx # "idle"
      BY <1>0, <2>4, <3>1 DEF BlocksOpen
    <3>3. i < m.id
      BY <3>1, TakesFacts DEF Unended, Asked
    <3> QED
      BY <1>a, <1>d, <3>1, <3>2, <3>3 DEF Unended
  <2> QED
    BY <1>a, <2>3, <2>4 DEF BlocksOpen
<1>2. RollbacksDue'
  <2> SUFFICES ASSUME NEW w \in Made, NEW j \in Made, w \in block' \/ OnWire(w)', w < j, Asked(j),
                      calls[j].act = "rollback"
               PROVE  OnWire(j)' \/ (link # "up" /\ \A p \in DOMAIN wire' : wire'[p].id < j)
    BY <1>a DEF RollbacksDue
  <2>1. w \in block \/ OnWire(w)
    BY <1>a, TakesFacts, TakesWrites
  <2>2. OnWire(j) \/ (link # "up" /\ \A p \in DOMAIN wire : wire[p].id < j)
    BY <1>0, <2>1 DEF RollbacksDue
  <2>3. ASSUME j = m.id PROVE FALSE
    <3>1. block' = {} /\ OnWire(w)'
      BY <2>3, TakesFacts, TakesWrites
    <3>2. m.id < w
      BY <3>1, TakesFacts
    <3> QED
      BY <1>a, <1>b, <2>3, <3>2
  <2>4. CASE OnWire(j)
    BY <2>3, <2>4, TakesFacts
  <2>5. CASE link # "up" /\ \A p \in DOMAIN wire : wire[p].id < j
    <3>1. \A p \in DOMAIN wire' : OnWire(wire'[p].id)
      BY TakesFacts
    <3> QED
      BY <2>5, <3>1 DEF OnWire
  <2> QED
    BY <2>2, <2>4, <2>5
<1>3. Held'
  <2>0. \A k \in Made : \A w : \A j \in Between(w, k) : j \in Made /\ w < j /\ j < k
    BY DEF Between
  <2> SUFFICES ASSUME NEW w \in saved', w \in Made, InBlock(w)
               PROVE  \E k \in Made : /\ w < k /\ Asked(k) /\ calls[k].act = "commit"
                                      /\ \A j \in Between(w, k) : ~Db(j, {"rollback"})
    <3>1. \A w \in saved' : w \in Made
      BY <1>0, <1>a, TakesWrites, TakesFacts DEF Writers, Asked, Tried
    <3> QED
      BY <1>a, <2>0, <3>1, PastKept DEF Held
  <2>1. CASE w \in saved
    BY <1>0, <2>1 DEF Held
  <2>2. CASE w = m.id /\ tx = "idle"
    BY <2>2, TakesFacts
  <2>3. CASE m.cmd = "COMMIT" /\ w \in block
    <3>1. w < m.id /\ calls[m.id].act = "commit"
      BY <2>3, TakesFacts
    <3>2. ASSUME NEW j \in Between(w, m.id), Db(j, {"rollback"}) PROVE FALSE
      <4>1. j \in Made /\ w < j /\ j < m.id /\ j # Cur
        BY <1>a, <1>b, <2>0
      <4>2. Asked(j) /\ calls[j].act = "rollback"
        BY <3>2, <4>1 DEF Asked, Tried, Db
      <4>3. OnWire(j) \/ \A p \in DOMAIN wire : wire[p].id < j
        BY <1>0, <2>3, <4>1, <4>2 DEF RollbacksDue
      <4>4. ~OnWire(j)
        <5>1. OnWire(j) => j = m.id \/ m.id < j
          BY TakesFacts
        <5> QED
          BY <1>a, <1>b, <4>1, <5>1
      <4>5. m.id < j
        BY <1>c, <4>3, <4>4
      <4> QED
        BY <1>a, <1>b, <4>1, <4>5
    <3> QED
      BY <1>a, <3>1, <3>2
  <2> QED
    BY <2>1, <2>2, <2>3, TakesWrites
<1> QED
  BY <1>1, <1>2, <1>3

\* In a clean block the message is the call's under way, and the server has the block so far.
LEMMA TakesClean ==
  ASSUME IInv, [Next]_vars, NEW m, NEW o, Takes(m, o) PROVE CleanBlocks'
<1>0. CleanBlocks /\ WireOrder /\ TypeOK
  BY DEF IInv, DbInv
<1>a. Made' = Made /\ Cur' = Cur /\ Op' = Op /\ UNCHANGED <<calls, at, slot, link>>
  BY TakesFacts
<1>c. 1 \in DOMAIN wire /\ m = wire[1]
  BY DEF Takes
<1> SUFFICES ASSUME link = "up", NEW b \in Made, Clean(b)
             PROVE  /\ DOMAIN wire' = {} /\ at \in DbStage /\ reply' # "none"
                    /\ reply' = "ok" =>
                         /\ Op.act \notin {"commit", "rollback"} => Intact(b)'
                         /\ Op.act = "commit" => Writes(b) \subseteq saved'
                         /\ at = "run" /\ Op.act = "execute" => Cur \in block'
  <2>1. \A b \in Made : (Clean(b)' <=> Clean(b)) /\ Writes(b)' = Writes(b)
    BY <1>a DEF Clean, Writes
  <2> QED
    BY <1>a, <2>1 DEF CleanBlocks
<1>1. at \in DbStage /\ m.id = Cur
  BY <1>0, <1>c DEF CleanBlocks
<1>2. DOMAIN wire' = {} /\ reply = "none"
  BY <1>1, TakesFacts
<1>3. reply' = IF o.ok THEN "ok" ELSE "error"
  BY <1>1 DEF Takes
<1>4. tx = "open" /\ Writes(b) \subseteq block
  BY <1>0, <1>2 DEF CleanBlocks, Intact
<1>5. ASSUME o.ok, Op.act \notin {"commit", "rollback"} PROVE Intact(b)'
  <2>1. m.cmd \notin {"COMMIT", "ROLLBACK"}
    BY <1>1, <1>5, TakesFacts DEF Op
  <2>2. tx' = "open" /\ block \subseteq block'
    BY <1>4, <1>5, <2>1, TakesWrites
  <2>3. Writes(b)' = Writes(b)
    BY <1>a DEF Writes
  <2> QED
    BY <1>4, <2>2, <2>3 DEF Intact
<1>6. ASSUME o.ok, Op.act = "commit" PROVE Writes(b) \subseteq saved'
  <2>1. m.cmd = "COMMIT"
    BY <1>1, <1>6, TakesFacts DEF Op
  <2>2. block \subseteq saved'
    BY <1>4, <1>6, <2>1, TakesWrites
  <2> QED
    BY <1>4, <2>2
<1>7. ASSUME o.ok, at = "run", Op.act = "execute" PROVE Cur \in block'
  <2>1. m.cmd = "RUN" /\ calls[m.id].act = "execute"
    BY <1>0, <1>1, <1>7, <1>c DEF WireOrder, Op
  <2>2. m.id \in block'
    BY <1>4, <1>7, <2>1, TakesWrites
  <2> QED
    BY <1>1, <2>2
<1> QED
  BY <1>1, <1>2, <1>3, <1>5, <1>6, <1>7

LEMMA DbStep == ASSUME IInv, [Next]_vars PROVE DbInv'
<1>0. TypeOK /\ OneCall /\ Connection
  BY DEF IInv, DbInv
<1>a. at \notin Stopped => Cur \in Made
  BY <1>0 DEF OneCall
<1>b. ASSUME at \notin Stopped, NEW got \in Got \ {"pending"}, Returned(got)
      PROVE  /\ \A i \in Made : i # Cur /\ Asked(i)' => Asked(i)
             /\ calls'[Cur].got = got /\ calls'[Cur].cap = Op.cap
  <2>1. /\ Cur' = Cur /\ Made' = Made
        /\ \A i \in Made : i # Cur => calls'[i] = calls[i]
        /\ calls'[Cur].got = got /\ calls'[Cur].cap = Op.cap
    BY <1>0, <1>a, <1>b, ReturnShape DEF Returned
  <2> QED
    BY <2>1 DEF Asked, Tried
<1>1. ASSUME NEW s \in Scripts, Call(s) PROVE DbInv'
  BY <1>1, CallDb
<1>2. CASE TurnedAway
  <2>1. PICK got \in {"refused", "invalid"} : at \notin Stopped /\ Returned(got) /\ got \in Got \ {"pending"}
    BY <1>2 DEF TurnedAway, Stopped, Got
  <2>2. Cur' = Cur
    BY <1>0, <1>a, <2>1, ReturnShape DEF Returned
  <2>3. \A i \in Made : Asked(i)' => Asked(i)
    BY <1>b, <2>1, <2>2 DEF Asked, Tried
  <2> QED
    BY <2>1, <2>3, ReturnDb
<1>3. CASE DbGone
  <2>1. /\ at \notin Stopped /\ Returned("error") /\ "error" \in Got \ {"pending"}
        /\ link # "up" /\ slot["db"] = "open"
    BY <1>3 DEF DbGone, Stopped, Got, Ready, Lazy, Cap
  <2>2. \A i \in Made : i # Cur /\ Asked(i)' => Asked(i)
    BY <1>b, <2>1
  <2> QED
    BY <2>1, <2>2, ReturnDb
<1>4. CASE DbReturns
  <2>1. PICK got \in {"ok", "error", "timeout"} :
          /\ at \in DbStage /\ Returned(got) /\ (got = "ok" => reply = "ok" /\ at # "prepare")
    BY <1>4 DEF DbReturns
  <2>2. at \notin Stopped /\ got \in Got \ {"pending"} /\ (got = "ok" => at \in {"run", "simple"})
    BY <2>1 DEF DbStage, Stopped, Got
  <2>3. Asked(Cur)
    BY <1>0, <1>a, <2>1, <2>2 DEF OneCall, Asked, Tried, Op, DbStage
  <2>4. \A i \in Made : Asked(i)' => Asked(i)
    BY <1>b, <2>1, <2>2, <2>3
  <2> QED
    BY <2>1, <2>2, <2>4, ReturnDb
<1>5. CASE RemoteReturns
  <2>1. PICK got \in {"ok", "error", "timeout"} :
          Returned(got) /\ at \in {"waiting", "discovering", "publishing"}
    BY <1>5 DEF RemoteReturns
  <2>2. at \notin Stopped /\ got \in Got \ {"pending"} /\ Op.cap # "db"
    BY <1>0, <2>1 DEF OneCall, Stopped, Got
  <2>3. Cur' = Cur
    BY <1>0, <1>a, <2>1, <2>2, ReturnShape DEF Returned
  <2>4. ~Asked(Cur)'
    BY <1>b, <2>1, <2>2, <2>3 DEF Asked
  <2>5. \A i \in Made : Asked(i)' => Asked(i)
    BY <1>b, <2>1, <2>2, <2>3, <2>4
  <2> QED
    BY <2>1, <2>2, <2>5, ReturnDb
<1>6. CASE ServerTakes
  <2>1. PICK m, o : Takes(m, o)
    BY <1>0, <1>6, TakesShape
  <2> QED
    BY <2>1, TakesWire, TakesBlock, TakesClean DEF DbInv
<1>7. CASE Requests
  <2>1. /\ at \in {"slot", "discovering"} /\ at' = "waiting" /\ Op.cap # "db"
        /\ UNCHANGED <<calls, slot, link, wire, tx, block, saved>>
    BY <1>7 DEF Requests, server
  <2>2. \A i \in Made : Asked(i)' => Asked(i)
    BY <2>1 DEF Asked, Tried, Op, Cur, Made
  <2> QED
    BY <2>1, <2>2, DbFrame DEF DbStage
<1>8. CASE Moves
  <2>1. /\ UNCHANGED <<calls, reply, link, wire, tx, block, saved>> /\ slot'["db"] = slot["db"]
        /\ \/ at' = at
           \/ at = "slot" /\ Op.cap # "db" /\ at' \in {"discovering", "publishing"}
           \/ at = "idle" /\ at' = "closed"
    BY <1>8 DEF Moves, server
  <2>2. \A i \in Made : Asked(i)' => Asked(i)
    BY <2>1 DEF Asked, Tried, Op, Cur, Made
  <2>3. at \in DbStage \/ at' \in DbStage => at' = at /\ reply' = reply
    BY <2>1 DEF DbStage
  <2> QED
    BY <2>1, <2>2, <2>3, DbFrame
<1>9. CASE Publish \/ \E i \in Id : RemotePerforms(i) \/ RemoteFails(i)
  <2>1. /\ UNCHANGED <<calls, at, slot, link, wire, tx, block, saved>>
        /\ at \in DbStage => reply' = reply
    BY <1>9 DEF Publish, RemotePerforms, RemoteFails, Waiting, DbStage, thread, server
  <2>2. \A i \in Made : Asked(i)' => Asked(i)
    BY <2>1 DEF Asked, Tried, Cur, Made
  <2> QED
    BY <2>1, <2>2, DbFrame
<1> QED
  BY <1>1, <1>2, <1>3, <1>4, <1>5, <1>6, <1>7, <1>8, <1>9,
     DbSendsDb, DbPreparedDb, DbConnectDb, BreakDb, StepClass

-----------------------------------------------------------------------------
(* A success is the whole of what the call says *)

\* What a read hands the script is all there is, or says that it is not.
LEMMA ReadsAreTrue ==
  ASSUME NEW n \in Nat
  PROVE  /\ Rows(n).rows <= MaxRows /\ (Rows(n).truncated <=> Rows(n).rows < n)
         /\ Drained(n).rows <= MaxRows /\ (Drained(n).truncated <=> Drained(n).rows < n)
<1>1. Rows(n).rows <= MaxRows /\ (Rows(n).truncated <=> Rows(n).rows < n)
  <2>1. Rows(n).truncated <=> n > MaxRows
    BY DEF Rows
  <2>2. Rows(n).rows = IF n > MaxRows THEN MaxRows ELSE n
    BY DEF Rows
  <2> QED
    BY <2>1, <2>2, BoundAssumption
<1>2. (\E k \in 1..n : k - 1 >= MaxRows) <=> n > MaxRows
  <2>1. ASSUME n > MaxRows PROVE n \in 1..n /\ n - 1 >= MaxRows
    BY <2>1, BoundAssumption
  <2> QED
    BY <2>1, BoundAssumption
<1>3. Drained(n).rows <= MaxRows /\ (Drained(n).truncated <=> Drained(n).rows < n)
  <2>1. /\ Drained(n).truncated = (\E k \in 1..n : k - 1 >= MaxRows)
        /\ Drained(n).rows = IF n >= MaxRows THEN MaxRows ELSE n
    BY DEF Drained
  <2> QED
    BY <1>2, <2>1, BoundAssumption
<1> QED
  BY <1>1, <1>3

\* What was done stays done.
LEMMA EffectsStay ==
  ASSUME IInv, [Next]_vars
  PROVE  /\ saved \subseteq saved' /\ performed \subseteq performed'
         /\ \A i \in Made : calls[i].got # "pending" => published'[i] = published[i]
         /\ broker' = broker /\ refused \subseteq refused'
         /\ \A i \in Made : taken[i] = published[i] => taken'[i] = taken[i]
<1>0. TypeOK /\ OneCall /\ Made \subseteq Id
  BY Basics DEF IInv
<1>1. CASE TurnedAway \/ DbGone \/ DbReturns \/ RemoteReturns
  BY <1>1 DEF TurnedAway, DbGone, DbReturns, RemoteReturns, Returned, remote, server
<1>2. CASE \/ DbSends \/ DbPrepared \/ DbConnect \/ LinkBreaks \/ ServerEnds
           \/ Requests \/ \E s \in Scripts : Call(s)
  BY <1>2 DEF DbSends, DbPrepared, DbConnect, Opens, LinkBreaks, ServerEnds, Requests, Call,
              remote, server
<1>6. CASE Moves
  BY <1>0, <1>6 DEF Moves, server
<1>3. CASE ServerTakes
  <2>1. PICK m, o : Takes(m, o)
    BY <1>0, <1>3, TakesShape
  <2> QED
    BY <2>1, TakesWrites DEF Takes
<1>4. CASE Publish
  <2>1. /\ published' = [published EXCEPT ![Cur] = @ + 1] /\ at = "publishing"
        /\ UNCHANGED <<performed, saved, broker, taken, refused>>
    BY <1>4 DEF Publish, server
  <2>2. Cur \in Made /\ calls[Cur].got = "pending" /\ published \in [Id -> Nat]
    BY <1>0, <2>1 DEF OneCall, Stopped, TypeOK
  <2> QED
    BY <1>0, <2>1, <2>2
<1>5. CASE \E i \in Id : RemotePerforms(i) \/ RemoteFails(i)
  BY <1>5 DEF RemotePerforms, RemoteFails, server
<1> QED
  BY <1>1, <1>2, <1>3, <1>4, <1>5, <1>6, StepClass

LEMMA DoneKept ==
  ASSUME IInv, [Next]_vars, NEW i \in Made, calls[i].got = "ok", Done(i) PROVE Done(i)'
<1>1. /\ calls'[i] = calls[i] /\ published'[i] = published[i]
      /\ broker' = broker /\ refused \subseteq refused'
      /\ taken[i] = published[i] => taken'[i] = taken[i]
      /\ performed \subseteq performed' /\ saved \subseteq saved'
  BY CallsKept, EffectsStay
<1>2. /\ \A k \in Made : k < i => calls'[k] = calls[k]
      /\ \A k \in Made' : k < i => k \in Made
      /\ \A b : Between(b, i)' = Between(b, i)
  BY CallsKept, PastKept
<1>3. \A b : \A k \in Between(b, i) : k \in Made /\ k < i /\ calls'[k] = calls[k]
  BY <1>2 DEF Between
<1>4. \A b \in Made' : OpenFrom(b, i)' => b \in Made /\ OpenFrom(b, i)
  BY <1>1, <1>2, <1>3 DEF OpenFrom, Db
<1>5. ASSUME Db(i, {"execute"})', ~(\E b \in Made' : b < i /\ Db(b, {"begin"})') PROVE i \in saved'
  <2>1. Db(i, {"execute"}) /\ ~(\E b \in Made : b < i /\ Db(b, {"begin"}))
    BY <1>1, <1>2, <1>5, CallsKept DEF Db
  <2> QED
    BY <1>1, <2>1 DEF Done
<1>6. ASSUME Db(i, {"commit"})', NEW b \in Made', OpenFrom(b, i)',
             \A k \in Between(b, i)' : calls'[k].cap = "db" => calls'[k].got = "ok",
             NEW w \in Between(b, i)', Db(w, {"execute"})'
      PROVE  w \in saved'
  <2>1. /\ Db(i, {"commit"}) /\ b \in Made /\ OpenFrom(b, i) /\ w \in Between(b, i) /\ Db(w, {"execute"})
        /\ \A k \in Between(b, i) : calls[k].cap = "db" => calls[k].got = "ok"
    BY <1>1, <1>2, <1>3, <1>4, <1>6 DEF Db
  <2>2. w \in saved
    BY <2>1 DEF Done
  <2> QED
    BY <1>1, <2>2
<1>7. /\ calls[i].cap = "amq" /\ calls[i].act = "send" =>
           /\ published'[i] = calls[i].size
           /\ broker' = "rabbitmq" => taken'[i] = calls[i].size \/ i \in refused'
      /\ calls[i].act \in {"query", "find"} =>
           /\ calls[i].result.rows <= MaxRows
           /\ calls[i].result.truncated <=> (calls[i].result.rows < calls[i].size)
      /\ calls[i].cap \notin {"db", "amq"} => i \in performed'
  BY <1>1 DEF Done
<1> QED
  BY <1>1, <1>5, <1>6, <1>7 DEF Done

\* The call under way succeeds at another backend.
LEMMA RemoteDone ==
  ASSUME IInv, [Next]_vars, Cur \in Made, Returned("ok"),
         \/ at = "waiting" /\ Cur \in performed
         \/ at = "publishing" /\ HandedOver
  PROVE  \A i \in Made : i = Cur => Done(i)'
<1> SUFFICES ASSUME NEW i \in Made, i = Cur PROVE Done(i)'
  OBVIOUS
<1>0. TypeOK /\ OneCall /\ Op = calls[Cur] /\ "ok" \in Got
  BY DEF IInv, Op, Got
<1>1. /\ calls'[i].cap = Op.cap /\ calls'[i].act = Op.act /\ calls'[i].size = Op.size
      /\ calls'[i].result = Result("ok")
  BY <1>0, ReturnShape DEF Returned
<1>2. UNCHANGED <<broker, published, taken, refused, performed, saved>>
  BY DEF Returned, remote, server
<1>3. /\ Op.cap # "db" /\ Op.size \in Nat
      /\ at = "publishing" => Op.cap = "amq"
      /\ at = "waiting" /\ Op.cap = "amq" => Op.act = "request"
  BY <1>0, Basics DEF OneCall, CallRec
<1>4. ~Db(i, {"execute"})' /\ ~Db(i, {"commit"})'
  BY <1>1, <1>3 DEF Db
<1>5. Op.act \in {"query", "find"} =>
        /\ calls'[i].result.rows <= MaxRows
        /\ calls'[i].result.truncated <=> (calls'[i].result.rows < Op.size)
  BY <1>1, <1>3, ReadsAreTrue DEF Result
<1>6. Op.cap = "amq" /\ Op.act = "send" =>
        /\ published'[i] = Op.size
        /\ broker' = "rabbitmq" => taken'[i] = Op.size \/ i \in refused'
  BY <1>2, <1>3 DEF HandedOver
<1>7. Op.cap \notin {"db", "amq"} => i \in performed'
  BY <1>2, <1>3
<1> QED
  BY <1>1, <1>4, <1>5, <1>6, <1>7 DEF Done

\* The call under way succeeds at the database.
LEMMA DbDone ==
  ASSUME IInv, [Next]_vars, Cur \in Made, Returned("ok"), at \in {"run", "simple"}, reply = "ok"
  PROVE  \A i \in Made : i = Cur => Done(i)'
<1> SUFFICES ASSUME NEW i \in Made, i = Cur PROVE Done(i)'
  OBVIOUS
<1>0. TypeOK /\ OneCall /\ DbReplies /\ CleanBlocks /\ Op = calls[Cur] /\ at \in DbStage /\ "ok" \in Got
  BY DEF IInv, DbInv, Op, Got, DbStage
<1>a. Made = 1..Cur /\ Cur \in Nat /\ calls[Cur].got = "pending" /\ Op.cap = "db" /\ Op.size \in Nat
  BY <1>0, Basics DEF OneCall, Stopped, CallRec
<1>1. /\ calls'[i].cap = Op.cap /\ calls'[i].act = Op.act /\ calls'[i].size = Op.size
      /\ calls'[i].got = "ok" /\ calls'[i].result = Result("ok") /\ Made' = Made
      /\ \A k \in Made : k # Cur => calls'[k] = calls[k]
  BY <1>0, ReturnShape DEF Returned
<1>2. UNCHANGED <<broker, published, taken, refused, performed, saved>> /\ link = "up"
  BY <1>0 DEF Returned, remote, server, DbReplies
<1>3. Op.act \in {"query", "find"} =>
        /\ calls'[i].result.rows <= MaxRows
        /\ calls'[i].result.truncated <=> (calls'[i].result.rows < Op.size)
  BY <1>1, <1>a, ReadsAreTrue DEF Result
<1>4. ASSUME Db(i, {"execute"})', ~(\E b \in Made' : b < i /\ Db(b, {"begin"})') PROVE i \in saved'
  <2>1. Op.act = "execute" /\ at = "run"
    BY <1>0, <1>1, <1>4 DEF Db, OneCall
  <2>2. ~(\E b \in Made : b < Cur /\ Db(b, {"begin"}))
    <3>1. \A b \in Made : b < Cur => calls'[b] = calls[b]
      BY <1>a, <1>1
    <3> QED
      BY <1>1, <1>4, <3>1 DEF Db
  <2> QED
    BY <1>0, <1>2, <2>1, <2>2 DEF DbReplies
<1>5. ASSUME Db(i, {"commit"})', NEW b \in Made', OpenFrom(b, i)',
             \A k \in Between(b, i)' : calls'[k].cap = "db" => calls'[k].got = "ok",
             NEW w \in Between(b, i)', Db(w, {"execute"})'
      PROVE  w \in saved'
  <2>1. Op.act = "commit" /\ b \in Made /\ b < Cur
    BY <1>1, <1>5 DEF Db, OpenFrom
  <2>2. Between(b, i)' = Between(b, i)
    BY PastKept
  <2>3. \A k \in Made : k < Cur => calls'[k] = calls[k]
    BY <1>a, <1>1
  <2>4. calls[b].cap = "db" /\ calls[b].act = "begin" /\ calls[b].got = "ok"
    BY <1>5, <2>1, <2>3 DEF OpenFrom, Db
  <2>5. ASSUME NEW k \in Made, b < k, k < Cur, calls[k].cap = "db"
        PROVE  calls[k].got = "ok" /\ calls[k].act \notin {"commit", "rollback"}
    <3>1. k \in Between(b, i)
      BY <2>5 DEF Between
    <3>2. calls[k].got = "ok"
      BY <1>5, <2>2, <2>3, <2>5, <3>1
    <3>3. ~Db(k, {"commit", "rollback"})'
      BY <1>5, <2>2, <3>1 DEF OpenFrom
    <3> QED
      BY <2>3, <2>5, <3>2, <3>3 DEF Db
  <2>6. Clean(b)
    BY <1>a, <2>4, <2>5 DEF Clean
  <2>7. Writes(b) \subseteq saved
    BY <1>0, <1>2, <2>1, <2>6 DEF CleanBlocks
  <2>8. w \in Made /\ b < w /\ w < Cur
    BY <1>5, <2>2 DEF Between
  <2>9. w \in Writes(b)
    BY <1>5, <2>3, <2>5, <2>8 DEF Writes, Db
  <2> QED
    BY <1>2, <2>7, <2>9
<1> QED
  BY <1>1, <1>a, <1>3, <1>4, <1>5 DEF Done

LEMMA DoneStep == ASSUME IInv, [Next]_vars PROVE SuccessIsDone'
<1>0. SuccessIsDone /\ OneCall /\ TypeOK
  BY DEF IInv
<1> SUFFICES ASSUME NEW i \in Made', calls'[i].got = "ok" PROVE Done(i)'
  BY DEF SuccessIsDone
<1>1. i \in Made
  BY CallsKept
<1>2. CASE calls[i].got # "pending"
  <2>1. calls'[i] = calls[i]
    BY <1>1, <1>2, CallsKept
  <2> QED
    BY <1>0, <1>1, <2>1, DoneKept DEF SuccessIsDone
<1>3. CASE calls[i].got = "pending"
  <2>1. i = Cur /\ at \notin Stopped /\ Cur \in Made
    BY <1>0, <1>1, <1>3 DEF OneCall
  <2>2. calls' # calls
    BY <1>3
  <2>3. ~\E s \in Scripts : Call(s)
    BY <2>1 DEF Call, Stopped
  <2>4. ASSUME NEW got \in Got, Returned(got) PROVE got = "ok"
    BY <1>0, <2>1, <2>4, ReturnShape DEF Returned
  <2>5. CASE TurnedAway \/ DbGone
    <3>1. \E got \in Got : Returned(got) /\ got # "ok"
      BY <2>5 DEF TurnedAway, DbGone, Got
    <3> QED
      BY <2>4, <3>1
  <2>6. CASE DbReturns
    <3>1. Returned("ok") /\ at \in {"run", "simple"} /\ reply = "ok"
      BY <2>4, <2>6 DEF DbReturns, DbStage, Got
    <3> QED
      BY <1>1, <2>1, <3>1, DbDone
  <2>7. CASE RemoteReturns
    <3>1. /\ Returned("ok")
          /\ \/ at = "waiting" /\ Cur \in performed
             \/ at = "publishing" /\ HandedOver
      BY <2>4, <2>7 DEF RemoteReturns, Got
    <3> QED
      BY <1>1, <2>1, <3>1, RemoteDone
  <2>8. CASE \/ DbSends \/ DbPrepared \/ DbConnect \/ ServerTakes \/ LinkBreaks \/ ServerEnds
             \/ Requests \/ Moves \/ Publish
             \/ \E j \in Id : RemotePerforms(j) \/ RemoteFails(j)
    <3>1. calls' = calls
      BY <2>8 DEF DbSends, DbPrepared, DbConnect, Opens, ServerTakes, LinkBreaks, ServerEnds, Requests,
                  Moves, Publish, RemotePerforms, RemoteFails, thread
    <3> QED
      BY <2>2, <3>1
  <2> QED
    BY <2>3, <2>5, <2>6, <2>7, <2>8, StepClass
<1> QED
  BY <1>2, <1>3

-----------------------------------------------------------------------------
(* The theorems *)

LEMMA InitLemma == Init => IInv
<1> SUFFICES ASSUME Init PROVE IInv
  OBVIOUS
<1>0. Cur = 0 /\ Made = {} /\ DOMAIN wire = {}
  BY DEF Init, Cur, Made
<1>1. TypeOK
  <2>1. calls \in Seq(CallRec) /\ wire \in Seq(MsgRec)
    BY DEF Init
  <2>2. /\ Cur \in 0..MaxCalls /\ metered \in [Id -> Nat] /\ published \in [Id -> Nat]
        /\ taken \in [Id -> Nat]
        /\ slot \in [Lazy -> {"unset", "open", "failed"}]
    BY <1>0, BoundAssumption DEF Init
  <2>3. /\ at \in At /\ expired \subseteq {"db", "mongo"} /\ reply \in {"none", "ok", "error", "denied"}
        /\ flying \subseteq Id /\ performed \subseteq Id /\ discovered \in BOOLEAN
        /\ endpoints \subseteq AuthAct /\ broker \in {"rabbitmq", "nats"} /\ refused \subseteq Id
        /\ link \in {"none", "up", "down", "ended"} /\ tx \in {"idle", "open", "failed"}
        /\ block \subseteq Id /\ saved \subseteq Id
    BY DEF Init, At
  <2> QED
    BY <2>1, <2>2, <2>3 DEF TypeOK, CallRec, MsgRec
<1>2. OneCall /\ MetersOnce /\ RemoteEffects
  BY <1>0 DEF Init, OneCall, MetersOnce, RemoteEffects, Stopped, DbStage
<1>3. SendsBounded
  <2>1. {i \in flying \cup performed : calls[i].cap = "mail"} = {}
    BY DEF Init
  <2> QED
    BY <2>1, FS_EmptySet, BoundAssumption DEF SendsBounded
<1>4. Connection /\ WireOrder /\ Writers /\ DbReplies /\ Begun
  BY <1>0 DEF Init, Connection, WireOrder, Writers, DbReplies, Begun, DbStage, Lazy, Cap
<1>5. BlocksOpen /\ RollbacksDue /\ Held /\ CleanBlocks
  BY <1>0 DEF Init, BlocksOpen, RollbacksDue, Held, CleanBlocks
<1>6. SuccessIsDone
  BY <1>0 DEF SuccessIsDone
<1> QED
  BY <1>1, <1>2, <1>3, <1>4, <1>5, <1>6 DEF IInv, DbInv

LEMMA NextLemma == IInv /\ [Next]_vars => IInv'
<1> SUFFICES ASSUME IInv, [Next]_vars PROVE IInv'
  OBVIOUS
<1> QED
  BY ThreadKept, RemoteStep, SendsStep, DbStep, DoneStep DEF IInv, ThreadInv

\* The invariant holds of every session: whatever the scripts, the capabilities that are
\* configured and the limits.
THEOREM Invariance == Spec => []IInv
BY InitLemma, NextLemma, PTL DEF Spec

\* Every variable of the session, its connections and the database keeps its type.
THEOREM TypeCorrect == Spec => []TypeOK
<1>1. IInv => TypeOK
  BY DEF IInv
<1> QED
  BY <1>1, Invariance, PTL

\* No write made inside a block is saved unless the script asked for the block's commit before
\* any rollback, in every interleaving of DbBackend's calls, timeouts and lost connections with
\* what the server takes late.
THEOREM TransactionsHeld == Spec => []TransactionsAreHeld
<1>1. IInv => TransactionsAreHeld
  <2> SUFFICES ASSUME IInv PROVE TransactionsAreHeld
    OBVIOUS
  <2>1. Held
    BY DEF IInv, DbInv
  <2>2. \A k \in Made : Asked(k) /\ calls[k].act = "commit" => Db(k, {"commit"})
    BY DEF Asked, Tried, Db
  <2> QED
    BY <2>1, <2>2 DEF Held, TransactionsAreHeld
<1> QED
  BY <1>1, Invariance, PTL

\* Every effect is that of a call that was handed to its backend and passed its checks.
LEMMA EffectsAreTried == ASSUME IInv, NEW i \in Made, Effect(i) PROVE Tried(i)
<1>0. RemoteEffects /\ Writers /\ WireOrder /\ i \in Id
  BY Basics DEF IInv, DbInv
<1>1. CASE i \in flying \cup performed
  BY <1>0, <1>1 DEF RemoteEffects
<1>2. CASE i \in saved \cup block
  BY <1>0, <1>2 DEF Writers, Asked
<1>3. CASE published[i] > 0
  BY <1>0, <1>3 DEF RemoteEffects
<1>4. CASE \E k \in DOMAIN wire : wire[k].id = i
  BY <1>0, <1>4 DEF WireOrder, Asked
<1> QED
  BY <1>1, <1>2, <1>3, <1>4 DEF Effect

\* What the script is told is true of the systems behind the session: a success is the whole of
\* the call (for a batch of amq, that all of it was handed to the client's connection, and that
\* RabbitMQ has dealt with it, though perhaps by refusing it), and a call that the BackendSet
\* refused or a backend's checks turned away has no effect.
THEOREM AnswersTrue == Spec => []AnswersAreTrue
<1>1. IInv => AnswersAreTrue
  <2> SUFFICES ASSUME IInv PROVE AnswersAreTrue
    OBVIOUS
  <2>1. SuccessIsDone
    BY DEF IInv
  <2>2. \A i \in Made : calls[i].got \in {"refused", "invalid"} => ~Effect(i)
    BY EffectsAreTried DEF Tried
  <2> QED
    BY <2>1, <2>2 DEF SuccessIsDone, AnswersAreTrue
<1> QED
  BY <1>1, Invariance, PTL

\* MailConfig's max_sends bounds what the relay gets, sends that timed out included.
THEOREM SendsAreBounded == Spec => []SendsBounded
<1>1. IInv => SendsBounded
  BY DEF IInv
<1> QED
  BY <1>1, Invariance, PTL

\* Every call that has returned and had an effect is in the metrics, exactly once.
THEOREM EffectsAreMetered == Spec => []EffectsMetered
<1>1. IInv => EffectsMetered
  <2> SUFFICES ASSUME IInv, NEW i \in Made
               PROVE  /\ metered[i] <= 1
                      /\ Effect(i) /\ calls[i].got # "pending" => metered[i] = 1
    BY DEF EffectsMetered
  <2>1. MetersOnce /\ i \in Id
    BY Basics DEF IInv
  <2>2. Effect(i) => calls[i].got # "refused"
    BY EffectsAreTried DEF Tried
  <2> QED
    BY <2>1, <2>2 DEF MetersOnce
<1> QED
  BY <1>1, Invariance, PTL
=============================================================================
