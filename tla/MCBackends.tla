----------------------------- MODULE MCBackends -----------------------------
(* A session with every capability.  The scripts: two calls of any kind, three of db, *)
(* three of mail against a limit of one, and blocks of four calls.                    *)
EXTENDS Backends

O(c, a, n, p) == [cap |-> c, act |-> a, size |-> n, payload |-> p]

DbOps == {O("db", a, 0, "good") : a \in {"execute", "begin", "commit", "rollback"}}
           \cup {O("db", "query", 2, "good")}
MailOps == {O("mail", "send", n, "good") : n \in {1, 2}}
MCOps ==
  DbOps \cup MailOps
    \cup {O("db", "query", 1, "good"), O("db", "query", 0, "malformed")}
    \cup {O("mongo", "find", n, "good") : n \in {1, 2}}
    \cup {O("mongo", "write", 0, "good"), O("redis", "op", 0, "good"),
          O("auth", "user_info", 0, "good"), O("auth", "introspect", 0, "good")}
    \cup {O("amq", "send", n, "good") : n \in {0, 2, 3}}
    \cup {O("amq", "request", 0, "good"), O("other", "op", 0, "good")}

MCScripts ==
  [1..2 -> MCOps] \cup [1..3 -> DbOps] \cup [1..3 -> MailOps]
    \cup {<<O("db", "begin", 0, "good"), O("db", "execute", 0, "good"), o, p>> :
             o \in DbOps, p \in {O("db", "commit", 0, "good"), O("db", "rollback", 0, "good")}}

=============================================================================
