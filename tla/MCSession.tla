----------------------------- MODULE MCSession ------------------------------
(* Session for TLC: two kinds, one of them stateless, a table with resources *)
(* of two tenants, and requests that resolve, ask for another tenant's        *)
(* resource, for a resource of another kind, for one that is not there, or    *)
(* present no valid token.                                                   *)
EXTENDS Session, TLC

MCKind == <<"db", "amq">>
MCTable == ("orders" :> [tenant |-> "a", kind |-> "db"]
            @@ "bus" :> [tenant |-> "a", kind |-> "amq"]
            @@ "secrets" :> [tenant |-> "b", kind |-> "db"])

Ask(tenant, token, db, amq) ==
  [tenant |-> tenant, token |-> token, select |-> ("db" :> db @@ "amq" :> amq)]

MCInits == {Ask("a", "current", "orders", "bus"), Ask("a", "previous", "orders", None),
            Ask("a", "current", "secrets", None), Ask("a", "current", "nowhere", "bus"),
            Ask("a", "current", "orders", "orders"), Ask("a", None, "orders", None)}
=============================================================================
