----------------------------- MODULE MCExecute ------------------------------
(* Execute for TLC: a handful of requests that between them fail every kind *)
(* of gate, share a tenant under two plans, share a bucket across tenants,  *)
(* and use or do not use the sidecar.                                       *)
EXTENDS Execute, TLC

CONSTANTS ka, kb, kc, b1, b2

MCKey == {ka, kb, kc}
MCBucket == {b1, b2}
MCBucketOf == (ka :> b1 @@ kb :> b1 @@ kc :> b2)
MCPlanName == {"free", "pro", "legacy"}
MCPlanLimit == ("free" :> 1 @@ "pro" :> 2)

Send(tenant, plan, io) ==
  [flaws |-> {}, tenant |-> tenant, partition |-> None, plan |-> plan, io |-> io]
Ask(partition, io) ==
  [flaws |-> {}, tenant |-> None, partition |-> partition, plan |-> None, io |-> io]

\* Trusted mode: one tenant on two plans, another that shares its bucket, one
\* of unknown plan, and requests with one flaw, several flaws or no tenant.
TrustedInputs ==
  {Send(ka, "free", TRUE), Send(ka, "pro", FALSE), Send(kb, "pro", TRUE),
   Send(kc, "legacy", FALSE),
   [Send(ka, "pro", FALSE) EXCEPT !.flaws = {"token"}],
   [Send(None, "pro", TRUE) EXCEPT !.flaws = {"scope", "body", "xor"}]}

\* Single-tenant mode: no identity, caller-asserted partition keys.
LocalInputs ==
  {Ask(None, FALSE), Ask(ka, TRUE), Ask(kb, FALSE),
   [Ask(kc, FALSE) EXCEPT !.flaws = {"anonymous", "scope"}],
   [Ask(kc, FALSE) EXCEPT !.flaws = {"unknown"}]}

Symmetry == Permutations(Req)
=============================================================================
