---------------------------- MODULE Capabilities ----------------------------
(***************************************************************************)
(* The capabilities that work inside the engine: the api global of           *)
(* crates/runlet-core/src/http.rs and the s3 global of s3.rs, each with a     *)
(* collector of its metrics that doubles as its op budget.  They are native   *)
(* functions: while one runs the interrupt handler is not polled.            *)
(*                                                                         *)
(* Every step is a step of Engine or leaves its variables alone.  A call      *)
(* refused before it does anything (op limit, payload, endpoint, delete not    *)
(* allowed) only throws, which is Throw or no step of the script.  URLs are     *)
(* told by their hosts; Permitted are the hosts that pass is_host_allowed and   *)
(* block_private_ip.  Bodies, signatures and listings are left out.  Both        *)
(* globals are there in the full profile; with less configured a script can     *)
(* only do less.                                                           *)
(***************************************************************************)
EXTENDS Engine

CONSTANTS Host,          \* hosts a script or a redirect may name
          Permitted,     \* those that pass the checks of validate_url
          MaxRedirects,  \* MAX_REDIRECTS
          AllowDelete    \* S3Config::allow_delete

ASSUME HostAssumption == Permitted \subseteq Host /\ None \notin Host
ASSUME RedirectAssumption == MaxRedirects \in Nat
ASSUME DeleteAssumption == AllowDelete \in BOOLEAN

VARIABLES
  native,    \* the function that runs: api's request, s3's usage or delete
  host,      \* where the request under way has been sent, or None
  previous,  \* attempt.previous(): URLs requested before in this chain
  listing,   \* whether usage has a page requested
  more,      \* usage: the store has named a next page
  usage,     \* what the last usage returned
  recorded,  \* per collector, the metrics in it
  sent       \* calls that sent a request out (s3: requests), SentCap at most

request == <<native, host, previous>>
pages == <<listing, more, usage>>
metered == <<recorded, sent>>
capVars == <<request, pages, metered>>
allVars == <<vars, capVars>>

Collector == {"http", "s3"}
Zero == [c \in Collector |-> 0]
SentCap == MaxOps + 1  \* the first count above the limit

CapInit == /\ Init
           /\ native = "none" /\ host = None /\ previous = 0
           /\ listing = FALSE /\ more = FALSE /\ usage = "none"
           /\ recorded = Zero /\ sent = Zero

\* inject_api, inject_s3: fresh collectors.
CapStart(r, p, e) == /\ Start(r, p, e)
                     /\ recorded' = Zero /\ sent' = Zero
                     /\ usage' = "none" /\ more' = FALSE
                     /\ UNCHANGED <<request, listing>>

\* check_op_limit
BelowLimit(c) == recorded[c] < MaxOps
Record(c) == recorded' = [recorded EXCEPT ![c] = @ + 1]
Send(c) == sent' = [sent EXCEPT ![c] = IF @ < SentCap THEN @ + 1 ELSE @]

\* The native function returns to the script.
Returns == CallReturns /\ native' = "none"

-----------------------------------------------------------------------------
(* api *)

\* validate_url refuses: the call is metered, nothing is sent.
HttpBlocked(h) == /\ pc \in JsCode /\ profile = "Full" /\ BelowLimit("http")
                  /\ h \notin Permitted
                  /\ Record("http")
                  /\ UNCHANGED <<vars, request, pages, sent>>

\* execute_http sends the request.
HttpSend(h) == /\ NativeCall
               /\ BelowLimit("http")
               /\ h \in Permitted
               /\ native' = "http" /\ host' = h /\ previous' = 1
               /\ Send("http")
               /\ UNCHANGED <<pages, recorded>>

\* A client that takes any redirect.
FollowsAny(h) == previous < MaxRedirects

\* validate_redirect
Follows(h) == previous < MaxRedirects /\ h \in Permitted

\* The answer is a redirect to h: it is followed, or the answer is the result.
HttpRedirected(h) == /\ native = "http"
                     /\ Follows(h)
                     /\ host' = h /\ previous' = previous + 1
                     /\ UNCHANGED <<vars, native, pages, metered>>

\* A result, a body above the cap, a transport error or the timeout: metered whatever it is.
HttpEnds == /\ native = "http"
            /\ Returns
            /\ Record("http")
            /\ host' = None /\ previous' = 0
            /\ UNCHANGED <<pages, sent>>

-----------------------------------------------------------------------------
(* s3 *)

\* do_presign, do_presign_post: nothing is sent; metered whether it succeeds or not.
Presign == /\ pc \in JsCode /\ profile = "Full" /\ BelowLimit("s3")
           /\ Record("s3")
           /\ UNCHANGED <<vars, request, pages, sent>>

\* do_usage, up to its loop.
UsageCalled == /\ NativeCall
               /\ BelowLimit("s3")
               /\ native' = "usage"
               /\ listing' = FALSE /\ more' = TRUE /\ usage' = "none"
               /\ UNCHANGED <<host, previous, metered>>

\* The loop: the limit holds for every page.
ListPage == /\ native = "usage" /\ ~listing
            /\ BelowLimit("s3")
            /\ listing' = TRUE
            /\ Send("s3")
            /\ UNCHANGED <<vars, request, more, usage, recorded>>

\* The limit ends the listing with what has been summed so far.
UsageLimitPartial == /\ native = "usage" /\ ~listing
                     /\ ~BelowLimit("s3")
                     /\ Returns
                     /\ usage' = "ok"
                     /\ UNCHANGED <<host, previous, listing, more, metered>>

\* The op limit in the middle of a listing is an error.
UsageLimit == /\ native = "usage" /\ ~listing
              /\ ~BelowLimit("s3")
              /\ Returns
              /\ usage' = "error"
              /\ UNCHANGED <<host, previous, listing, more, metered>>

\* A page that is followed by another.
PageArrives == /\ native = "usage" /\ listing
               /\ Record("s3")
               /\ listing' = FALSE /\ more' = TRUE
               /\ UNCHANGED <<vars, request, usage, sent>>

\* The last page: the total is returned.
LastPageArrives == /\ native = "usage" /\ listing
                   /\ Record("s3")
                   /\ Returns
                   /\ listing' = FALSE /\ more' = FALSE
                   /\ usage' = "ok"
                   /\ UNCHANGED <<host, previous, sent>>

\* A page, the last or not, takes the total out of range.
TotalOverflows == /\ native = "usage" /\ listing
                  /\ Record("s3")
                  /\ Returns
                  /\ listing' = FALSE
                  /\ usage' = "error"
                  /\ UNCHANGED <<host, previous, more, sent>>

\* fetch_list_page fails: no metric.
PageFails == /\ native = "usage" /\ listing
             /\ Returns
             /\ listing' = FALSE /\ usage' = "error"
             /\ UNCHANGED <<host, previous, more, metered>>

\* do_delete sends its request.
DeleteSent == /\ NativeCall
              /\ BelowLimit("s3") /\ AllowDelete
              /\ native' = "delete"
              /\ Send("s3")
              /\ UNCHANGED <<host, previous, pages, recorded>>

\* An answer, of whatever status.
DeleteAnswered == /\ native = "delete"
                  /\ Returns
                  /\ Record("s3")
                  /\ UNCHANGED <<host, previous, pages, sent>>

\* No answer: no metric.
DeleteFails == /\ native = "delete"
               /\ Returns
               /\ UNCHANGED <<host, previous, pages, metered>>

-----------------------------------------------------------------------------
ApiStep == HttpEnds \/ \E h \in Host : HttpRedirected(h)
UsageStep == \/ ListPage \/ UsageLimit
             \/ PageArrives \/ LastPageArrives \/ TotalOverflows \/ PageFails
DeleteStep == DeleteAnswered \/ DeleteFails

\* io.call ends; the api and s3 functions end by the steps above.
IoReturns == native = "none" /\ CallReturns /\ UNCHANGED capVars

CapNext == \/ \E r \in Run, p \in Profile, e \in BOOLEAN : CapStart(r, p, e)
           \/ HostStep /\ UNCHANGED capVars
           \/ ScriptStep /\ UNCHANGED capVars
           \/ Call /\ UNCHANGED capVars
           \/ IoReturns
           \/ Tick /\ UNCHANGED capVars
           \/ \E h \in Host : HttpBlocked(h) \/ HttpSend(h)
           \/ ApiStep
           \/ Presign \/ UsageCalled \/ UsageStep
           \/ DeleteSent \/ DeleteStep

CapSpec == CapInit /\ [][CapNext]_allVars

\* The thread of the invocation is scheduled, time passes, and every native call gets an
\* answer or times out.  QuickJS counts down to its next poll across native calls, so a
\* script that keeps making them is polled again and again: strong fairness.  Nothing
\* else is assumed of the script, and nothing of the store or the servers.
Fairness == /\ WF_allVars(HostStep /\ UNCHANGED capVars)
            /\ WF_allVars(Tick /\ UNCHANGED capVars)
            /\ SF_allVars(Interrupted /\ UNCHANGED capVars)
            /\ WF_allVars(IoReturns) /\ WF_allVars(ApiStep)
            /\ WF_allVars(UsageStep) /\ WF_allVars(DeleteStep)

FairSpec == CapSpec /\ Fairness

-----------------------------------------------------------------------------
(* Properties *)

CapTypeOK == /\ native \in {"none", "http", "usage", "delete"}
             /\ host \in Host \cup {None}
             /\ previous \in 0 .. MaxRedirects + 1
             /\ listing \in BOOLEAN /\ more \in BOOLEAN
             /\ usage \in {"none", "ok", "error"}
             /\ recorded \in [Collector -> 0 .. MaxOps]
             /\ sent \in [Collector -> 0 .. SentCap]

\* What an invocation sends out stays within what it was given, through redirects,
\* pages and whatever the script catches and tries again: at most max_ops api calls send
\* anything, and only to permitted hosts, each a bounded chain of redirects; nothing
\* goes to the store once max_ops s3 operations are recorded, deletes need
\* allow_delete, and the deterministic profile sends nothing.
NetworkConfined ==
  /\ sent["http"] <= MaxOps
  /\ native = "http" => host \in Permitted /\ (previous <= 1 \/ previous <= MaxRedirects)
  /\ (listing \/ native = "delete") => recorded["s3"] < MaxOps
  /\ native = "delete" => AllowDelete
  /\ native # "none" => pc = "calling"
  /\ profile # "Full" => native = "none" /\ sent = Zero

\* A total that s3.usage reports covers the whole prefix: the store has named no further
\* page.  An op limit met, or a page lost, in the middle of the listing is an error.
UsageComplete == usage = "ok" => ~more
=============================================================================
