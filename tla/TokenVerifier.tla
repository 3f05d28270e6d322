--------------------------- MODULE TokenVerifier ---------------------------
(***************************************************************************)
(* Client authentication of fabricd in sa-token mode: the key cache of        *)
(* JwksVerifier, the task that refreshes it, the sessions whose tokens it     *)
(* verifies (crates/fabric-backends/src/sa_token.rs, fabricd/src/auth.rs),    *)
(* and the cluster's issuer and kubelet.  A token is told by the kid in its   *)
(* header, by whether the issuer's key of that kid signed it, and by whether  *)
(* its claims are the ones this daemon asks for.                            *)
(***************************************************************************)
EXTENDS Integers, Sequences

CONSTANTS Key,        \* signing keys, told apart by kid
          Usable,     \* the keys with a kid that convert to a DecodingKey
          Published,  \* the key sets the issuer publishes, one after another
          Session,    \* sessions that present a token, at any time, any number of times
          NoToken     \* no token, or one without a header or a kid

ASSUME KeyAssumption == Usable \subseteq Key
ASSUME PublishedAssumption == /\ Published \in Seq(SUBSET Key)
                              /\ Published # <<>>
                              /\ \A v \in DOMAIN Published : Published[v] # {}

Version == 1 .. Len(Published)
Token == [kid : Key, signed : BOOLEAN, claims : BOOLEAN]
ASSUME NoTokenAssumption == NoToken \notin Token

\* A token of the issuer for this daemon.
Projected(k) == [kid |-> k, signed |-> TRUE, claims |-> TRUE]

\* A token of a stranger, for another audience, or expired.
Foreign == {t \in Token : ~(t.signed /\ t.claims)}

Refresh == {"discovering", "fetching", "receiving", "sleeping"}

VARIABLES
  version,    \* the set the issuer publishes now
  tokenFile,  \* the key that signed the token in the box's projected file
  refresh,    \* where refresh_loop is
  answers,    \* JWKS documents under way to the daemon
  keys,       \* JwksVerifier::keys
  loaded,     \* the set it was built from, 0 while it is None
  fetched,    \* history: the sets this process has put in the cache
  token,      \* per session, the token presented, or NoToken
  verify      \* per session, how far authenticate has got

issuer == <<version, tokenFile>>
verifier == <<refresh, answers, keys, loaded, fetched>>
sessions == <<token, verify>>
verifierVars == <<version, tokenFile, refresh, answers, keys, loaded, fetched, token, verify>>

\* spawn: no keys yet, the first fetch begins at once.
VerifierInit == /\ version = 1
                /\ tokenFile \in Published[1]
                /\ refresh = "discovering"
                /\ answers = {}
                /\ keys = {}
                /\ loaded = 0
                /\ fetched = {}
                /\ token = [s \in Session |-> NoToken]
                /\ verify = [s \in Session |-> "none"]

\* build_key_map: entries without a kid or that do not convert are skipped.
KeyMap(set) == set \cap Usable

-----------------------------------------------------------------------------
(* The cluster *)

\* The issuer rotates its keys.
Rotate == /\ version + 1 \in Version
          /\ version' = version + 1
          /\ UNCHANGED <<tokenFile, verifier, sessions>>

\* The kubelet projects a fresh token.
ProjectToken == /\ tokenFile' \in Published[version]
                /\ UNCHANGED <<version, verifier, sessions>>

-----------------------------------------------------------------------------
(* refresh_loop *)

\* discover_jwks_url, or the URL of the configuration.
Discover == /\ refresh = "discovering"
            /\ refresh' = "fetching"
            /\ UNCHANGED <<issuer, answers, keys, loaded, fetched, sessions>>

\* The issuer answers the GET of the key set.
Answer == /\ refresh = "fetching"
          /\ refresh' = "receiving"
          /\ answers' = answers \cup {version}
          /\ UNCHANGED <<issuer, keys, loaded, fetched, sessions>>

\* A cache that only grows.
RefreshedMerging(v) == /\ refresh = "receiving"
                       /\ v \in answers
                       /\ keys' = keys \cup KeyMap(Published[v])
                       /\ loaded' = v
                       /\ fetched' = fetched \cup {v}
                       /\ answers' = answers \ {v}
                       /\ refresh' = "sleeping"
                       /\ UNCHANGED <<issuer, sessions>>

\* The set arrived and decodes: it replaces the cache.
Refreshed(v) == /\ refresh = "receiving"
                /\ v \in answers
                /\ keys' = KeyMap(Published[v])
                /\ loaded' = v
                /\ fetched' = fetched \cup {v}
                /\ answers' = answers \ {v}
                /\ refresh' = "sleeping"
                /\ UNCHANGED <<issuer, sessions>>

\* get_json fails in either GET, or there is no jwks_uri: the previous keys stay.
FetchFails == /\ refresh # "sleeping"
              /\ refresh' = "sleeping"
              /\ answers' = {}
              /\ UNCHANGED <<issuer, keys, loaded, fetched, sessions>>

\* A timer that fires whether the last fetch has ended or not.
WakeOnTimer == /\ refresh \in {"sleeping", "receiving"}
               /\ refresh' = "discovering"
               /\ UNCHANGED <<issuer, answers, keys, loaded, fetched, sessions>>

\* sleep(interval), counted from the end of the fetch.
Wake == /\ refresh = "sleeping"
        /\ refresh' = "discovering"
        /\ UNCHANGED <<issuer, answers, keys, loaded, fetched, sessions>>

-----------------------------------------------------------------------------
(* authenticate, at the start of a session *)

\* The box reads its token file and, later, sends Init; or somebody sends a
\* foreign token, or none.
Present(s, t) == /\ verify[s] = "none"
                 /\ t \in {Projected(tokenFile), NoToken} \cup Foreign
                 /\ token' = [token EXCEPT ![s] = t]
                 /\ verify' = [verify EXCEPT ![s] = "presented"]
                 /\ UNCHANGED <<issuer, verifier>>

\* The kid of the token is one of a key of the set.
Names(t, set) == t # NoToken /\ t.kid \in set

\* verify that lets every token pass while there are no keys.
LookupKeyFailOpen(s) == /\ verify[s] = "presented"
                        /\ loaded = 0 \/ Names(token[s], keys)
                        /\ verify' = [verify EXCEPT ![s] = "verifying"]
                        /\ UNCHANGED <<issuer, verifier, token>>

\* verify: keys are loaded and the kid is known; the key is cloned out of the lock.
LookupKey(s) == /\ verify[s] = "presented"
                /\ loaded # 0 /\ Names(token[s], keys)
                /\ verify' = [verify EXCEPT ![s] = "verifying"]
                /\ UNCHANGED <<issuer, verifier, token>>

\* verify: no header, no kid, no keys yet, or none of that kid: UNAUTHENTICATED.
UnknownKey(s) == /\ verify[s] = "presented"
                 /\ loaded = 0 \/ ~Names(token[s], keys)
                 /\ verify' = [verify EXCEPT ![s] = "none"]
                 /\ token' = [token EXCEPT ![s] = NoToken]
                 /\ UNCHANGED <<issuer, verifier>>

\* decode: the key verifies the signature, audience, issuer and expiry are right.
Accept(s) == /\ verify[s] = "verifying"
             /\ token[s].signed /\ token[s].claims
             /\ verify' = [verify EXCEPT ![s] = "accepted"]
             /\ UNCHANGED <<issuer, verifier, token>>

\* decode: the signature or a claim is wrong, or the token has expired by now.
Reject(s) == /\ verify[s] = "verifying"
             /\ verify' = [verify EXCEPT ![s] = "none"]
             /\ token' = [token EXCEPT ![s] = NoToken]
             /\ UNCHANGED <<issuer, verifier>>

SessionEnds(s) == /\ verify[s] = "accepted"
                  /\ verify' = [verify EXCEPT ![s] = "none"]
                  /\ token' = [token EXCEPT ![s] = NoToken]
                  /\ UNCHANGED <<issuer, verifier>>

\* The daemon stops and is started again: a new verifier, without keys.
Restart == /\ refresh' = "discovering"
           /\ answers' = {} /\ keys' = {} /\ loaded' = 0 /\ fetched' = {}
           /\ token' = [s \in Session |-> NoToken]
           /\ verify' = [s \in Session |-> "none"]
           /\ UNCHANGED issuer

VerifierNext == \/ Rotate \/ ProjectToken
                \/ Discover \/ Answer \/ FetchFails \/ Wake
                \/ \E v \in Version : Refreshed(v)
                \/ \E s \in Session : \/ \E t \in Token \cup {NoToken} : Present(s, t)
                                      \/ LookupKey(s) \/ UnknownKey(s)
                                      \/ Accept(s) \/ Reject(s) \/ SessionEnds(s)
                \/ Restart

VerifierSpec == VerifierInit /\ [][VerifierNext]_verifierVars

-----------------------------------------------------------------------------
(* Properties *)

VerifierTypeOK == /\ version \in Version
                  /\ tokenFile \in Key
                  /\ refresh \in Refresh
                  /\ answers \subseteq Version
                  /\ keys \subseteq Usable
                  /\ loaded \in {0} \cup Version
                  /\ fetched \subseteq Version
                  /\ token \in [Session -> Token \cup {NoToken}]
                  /\ verify \in [Session -> {"none", "presented", "verifying", "accepted"}]

\* verify fails closed: a session passes only with a token of the issuer, meant
\* for this daemon, under a usable key of a set that this process has fetched
\* (a restart forgets them all), however the swap of the cache falls between the
\* lookup of the key and the end of the check.
FailClosed == \A s \in Session :
  /\ verify[s] \in {"verifying", "accepted"} =>
       \E v \in fetched : Names(token[s], KeyMap(Published[v]))
  /\ verify[s] = "accepted" => token[s] = Projected(token[s].kid)

\* The cached set is replaced only by a later one of the issuer: a slow answer
\* of refresh_loop never brings withdrawn keys back.  (0 is a new process.)
KeysNeverGoBack == [][loaded' >= loaded \/ loaded' = 0]_verifierVars

\* As long as refreshes go on to succeed, a withdrawn key leaves the cache and a
\* new one enters it, whatever fetches failed or were answered before the rotation.
CacheConverges ==
  []<><<\E v \in Version : Refreshed(v)>>_verifierVars
    => <>[](loaded = 0 \/ keys = KeyMap(Published[version]))
=============================================================================
