----------------------------- MODULE RequestKey -----------------------------
(***************************************************************************)
(* Which requests share a cached decision: the CheckRequest of a request   *)
(* (module RequestHeaders) and the cache key computed from it              *)
(* (src/cache.rs, compute_cache_key).                                      *)
(*                                                                         *)
(* The key is a hash; two inputs of the hash are taken to collide only     *)
(* when they are equal, so the key is its input.  A HashMap is a function, *)
(* and iterating over it yields its names in some order, another one for   *)
(* each map.  The names differ from those of Invalidation, so that         *)
(* RequestProofs can extend both.                                          *)
(***************************************************************************)
EXTENDS RequestHeaders, SequencesExt

CONSTANTS
  Candidates,  \* what clients send: see RequestHeaders
  Policies     \* cache.headers: [mode, names], names normalised

ASSUME CandidatesAssumption == \A q \in Candidates : q.headers \in HeaderSeqs

include_header(name, policy) ==
  CASE policy.mode = "all_except_request_id" -> name # "x-request-id"
    [] policy.mode = "allowlist" -> name \in policy.names
    [] policy.mode = "denylist"  -> name # "x-request-id" /\ name \notin policy.names

Included(check, policy) == {n \in DOMAIN check.headers : include_header(n, policy)}

Ascending(names) == \A i, j \in DOMAIN names : i < j => rank[names[i]] < rank[names[j]]

\* Fault: the headers are hashed in the order of the HashMap.
Canonical_AsIterated(names) == names

\* sort_unstable_by name; no name comes twice in a HashMap.
Canonical(names) == CHOOSE sorted \in [DOMAIN names -> Range(names)] : Ascending(sorted)

\* Fault: the host is not part of the key.
KeyInput_NoHost(c, pairs) == <<c.method, c.path, c.scheme, c.query, pairs, c.body>>

KeyInput(c, pairs) == <<c.method, c.path, c.host, c.scheme, c.query, pairs, c.body>>

\* The key of check when the iteration over its headers yields names, and others
\* that are not included.
compute_cache_key(check, names) ==
  LET pair(n) == <<n, check.headers[n]>>
  IN  KeyInput(check, [i \in DOMAIN names |-> pair(Canonical(names)[i])])
-----------------------------------------------------------------------------
(* Two streams, each with its request and the header policy its configuration     *)
(* had when it was created.  They share the cache even when the policies differ: *)
(* a key does not say by which policy it was made.                               *)

Both == {"first", "second"}

VARIABLES
  policy,  \* cache.headers of the configuration of each
  asked,   \* the requests as the clients send them
  check,   \* the CheckRequest of each, once built
  keys      \* and its key

pairVars == <<policy, asked, check, keys>>

PairInit ==
  /\ policy \in [Both -> Policies]
  /\ asked \in [Both -> Candidates]
  /\ check = [s \in Both |-> <<>>]
  /\ keys = [s \in Both |-> <<>>]

Collect(s) ==
  /\ check[s] = <<>>
  /\ check' = [check EXCEPT ![s] = <<check_request(asked[s])>>]
  /\ UNCHANGED <<policy, asked, keys>>

ComputeKey(s) ==
  /\ check[s] # <<>> /\ keys[s] = <<>>
  /\ \E names \in SetToSeqs(Included(check[s][1], policy[s])) :
       keys' = [keys EXCEPT ![s] = <<compute_cache_key(check[s][1], names)>>]
  /\ UNCHANGED <<policy, asked, check>>

PairNext == \E s \in Both : Collect(s) \/ ComputeKey(s)

PairSpec == PairInit /\ [][PairNext]_pairVars
-----------------------------------------------------------------------------
Keyed == \A s \in Both : keys[s] # <<>>

\* What the policy of a stream lets its decision depend on.
Relevant(s) ==
  LET c == check[s][1]
  IN  [method |-> c.method, path |-> c.path, host |-> c.host, scheme |-> c.scheme,
       query |-> c.query, body |-> c.body,
       headers |-> {<<n, c.headers[n]>> : n \in Included(c, policy[s])}]

\* A decision is only replayed to a request that agrees with the one it was made
\* for: equal keys mean that what the one configuration looks at in its
\* CheckRequest is what the other looks at in its own, to the last header; under
\* one policy only the request id and the headers it excludes may differ
\* (cache.rs:104-159).
EqualKeysEqualChecks ==
  (Keyed /\ keys["first"] = keys["second"]) => Relevant("first") = Relevant("second")

\* README.md:75 "The x-request-id header is ignored so otherwise identical
\* requests can share a decision": two requests that say the same but for the
\* request id, which one of them may not have, get the same key, whatever the
\* spelling and the order of their headers and of the iteration over the maps.
SameButId(a, b) ==
  /\ <<a.method, a.path, a.query, a.body>> = <<b.method, b.path, b.query, b.body>>
  /\ a.host = b.host /\ a.scheme = b.scheme
  /\ \A n \in LowerNames \ {"x-request-id"} : Said(a, n) = Said(b, n)

RequestIdSharesDecision ==
  (Keyed /\ policy["first"] = policy["second"]
         /\ SameButId(asked["first"], asked["second"])) =>
     keys["first"] = keys["second"]
=============================================================================
