--------------------------- MODULE MCPluginConfig ---------------------------
(* Values for TLC. *)
EXTENDS PluginConfig

HeaderNames == [n \in {"", " ", "x-a", " X-A ", "x-b"} |->
  CASE n \in {"", " "} -> "" [] n \in {"x-a", " X-A "} -> "x-a" [] OTHER -> n]

ClusterNames == [n \in {"", " ", "authz", " authz "} |-> IF n \in {"", " "} THEN "" ELSE "authz"]

Good ==
  [timeout_ms |-> 1000, cluster |-> <<" authz ">>, max_bytes |-> 1048576, secret |-> "s",
   enabled |-> TRUE, ttl_ms |-> 60000, max_entries |-> 1000,
   mode |-> "allowlist", names |-> <<"x-b", " X-A ", "x-b">>]

\* The least that is accepted, and less; one section given and another not.
Sparse == {<< >>, "cluster" :> <<"authz">>, "cluster" :> <<"authz">> @@ "enabled" :> TRUE,
           "cluster" :> <<"authz">> @@ "max_entries" :> 0,
           "cluster" :> <<"authz">> @@ "enabled" :> TRUE @@ "ttl_ms" :> 0, "timeout_ms" :> 1}

\* Good with fields at, or just beyond, a limit.
Timeouts(S) == {[j EXCEPT !.timeout_ms = t] : j \in S, t \in {0, 1, MAX_TIMEOUT_MS, MAX_TIMEOUT_MS + 1}}
Clusters(S) == {[j EXCEPT !.cluster = c] : j \in S, c \in {<<>>, <<"">>, <<" ">>, <<"authz">>}}
Bodies(S)   == {[j EXCEPT !.max_bytes = b] :
                  j \in S, b \in {0, 1, MAX_REQUEST_BODY_BYTES, MAX_REQUEST_BODY_BYTES + 1}}
Caches(S)   == {[j EXCEPT !.enabled = e, !.ttl_ms = t, !.max_entries = n, !.mode = m, !.names = h] :
                  j \in S, e \in BOOLEAN, t \in {0, 1, MAX_CACHE_TTL_MS, MAX_CACHE_TTL_MS + 1},
                  n \in {0, 1}, m \in {"all_except_request_id", "denylist", "none"},
                  h \in {<<>>, <<" ">>, <<" X-A ">>}}

Jsons == {Good} \cup Sparse \cup Timeouts(Clusters({Good})) \cup Bodies({Good}) \cup Caches({Good})

SomeConfigs ==
  {[kind |-> k] : k \in {"empty", "unreadable", "not json"}}
  \cup {[kind |-> "json", json |-> j] : j \in Jsons}
=============================================================================
