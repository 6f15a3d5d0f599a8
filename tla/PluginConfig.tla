---------------------------- MODULE PluginConfig ----------------------------
(***************************************************************************)
(* The root context of the plugin (src/lib.rs, AuthzRoot): how a           *)
(* configuration is parsed, validated (src/config.rs) and taken over, and  *)
(* what the stream contexts created from it are given.                     *)
(*                                                                         *)
(* What the host hands to on_configure is of one of the kinds              *)
(*   "empty"       no configuration (size 0)                               *)
(*   "unreadable"  no buffer, or one that is not UTF-8                     *)
(*   "not json"    text serde_json rejects (an integer out of its range,   *)
(*                 a field of another type)                                *)
(*   "json"        an object with some of the fields of PluginConfigJson   *)
(* The host creates streams only after an on_configure that returned true. *)
(***************************************************************************)
EXTENDS Integers, Sequences, TLC

CONSTANTS
  Configs,     \* what operators may configure
  trim_lower,  \* a header name as configured -> trimmed, in lower case
  trim,        \* a cluster name as configured -> trimmed
  Streams

MAX_TIMEOUT_MS == 60000
MAX_REQUEST_BODY_BYTES == 16 * 1024 * 1024
MAX_CACHE_TTL_MS == 86400000

\* The fields of PluginConfigJson with the #[serde(default)] of each; grpc.cluster
\* is an Option, and the fields of a section that is missing are missing.
Defaults ==
  [timeout_ms |-> 1000, cluster |-> <<>>, max_bytes |-> 1048576,
   enabled |-> FALSE, ttl_ms |-> 60000, max_entries |-> 1000,
   mode |-> "all_except_request_id", names |-> <<>>, secret |-> ""]

\* What serde makes of the object.
Filled(json) == json @@ Defaults

\* What serde_json accepts; a u32 on the target may bound some numbers further.
PluginConfigJson ==
  [timeout_ms : Nat, cluster : {<<>>} \cup {<<n>> : n \in DOMAIN trim}, max_bytes : Nat,
   enabled : BOOLEAN, ttl_ms : Nat, max_entries : Nat,
   mode : STRING, names : Seq(DOMAIN trim_lower), secret : STRING]

ASSUME ConfigsAssumption ==
  \A c \in Configs :
     /\ c.kind \in {"empty", "unreadable", "not json", "json"}
     /\ c.kind = "json" => /\ DOMAIN c.json \subseteq DOMAIN Defaults
                           /\ Filled(c.json) \in PluginConfigJson
ASSUME TrimAssumption ==
  \A n \in DOMAIN trim_lower :
     trim_lower[n] \in DOMAIN trim_lower /\ trim_lower[trim_lower[n]] = trim_lower[n]

\* CacheConfig::default; the policy is its mode and its names.
DefaultCache ==
  [enabled |-> FALSE, ttl_ms |-> 60000, max_entries |-> 1000,
   mode |-> "all_except_request_id", names |-> {}]

\* PluginSettings::default, with which the root context is made.
DefaultSettings ==
  [timeout_ms |-> 1000, grpc_cluster |-> "", max_request_body_bytes |-> 1048576,
   cache |-> DefaultCache, invalidation_secret |-> ""]
-----------------------------------------------------------------------------
\* Fault: a cache that is switched on is not looked at.
validate_cache_Skipped(f) == TRUE

validate_cache(f) ==
  \/ ~f.enabled
  \/ f.ttl_ms \in 1 .. MAX_CACHE_TTL_MS /\ f.max_entries # 0

normalize_grpc_cluster(cluster) == IF cluster = <<>> THEN "" ELSE trim[cluster[1]]

\* Trimmed, in lower case, sorted and without duplicates: a set, as the order of
\* the names matters to nobody.
normalize_header_names(names) == {trim_lower[names[i]] : i \in DOMAIN names}

\* validate_timeout_ms to cache_header_policy: none of them fails.
IsValid(json) ==
  LET f == Filled(json)
  IN  /\ f.timeout_ms \in 1 .. MAX_TIMEOUT_MS
      /\ normalize_grpc_cluster(f.cluster) # ""
      /\ f.max_bytes \in 1 .. MAX_REQUEST_BODY_BYTES
      /\ validate_cache(f)
      /\ "" \notin normalize_header_names(f.names)
      /\ f.mode \in {"all_except_request_id", "allowlist", "denylist"}

\* The Ok value of from_json.
SettingsOf(json) ==
  LET f == Filled(json)
  IN  [timeout_ms |-> f.timeout_ms,
       grpc_cluster |-> normalize_grpc_cluster(f.cluster),
       max_request_body_bytes |-> f.max_bytes,
       cache |-> [enabled |-> f.enabled, ttl_ms |-> f.ttl_ms, max_entries |-> f.max_entries,
                  mode |-> f.mode,
                  names |-> IF f.mode = "all_except_request_id" THEN {}
                            ELSE normalize_header_names(f.names)],
       invalidation_secret |-> f.secret]
-----------------------------------------------------------------------------
VARIABLES
  root,        \* the settings of AuthzRoot
  configured,  \* what on_configure last returned, <<>> before the first call
  given        \* the settings each stream context was created with, or <<>>

vars == <<root, configured, given>>

Init ==
  /\ root = DefaultSettings
  /\ configured = <<>>
  /\ given = [r \in Streams |-> <<>>]

Accept(config) ==
  /\ config.kind = "json" /\ IsValid(config.json)
  /\ root' = SettingsOf(config.json)
  /\ configured' = <<TRUE>>
  /\ UNCHANGED given

\* Fault: the settings are assigned one by one as they are validated.
Keep_PartlyAssigned(config) ==
  root' = IF config.kind = "json"
          THEN [root EXCEPT !.timeout_ms = Filled(config.json).timeout_ms] ELSE root

\* Every early return of on_configure leaves the settings alone.
Keep(config) == UNCHANGED root

Reject(config) ==
  /\ config.kind = "json" => ~IsValid(config.json)
  /\ Keep(config)
  /\ configured' = <<FALSE>>
  /\ UNCHANGED given

on_configure(config) == Accept(config) \/ Reject(config)

create_http_context(r) ==
  /\ configured = <<TRUE>> /\ given[r] = <<>>
  /\ given' = [given EXCEPT ![r] = <<root>>]
  /\ UNCHANGED <<root, configured>>

Next ==
  \/ \E config \in Configs : on_configure(config)
  \/ \E r \in Streams : create_http_context(r)

Spec == Init /\ [][Next]_vars
-----------------------------------------------------------------------------
\* What the rest of the filter takes for granted of the settings of a stream,
\* and the other modules assume of their constants.
Usable(s) ==
  /\ s.timeout_ms > 0                                   \* a call has a deadline
  /\ s.grpc_cluster # "" /\ s.max_request_body_bytes > 0
  /\ s.cache.enabled => s.cache.ttl_ms > 0 /\ s.cache.max_entries > 0
  \* include_header finds a lower-case header name in the list
  /\ \A n \in s.cache.names : n # "" /\ trim_lower[n] = n

\* No sequence of good, bad, empty and unreadable configurations lets a stream be
\* served with settings validation would reject (README.md:80-86).
StreamsGetUsableSettings == \A r \in Streams : given[r] # <<>> => Usable(given[r][1])

\* A rejected configuration changes nothing, in whichever field the error is: the
\* settings in force are still all those of one accepted configuration, or the
\* defaults (lib.rs:66-109).
SettingsAreOfOneConfig ==
  root \in {DefaultSettings} \cup
    {SettingsOf(c.json) : c \in {d \in Configs : d.kind = "json" /\ IsValid(d.json)}}
=============================================================================
