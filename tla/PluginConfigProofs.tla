------------------------- MODULE PluginConfigProofs -------------------------
(***************************************************************************)
(* Theorems about PluginConfig, for every set of configurations an         *)
(* operator may try and every sequence in which they come.                 *)
(***************************************************************************)
EXTENDS PluginConfig, TLAPS

LEMMA LimitsType ==
  MAX_TIMEOUT_MS \in Nat /\ MAX_REQUEST_BODY_BYTES \in Nat /\ MAX_CACHE_TTL_MS \in Nat
  BY SMT DEF MAX_TIMEOUT_MS, MAX_REQUEST_BODY_BYTES, MAX_CACHE_TTL_MS

\* What from_json accepts is usable: validation and normalisation together
\* establish all the other modules assume of their constants (config.rs:164-190).
LEMMA ValidIsUsable ==
  ASSUME NEW c \in Configs, c.kind = "json", IsValid(c.json)
  PROVE  Usable(SettingsOf(c.json))
<1>. DEFINE f == Filled(c.json)
            s == SettingsOf(c.json)
<1>1. f \in PluginConfigJson
  BY ConfigsAssumption
<1>2. s.timeout_ms > 0 /\ s.grpc_cluster # "" /\ s.max_request_body_bytes > 0
  <2>1. s.timeout_ms \in 1 .. MAX_TIMEOUT_MS /\ s.max_request_body_bytes \in 1 .. MAX_REQUEST_BODY_BYTES
    BY DEF IsValid, SettingsOf
  <2>2. s.grpc_cluster # ""
    BY DEF IsValid, SettingsOf
  <2>. HIDE DEF s
  <2>3. s.timeout_ms > 0 /\ s.max_request_body_bytes > 0
    BY <2>1, LimitsType
  <2>. QED  BY <2>2, <2>3
<1>3. s.cache.enabled => s.cache.ttl_ms > 0 /\ s.cache.max_entries > 0
  <2>1. f.enabled => f.ttl_ms \in 1 .. MAX_CACHE_TTL_MS /\ f.max_entries # 0
    BY Zenon DEF IsValid, validate_cache
  <2>2. s.cache.enabled = f.enabled /\ s.cache.ttl_ms = f.ttl_ms
        /\ s.cache.max_entries = f.max_entries
    BY DEF SettingsOf
  <2>3. f.max_entries \in Nat
    BY <1>1 DEF PluginConfigJson
  <2>. HIDE DEF f, s
  <2>. QED  BY <2>1, <2>2, <2>3, LimitsType
<1>4. \A n \in normalize_header_names(f.names) : n # "" /\ trim_lower[n] = n
  <2>1. \A i \in DOMAIN f.names : f.names[i] \in DOMAIN trim_lower
    BY <1>1 DEF PluginConfigJson
  <2>. QED  BY <2>1, TrimAssumption DEF IsValid, normalize_header_names
<1>5. s.cache.names \subseteq normalize_header_names(f.names)
  BY DEF SettingsOf
<1>. QED  BY <1>2, <1>3, <1>4, <1>5 DEF Usable

\* The host creates streams only after a configuration was accepted, and the
\* settings are those of one that was.
SettingsInv ==
  /\ configured = <<TRUE>> => Usable(root)
  /\ StreamsGetUsableSettings
  /\ SettingsAreOfOneConfig

LEMMA SettingsInit == Init => SettingsInv
<1>. SUFFICES ASSUME Init PROVE SettingsInv
  OBVIOUS
<1>1. configured # <<TRUE>>
  BY DEF Init
<1>. QED
  BY <1>1 DEF Init, SettingsInv, StreamsGetUsableSettings, SettingsAreOfOneConfig

LEMMA SettingsStep == SettingsInv /\ [Next]_vars => SettingsInv'
<1>. SUFFICES ASSUME SettingsInv, [Next]_vars PROVE SettingsInv'
  OBVIOUS
<1>1. ASSUME NEW c \in Configs, Accept(c) PROVE SettingsInv'
  <2>1. Usable(root') /\ root' = SettingsOf(c.json)
    BY <1>1, ValidIsUsable DEF Accept
  <2>. QED
    BY <1>1, <2>1
    DEF Accept, SettingsInv, StreamsGetUsableSettings, SettingsAreOfOneConfig, Usable
<1>2. ASSUME NEW c \in Configs, Reject(c) PROVE SettingsInv'
  <2>1. configured' # <<TRUE>>
    BY <1>2 DEF Reject
  <2>. QED
    BY <1>2, <2>1
    DEF Reject, Keep, SettingsInv, StreamsGetUsableSettings, SettingsAreOfOneConfig
<1>3. ASSUME NEW r \in Streams, create_http_context(r) PROVE SettingsInv'
  <2>1. Usable(root) /\ given' = [given EXCEPT ![r] = <<root>>]
    BY <1>3 DEF create_http_context, SettingsInv
  <2>2. \A q \in Streams : given'[q] # <<>> => Usable(given'[q][1])
    BY <1>3, <2>1 DEF SettingsInv, StreamsGetUsableSettings
  <2>. QED
    BY <1>3, <2>2
    DEF create_http_context, SettingsInv, StreamsGetUsableSettings, SettingsAreOfOneConfig
<1>4. CASE UNCHANGED vars
  BY <1>4 DEF vars, SettingsInv, StreamsGetUsableSettings, SettingsAreOfOneConfig
<1>. QED  BY <1>1, <1>2, <1>3, <1>4 DEF Next, on_configure

\* No sequence of configurations lets a stream be served with unusable settings
\* (lib.rs:66-109, config.rs:164-190).
THEOREM SettingsUsable == Spec => []StreamsGetUsableSettings
<1>1. SettingsInv => StreamsGetUsableSettings
  BY DEF SettingsInv
<1>. QED  BY <1>1, SettingsInit, SettingsStep, PTL DEF Spec

\* A rejected configuration changes nothing (lib.rs:66-109).
THEOREM SettingsWhole == Spec => []SettingsAreOfOneConfig
<1>1. SettingsInv => SettingsAreOfOneConfig
  BY DEF SettingsInv
<1>. QED  BY <1>1, SettingsInit, SettingsStep, PTL DEF Spec
=============================================================================
