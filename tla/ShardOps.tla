------------------------------ MODULE ShardOps ------------------------------
(***************************************************************************)
(* The pure part of the decision cache (src/cache.rs): what a shard    *)
(* holds, which shard a key lives in, and the two trimming functions a     *)
(* store applies before it writes a shard back.                            *)
(*                                                                         *)
(* A cache key is the text "cache:" followed by a 64-bit hash in sixteen   *)
(* hexadecimal digits, so the order of two keys as strings is the order of *)
(* their hashes: a key is represented by its hash, a natural number.       *)
(* A shard (a HashMap) is a function on all keys that is Absent where the  *)
(* map has no entry.                                                       *)
(***************************************************************************)
EXTENDS Naturals, FiniteSets

CONSTANTS
  Keys,        \* the cache keys in use, each the hash it is formatted from
  NumShards,   \* NUM_SHARDS (16 in the code)
  Streams,     \* AuthzHttp contexts, each stores at most one entry
  Decisions,   \* what an entry replays: verdict, status, body, header effects
  Absent       \* "no entry", outside CacheEntry

ASSUME KeysAssumption      == Keys \subseteq Nat /\ IsFiniteSet(Keys)
ASSUME NumShardsAssumption == NumShards \in Nat \ {0}

\* CacheEntry of the code; allowed, denied_status, denied_body, response_headers
\* and request_header_mutations are one value, decision.  by is the stream that
\* stored the entry: a history field that gives every entry an identity.
CacheEntry == [expires_at_ms : Nat, by : Streams, decision : Decisions]

ASSUME AbsentAssumption == Absent \notin CacheEntry

CacheShard == [Keys -> CacheEntry \cup {Absent}]
EmptyShard == [k \in Keys |-> Absent]

\* The keys a shard holds, and the streams whose entries it holds.
Stored(shard)  == {k \in Keys : shard[k] # Absent}
Authors(shard) == {shard[k].by : k \in Stored(shard)}

\* Both shards agree on every key the first one holds.
SubShard(small, big) == \A k \in Stored(small) : small[k] = big[k]

ShardIds == 0 .. NumShards - 1

shard_id_from_key(key) == key % NumShards

\* Fault: the division rounds down.
shard_quota_Floor(max_entries) == max_entries \div NumShards

\* max_entries.div_ceil(NUM_SHARDS).max(1)
shard_quota(max_entries) ==
  LET share == (max_entries + NumShards - 1) \div NumShards
  IN  IF share > 1 THEN share ELSE 1

evict_expired(shard, now_ms) ==
  [k \in Keys |->
     IF shard[k] # Absent /\ shard[k].expires_at_ms > now_ms
     THEN shard[k] ELSE Absent]

\* The order min_by evicts in: nearest expiry, then smallest key.
EvictedBefore(shard, i, j) ==
  \/ shard[i].expires_at_ms < shard[j].expires_at_ms
  \/ shard[i].expires_at_ms = shard[j].expires_at_ms /\ i < j

\* The stored keys that outlive k in that order.
Outliving(shard, k) == {j \in Stored(shard) : EvictedBefore(shard, k, j)}

\* Fault: the quota is not enforced.
enforce_quota_Skipped(shard, quota) == shard

\* The loop removes the minimum of the eviction order until quota entries are
\* left: exactly the entries that fewer than quota others outlive.  (The loop
\* itself is module QuotaLoop, which is checked to end in this shard.)
enforce_quota(shard, quota) ==
  [k \in Keys |->
     IF shard[k] # Absent /\ Cardinality(Outliving(shard, k)) < quota
     THEN shard[k] ELSE Absent]
=============================================================================
