---------------------------- MODULE SharedCache ----------------------------
(***************************************************************************)
(* The decision cache in Proxy-Wasm shared data, as the callbacks of many  *)
(* streams read and write it at once (src/lib.rs, lines 430-506 and    *)
(* 593-634).  Envoy runs one VM per worker thread, the shared data is one  *)
(* per process, and no lock is held between two host calls: every host     *)
(* call (get_shared_data, get_current_time, set_shared_data) is a step of  *)
(* its own and the steps of different streams interleave freely.           *)
(*                                                                         *)
(* What each stream wants from the cache (which key, which decision) is    *)
(* any value here; FilterSystem says where it comes from.  A stream has    *)
(* the cache settings its root context had when it was created, so streams *)
(* of several configurations may be under way on the same shards, whose    *)
(* names do not depend on the configuration.                               *)
(***************************************************************************)
EXTENDS ShardOps

CONSTANTS
  ForeignKey,  \* a purge_key target that is not the text of a key
  MaxEntries,  \* stream -> cache.max_entries of its settings
  Ttl,         \* stream -> cache.ttl_ms of its settings
  MaxTime      \* bound on the clock

ASSUME ForeignKeyAssumption == ForeignKey \notin Keys
\* validate_cache rejects max_entries = 0 and ttl_ms = 0 when the cache is enabled
ASSUME MaxEntriesAssumption == MaxEntries \in [Streams -> Nat \ {0}]
ASSUME TtlAssumption     == Ttl \in [Streams -> Nat \ {0}]
ASSUME MaxTimeAssumption == MaxTime \in Nat

VARIABLES
  now,       \* get_current_time in milliseconds
  shared,    \* shard id -> what the host holds for its key: entries and cas
  pc,        \* where each stream's cache code is
  op,        \* the function it runs
  key,       \* cache_key, the argument
  entry,     \* the entry store_cache_entry inserts, expires_at_ms included
  shard_id,  \* the shard of the current loop
  tries,     \* attempts of "for _ in 0..3" already refused
  cas,       \* the version get_shared_data returned, 0 for None
  buf,       \* shard, the decoded copy being edited
  looked_at, \* now_ms of get_cache_entry
  hit,       \* what the last get_cache_entry returned
  gave_up,   \* history: some loop ended with all three attempts refused
  doomed,    \* history: the entries a purge found when it was called
  limit      \* history: max_entries of the stream that last stored to each shard

locals == <<op, key, entry, shard_id, tries, cas, buf>>
reads  == <<looked_at, hit>>
history == <<gave_up, doomed, limit>>
vars == <<now, shared, pc, locals, reads, history>>

MaxTries == 3

PCs == {"idle", "look", "missed", "get", "edit", "set", "done"}
Ops == {"none", "store", "purge_key", "purge_all"}

TypeOK ==
  /\ now \in 0 .. MaxTime
  /\ shared \in [ShardIds -> [cas : Nat, entries : CacheShard]]
  /\ pc \in [Streams -> PCs]
  /\ op \in [Streams -> Ops]
  /\ key \in [Streams -> Keys \cup {ForeignKey}]
  /\ entry \in [Streams -> CacheEntry \cup {Absent}]
  /\ shard_id \in [Streams -> ShardIds]
  /\ tries \in [Streams -> 0 .. MaxTries - 1]
  /\ cas \in [Streams -> Nat]
  /\ buf \in [Streams -> CacheShard]
  /\ looked_at \in [Streams -> Nat]
  /\ hit \in [Streams -> CacheEntry \cup {Absent}]
  /\ gave_up \in [Streams -> BOOLEAN]
  /\ doomed \in [Streams -> SUBSET Streams]
  /\ limit \in [ShardIds -> Nat]

\* cas = 0 is a shard the host has never been given: get_shared_data answers
\* (None, None) and decode_shard makes that an empty shard.
Init ==
  /\ now = 0
  /\ shared = [s \in ShardIds |-> [cas |-> 0, entries |-> EmptyShard]]
  /\ pc = [r \in Streams |-> "idle"]
  /\ op = [r \in Streams |-> "none"]
  /\ key = [r \in Streams |-> ForeignKey]
  /\ entry = [r \in Streams |-> Absent]
  /\ shard_id = [r \in Streams |-> 0]
  /\ tries = [r \in Streams |-> 0]
  /\ cas = [r \in Streams |-> 0]
  /\ buf = [r \in Streams |-> EmptyShard]
  /\ looked_at = [r \in Streams |-> 0]
  /\ hit = [r \in Streams |-> Absent]
  /\ gave_up = [r \in Streams |-> FALSE]
  /\ doomed = [r \in Streams |-> {}]
  /\ limit = [s \in ShardIds |-> 0]
-----------------------------------------------------------------------------
\* The wall clock; monotone here.
Tick ==
  /\ now < MaxTime
  /\ now' = now + 1
  /\ UNCHANGED <<shared, pc, locals, reads, history>>

(* get_cache_entry: the clock is read, then the shard.  A stream looks up     *)
(* once, and it stores only under the key whose lookup missed.               *)

LookupBegin(r, k) ==
  /\ pc[r] = "idle"
  /\ pc' = [pc EXCEPT ![r] = "look"]
  /\ key' = [key EXCEPT ![r] = k]
  /\ looked_at' = [looked_at EXCEPT ![r] = now]
  /\ UNCHANGED <<now, shared, op, entry, shard_id, tries, cas, buf, hit, history>>

\* Fault: an expired entry is still a hit.
Fresh_Ignored(e, now_ms) == TRUE

Fresh(e, now_ms) == e.expires_at_ms > now_ms

\* Fault: any live entry of the shard answers.
LookupHit_AnyKey(r) ==
  /\ pc[r] = "look"
  /\ \E k \in Keys :
       LET found == shared[shard_id_from_key(key[r])].entries[k]
       IN  /\ found # Absent /\ Fresh(found, looked_at[r])
           /\ hit' = [hit EXCEPT ![r] = found]
  /\ pc' = [pc EXCEPT ![r] = "done"]
  /\ UNCHANGED <<now, shared, locals, looked_at, history>>

LookupHit(r) ==
  LET found == shared[shard_id_from_key(key[r])].entries[key[r]]
  IN  /\ pc[r] = "look" /\ found # Absent
      /\ Fresh(found, looked_at[r])
      /\ pc' = [pc EXCEPT ![r] = "done"]
      /\ hit' = [hit EXCEPT ![r] = found]
      /\ UNCHANGED <<now, shared, locals, looked_at, history>>

LookupMiss(r) ==
  LET found == shared[shard_id_from_key(key[r])].entries[key[r]]
  IN  /\ pc[r] = "look"
      /\ (found # Absent => ~Fresh(found, looked_at[r]))
      /\ pc' = [pc EXCEPT ![r] = "missed"]
      /\ UNCHANGED <<now, shared, locals, reads, history>>
-----------------------------------------------------------------------------
\* Enter one of the three writing functions: each stream enters one, once.
Enter(r, f, k, s, e) ==
  /\ pc' = [pc EXCEPT ![r] = "get"]
  /\ op' = [op EXCEPT ![r] = f]
  /\ key' = [key EXCEPT ![r] = k]
  /\ shard_id' = [shard_id EXCEPT ![r] = s]
  /\ entry' = [entry EXCEPT ![r] = e]
  /\ UNCHANGED <<now, shared, tries, cas, buf, reads, gave_up, limit>>

\* The expiry is fixed here, once, before the loop.
StoreBegin(r, d) ==
  /\ pc[r] = "missed"
  /\ Enter(r, "store", key[r], shard_id_from_key(key[r]),
           [expires_at_ms |-> now + Ttl[r], by |-> r, decision |-> d])
  /\ UNCHANGED doomed

PurgeKeyBegin(r, k) ==
  LET s == shard_id_from_key(k)
  IN  /\ pc[r] = "idle"
      /\ Enter(r, "purge_key", k, s, Absent)
      /\ doomed' = [doomed EXCEPT ![r] =
           {q \in Streams : k \in Stored(shared[s].entries) /\ shared[s].entries[k].by = q}]

\* Another spelling of a hash lies in the shard of that hash, and what is no hash
\* in shard 0; no entry has such a key (module Invalidation).
PurgeForeignBegin(r, s) ==
  /\ pc[r] = "idle"
  /\ Enter(r, "purge_key", ForeignKey, s, Absent)
  /\ UNCHANGED doomed

\* The loop over the shards starts at 0.
PurgeAllBegin(r) ==
  /\ pc[r] = "idle"
  /\ Enter(r, "purge_all", ForeignKey, 0, Absent)
  /\ doomed' = [doomed EXCEPT ![r] =
       UNION {Authors(shared[s].entries) : s \in ShardIds}]

\* Fault: set_shared_data is called without the version.
Version_Dropped(r) == 0

\* The version get_shared_data returns, which set_shared_data is called with.
Version(r) == shared[shard_id[r]].cas

\* get_shared_data into cas and buf; what the code does to buf before the next
\* host call is part of the step.
Fetch(r, edited, next) ==
  /\ pc[r] = "get"
  /\ pc' = [pc EXCEPT ![r] = next]
  /\ cas' = [cas EXCEPT ![r] = Version(r)]
  /\ buf' = [buf EXCEPT ![r] = edited]
  /\ UNCHANGED <<now, shared, op, key, entry, shard_id, tries, reads, history>>

StoreGet(r) ==
  /\ op[r] = "store"
  /\ Fetch(r, shared[shard_id[r]].entries, "edit")

PurgeKeyGet(r) ==
  /\ op[r] = "purge_key"
  /\ Fetch(r, [k \in Keys |-> IF k = key[r] THEN Absent
                              ELSE shared[shard_id[r]].entries[k]], "set")

PurgeAllGet(r) ==
  /\ op[r] = "purge_all"
  /\ Fetch(r, EmptyShard, "set")

\* The second clock reading, evict_expired, the insertion and enforce_quota.
StoreEdit(r) ==
  /\ pc[r] = "edit"
  /\ pc' = [pc EXCEPT ![r] = "set"]
  /\ buf' = [buf EXCEPT ![r] =
       enforce_quota([evict_expired(buf[r], now) EXCEPT ![key[r]] = entry[r]],
                     shard_quota(MaxEntries[r]))]
  /\ UNCHANGED <<now, shared, op, key, entry, shard_id, tries, cas, reads, history>>
-----------------------------------------------------------------------------
\* The host's test in set_shared_data: version 0 (None) is not compared.
CasMatches(r) == cas[r] \in {0, shared[shard_id[r]].cas}

\* Fault: the range over the shards is taken as inclusive.
MoreShards_Inclusive(r) == op[r] = "purge_all" /\ shard_id[r] + 1 \in 0 .. NumShards

MoreShards(r) == op[r] = "purge_all" /\ shard_id[r] + 1 \in ShardIds

\* The attempts for this shard are over: the next shard, or return.
LeaveLoop(r) ==
  /\ pc' = [pc EXCEPT ![r] = IF MoreShards(r) THEN "get" ELSE "done"]
  /\ shard_id' = [shard_id EXCEPT ![r] = IF MoreShards(r) THEN @ + 1 ELSE @]
  /\ tries' = [tries EXCEPT ![r] = 0]
  /\ cas' = [cas EXCEPT ![r] = 0]
  /\ buf' = [buf EXCEPT ![r] = EmptyShard]
  /\ UNCHANGED <<now, op, key, entry, reads, doomed>>

SetAccepted(r) ==
  /\ pc[r] = "set" /\ CasMatches(r)
  /\ shared' = [shared EXCEPT ![shard_id[r]] = [cas |-> @.cas + 1, entries |-> buf[r]]]
  /\ limit' = [limit EXCEPT ![shard_id[r]] =
       IF op[r] = "store" THEN MaxEntries[r] ELSE @]
  /\ LeaveLoop(r)
  /\ UNCHANGED gave_up

\* Fault: after a refusal only the version is read again, the edited copy is kept.
RetryFrom_StaleCopy(r) ==
  /\ pc' = pc
  /\ cas' = [cas EXCEPT ![r] = shared[shard_id[r]].cas]
  /\ buf' = buf

RetryFrom(r) ==
  /\ pc' = [pc EXCEPT ![r] = "get"]
  /\ cas' = [cas EXCEPT ![r] = 0]
  /\ buf' = [buf EXCEPT ![r] = EmptyShard]

\* Fault: the write is tried until it is accepted, with the version read once.
SetRefused_ForEver(r) ==
  pc[r] = "set" /\ ~CasMatches(r) /\ UNCHANGED vars

SetRefused(r) ==
  /\ pc[r] = "set" /\ ~CasMatches(r)
  /\ tries[r] + 1 < MaxTries
  /\ tries' = [tries EXCEPT ![r] = @ + 1]
  /\ RetryFrom(r)
  /\ UNCHANGED <<now, shared, op, key, entry, shard_id, reads, history>>

\* The third refusal: the loop ends and nothing is reported to the caller.
GiveUp(r) ==
  /\ pc[r] = "set" /\ ~CasMatches(r)
  /\ tries[r] + 1 = MaxTries
  /\ LeaveLoop(r)
  /\ gave_up' = [gave_up EXCEPT ![r] = TRUE]
  /\ UNCHANGED <<shared, limit>>

\* A stream inside one of the functions always has exactly one step to take.
Advance(r) ==
  \/ LookupHit(r) \/ LookupMiss(r)
  \/ StoreGet(r) \/ PurgeKeyGet(r) \/ PurgeAllGet(r)
  \/ StoreEdit(r)
  \/ SetAccepted(r) \/ SetRefused(r) \/ GiveUp(r)

Next ==
  \/ Tick
  \/ \E r \in Streams :
       \/ \E k \in Keys : LookupBegin(r, k)
       \/ \E d \in Decisions : StoreBegin(r, d)
       \/ \E k \in Keys : PurgeKeyBegin(r, k)
       \/ \E s \in ShardIds : PurgeForeignBegin(r, s)
       \/ PurgeAllBegin(r)
       \/ Advance(r)

Spec == Init /\ [][Next]_vars

-----------------------------------------------------------------------------
\* cache.max_entries is divided over the shards (cache.rs:182, README.md:69
\* "approximate maximum cache entries across shards"): whatever the writers
\* interleave, no shard ever holds more than its part, rounded up, of the max_entries
\* of the stream that last stored to it.  After a reconfiguration to fewer entries the
\* first store to a shard is enough, whoever else still writes by the old settings.
QuotaRespected ==
  \A s \in ShardIds :
     Cardinality(Stored(shared[s].entries)) * NumShards < limit[s] + NumShards

\* A purge that got its writes in is final: none of the entries it found when
\* it was called is in the cache then or ever after, however many stores were
\* in the middle of their read-modify-write (lib.rs:593-634, 469-505).
LandedPurgeIsFinal ==
  \A r \in Streams :
     (op[r] \in {"purge_key", "purge_all"} /\ pc[r] = "done" /\ ~gave_up[r])
        => \A s \in ShardIds : Authors(shared[s].entries) \cap doomed[r] = {}

\* Of the shard it replaces, with its own entry in it, a store drops only what
\* has expired, and what the shard's full part of max_entries outlives.  The latter
\* may be its own entry: with a shorter ttl than the entries of an earlier configuration
\* the new one goes first.  Excepted is a store that found the shard never written
\* (cas = 0): the host does not compare that version, so two first stores can
\* overwrite each other (lib.rs:470-500, cache.rs:192-215).
Outlived(after, k, e, max_entries) ==
  /\ Cardinality(Stored(after)) * NumShards >= max_entries
  /\ \A j \in Stored(after) : EvictedBefore([after EXCEPT ![k] = e], k, j)

StoreDrops(r) ==
  LET offered == [shared[shard_id[r]].entries EXCEPT ![key[r]] = entry[r]]
      after   == shared'[shard_id[r]].entries
  IN  \A k \in Stored(offered) \ Stored(after) :
        \/ k # key[r] /\ offered[k].expires_at_ms <= now
        \/ Outlived(after, k, offered[k], MaxEntries[r])

StoreKeepsOthers ==
  [][\A r \in Streams :
       (op[r] = "store" /\ cas[r] # 0 /\ SetAccepted(r)) => StoreDrops(r)]_vars

\* What a client is told: README.md:120 "Successful
\* invalidation returns `204`", and
\* handle_invalidation_request sends 204 once the purge function has returned
\* (lib.rs:579-589).  By then the entries it found should be gone.
ReturnedPurgeHasPurged ==
  \A r \in Streams :
     (op[r] \in {"purge_key", "purge_all"} /\ pc[r] = "done")
        => \A s \in ShardIds : Authors(shared[s].entries) \cap doomed[r] = {}

\* The abstract cache of module DecisionCache: the entries of all shards, and
\* the streams whose store has returned.
Cached == UNION {{<<k, shared[s].entries[k]>> : k \in Stored(shared[s].entries)} :
                   s \in ShardIds}
Spent  == {r \in Streams : op[r] = "store" /\ pc[r] = "done"}

D == INSTANCE DecisionCache WITH cached <- Cached, spent <- Spent

\* The read-modify-write loops of all streams together behave as a cache that
\* only forgets: an accepted write adds the writer's own entry, once, and brings
\* back nothing that a purge, an eviction or another store removed meanwhile.
\* The two steps of a lookup answer with what is cached when they end.
ActsAsDecisionCache == D!Spec
=============================================================================
