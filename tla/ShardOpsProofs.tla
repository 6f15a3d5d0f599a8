--------------------------- MODULE ShardOpsProofs ---------------------------
(***************************************************************************)
(* Lemmas about the pure operators of ShardOps: their types, what they     *)
(* keep, and the bound enforce_quota establishes.                          *)
(***************************************************************************)
EXTENDS ShardOps, FiniteSetTheorems, WellFoundedInduction, TLAPS

\* shard_quota is a positive number, whatever max_entries is (cache.rs:182).
LEMMA QuotaType ==
  ASSUME NEW max_entries \in Nat
  PROVE  shard_quota(max_entries) \in Nat \ {0}
<1>. DEFINE share == (max_entries + NumShards - 1) \div NumShards
<1>1. max_entries + NumShards - 1 \in Nat /\ NumShards \in Nat /\ NumShards > 0
  BY NumShardsAssumption
<1>2. share \in Nat
  BY <1>1
<1>. QED  BY <1>2 DEF shard_quota

LEMMA DivBounds ==
  ASSUME NEW m \in Nat, NEW n \in Nat \ {0}
  PROVE  /\ m \div n \in Nat
         /\ n * (m \div n) <= m /\ m < n * (m \div n) + n
OBVIOUS

\* The quotas of all shards together make up max_entries, and not a whole entry
\* per shard more (cache.rs:182).
LEMMA QuotaIsShare ==
  ASSUME NEW max_entries \in Nat \ {0}
  PROVE  /\ shard_quota(max_entries) * NumShards >= max_entries
         /\ shard_quota(max_entries) * NumShards < max_entries + NumShards
<1>. DEFINE m     == max_entries + NumShards - 1
            share == m \div NumShards
<1>1. m \in Nat /\ NumShards \in Nat \ {0}
  BY NumShardsAssumption
<1>2. share \in Nat /\ NumShards * share <= m /\ m < NumShards * share + NumShards
  BY <1>1, DivBounds
<1>3. shard_quota(max_entries) = IF share > 1 THEN share ELSE 1
  BY DEF shard_quota
<1>. HIDE DEF share
<1>4. share # 0
  BY <1>1, <1>2
<1>5. shard_quota(max_entries) = share
  BY <1>2, <1>3, <1>4
<1>. QED  BY <1>1, <1>2, <1>5

\* Every key has a shard (cache.rs:171).
LEMMA ShardIdType ==
  ASSUME NEW k \in Keys
  PROVE  shard_id_from_key(k) \in ShardIds
<1>1. k \in Nat /\ NumShards \in Nat /\ NumShards > 0
  BY KeysAssumption, NumShardsAssumption
<1>2. k % NumShards \in 0 .. NumShards - 1
  BY <1>1
<1>. QED  BY <1>2 DEF shard_id_from_key, ShardIds

\* evict_expired yields a shard and changes no entry it keeps (cache.rs:192).
LEMMA EvictExpiredKeeps ==
  ASSUME NEW shard \in CacheShard, NEW t
  PROVE  /\ evict_expired(shard, t) \in CacheShard
         /\ SubShard(evict_expired(shard, t), shard)
  BY DEF evict_expired, CacheShard, SubShard, Stored

\* enforce_quota yields a shard and changes no entry it keeps (cache.rs:198).
LEMMA EnforceQuotaKeeps ==
  ASSUME NEW shard \in CacheShard, NEW quota
  PROVE  /\ enforce_quota(shard, quota) \in CacheShard
         /\ SubShard(enforce_quota(shard, quota), shard)
  BY DEF enforce_quota, CacheShard, SubShard, Stored

\* A stored key has an expiry.
LEMMA StoredEntry ==
  ASSUME NEW shard \in CacheShard, NEW k \in Stored(shard)
  PROVE  k \in Nat /\ shard[k] \in CacheEntry /\ shard[k].expires_at_ms \in Nat
  BY KeysAssumption DEF CacheShard, Stored, CacheEntry

LEMMA OutlivingFinite ==
  ASSUME NEW shard \in CacheShard, NEW k \in Stored(shard)
  PROVE  /\ IsFiniteSet(Outliving(shard, k))
         /\ Cardinality(Outliving(shard, k)) \in Nat
<1>1. Outliving(shard, k) \in SUBSET Keys
  BY DEF Outliving, Stored
<1>. QED  BY <1>1, KeysAssumption, FS_Subset, FS_CardinalityType

\* The eviction order of min_by is total on the keys a shard holds ...
LEMMA EvictionOrderTotal ==
  ASSUME NEW shard \in CacheShard,
         NEW i \in Stored(shard), NEW j \in Stored(shard), i # j
  PROVE  EvictedBefore(shard, i, j) \/ EvictedBefore(shard, j, i)
  BY StoredEntry DEF EvictedBefore

\* ... so an entry evicted earlier is outlived by more entries.
LEMMA OutlivingDecreases ==
  ASSUME NEW shard \in CacheShard,
         NEW i \in Stored(shard), NEW j \in Stored(shard),
         EvictedBefore(shard, i, j)
  PROVE  Cardinality(Outliving(shard, j)) < Cardinality(Outliving(shard, i))
<1>1. Outliving(shard, j) \in SUBSET Outliving(shard, i)
  <2>. SUFFICES ASSUME NEW k \in Stored(shard), EvictedBefore(shard, j, k)
                PROVE  EvictedBefore(shard, i, k)
    BY DEF Outliving
  <2>. QED  BY StoredEntry DEF EvictedBefore
<1>2. j \in Outliving(shard, i) /\ j \notin Outliving(shard, j)
  BY StoredEntry DEF Outliving, EvictedBefore
<1>3. Cardinality(Outliving(shard, j)) <= Cardinality(Outliving(shard, i))
  BY <1>1, OutlivingFinite, FS_Subset
<1>4. Cardinality(Outliving(shard, j)) # Cardinality(Outliving(shard, i))
  BY <1>1, <1>2, OutlivingFinite, FS_Subset
<1>. QED  BY <1>3, <1>4, OutlivingFinite

\* enforce_quota keeps at most quota entries: were there more, two of them would
\* be outlived by equally many others (cache.rs:198).
LEMMA EnforceQuotaBound ==
  ASSUME NEW shard \in CacheShard, NEW quota \in Nat
  PROVE  Cardinality(Stored(enforce_quota(shard, quota))) <= quota
<1>. DEFINE Kept == Stored(enforce_quota(shard, quota))
            rank == [k \in Kept |-> Cardinality(Outliving(shard, k))]
<1>1. \A k \in Kept : k \in Stored(shard) /\ Cardinality(Outliving(shard, k)) < quota
  BY DEF enforce_quota, Stored
<1>2. IsFiniteSet(Kept) /\ Cardinality(Kept) \in Nat
  <2>1. Kept \in SUBSET Keys
    BY DEF Stored
  <2>. QED  BY <2>1, KeysAssumption, FS_Subset, FS_CardinalityType
<1>3. rank \in [Kept -> 0 .. quota - 1]
  <2>. SUFFICES ASSUME NEW k \in Kept
                PROVE  Cardinality(Outliving(shard, k)) \in 0 .. quota - 1
    OBVIOUS
  <2>. QED  BY <1>1, OutlivingFinite
<1>4. \A i, j \in Kept : i # j => rank[i] # rank[j]
  <2>. SUFFICES ASSUME NEW i \in Kept, NEW j \in Kept, i # j
                PROVE  Cardinality(Outliving(shard, i)) # Cardinality(Outliving(shard, j))
    OBVIOUS
  <2>1. i \in Stored(shard) /\ j \in Stored(shard)
    BY <1>1
  <2>2. CASE EvictedBefore(shard, i, j)
    BY <2>1, <2>2, OutlivingDecreases, OutlivingFinite
  <2>3. CASE EvictedBefore(shard, j, i)
    BY <2>1, <2>3, OutlivingDecreases, OutlivingFinite
  <2>. QED  BY <2>1, <2>2, <2>3, EvictionOrderTotal
<1>5. IsFiniteSet(0 .. quota - 1) /\ Cardinality(0 .. quota - 1) = quota
  BY FS_Interval
<1>. HIDE DEF Kept, rank
<1>6. ~(quota < Cardinality(Kept))
  BY <1>2, <1>3, <1>4, <1>5, FS_PigeonHole
<1>. QED  BY <1>2, <1>6 DEF Kept

\* What enforce_quota drops is outlived by everything it keeps, and it keeps as
\* many entries as the quota allows (cache.rs:198): of what it drops, take an
\* entry that nothing dropped outlives; the entries that do outlive it are kept.
LEMMA EnforceQuotaDrops ==
  ASSUME NEW shard \in CacheShard, NEW quota \in Nat,
         NEW k \in Stored(shard) \ Stored(enforce_quota(shard, quota))
  PROVE  /\ Cardinality(Stored(enforce_quota(shard, quota))) = quota
         /\ \A j \in Stored(enforce_quota(shard, quota)) : EvictedBefore(shard, k, j)
<1>. DEFINE Kept    == Stored(enforce_quota(shard, quota))
            Dropped == Stored(shard) \ Kept
            Above   == {Outliving(shard, j) : j \in Dropped}
<1>1. /\ \A j \in Kept : j \in Stored(shard) /\ Cardinality(Outliving(shard, j)) < quota
      /\ \A j \in Dropped : j \in Stored(shard) /\ ~(Cardinality(Outliving(shard, j)) < quota)
  BY AbsentAssumption DEF enforce_quota, Stored
<1>2. ASSUME NEW j \in Kept
      PROVE  EvictedBefore(shard, k, j)
  <2>1. k # j /\ k \in Stored(shard) /\ j \in Stored(shard)
    BY <1>1
  <2>2. ASSUME EvictedBefore(shard, j, k) PROVE FALSE
    <3>1. Cardinality(Outliving(shard, k)) < Cardinality(Outliving(shard, j))
      BY <2>1, <2>2, OutlivingDecreases
    <3>. QED  BY <1>1, <2>1, <3>1, OutlivingFinite
  <2>. QED  BY <2>1, <2>2, EvictionOrderTotal
<1>3. PICK last \in Dropped :
        \A j \in Dropped : ~(/\ Outliving(shard, j) \subseteq Outliving(shard, last)
                            /\ Outliving(shard, j) # Outliving(shard, last))
  <2>1. Above \subseteq FiniteSubsetsOf(Keys) /\ Above # {}
    <3>1. ASSUME NEW j \in Dropped
          PROVE  Outliving(shard, j) \in SUBSET Keys /\ IsFiniteSet(Outliving(shard, j))
      BY OutlivingFinite DEF Outliving, Stored
    <3>. QED  BY <3>1 DEF FiniteSubsetsOf
  <2>2. IsWellFoundedOn(StrictSubsetOrdering(Keys), FiniteSubsetsOf(Keys))
    BY FS_StrictSubsetOrderingWellFounded
  <2>. HIDE DEF Above
  <2>3. PICK A \in Above : \A B \in Above : ~(<<B, A>> \in StrictSubsetOrdering(Keys))
    BY <2>1, <2>2, WFMin
  <2>4. PICK last \in Dropped : A = Outliving(shard, last)
    BY DEF Above
  <2>5. ASSUME NEW j \in Dropped, Outliving(shard, j) \subseteq A, Outliving(shard, j) # A
        PROVE  FALSE
    <3>1. Outliving(shard, j) \in Above
      BY DEF Above
    <3>. QED  BY <2>3, <2>5, <3>1, <2>1 DEF StrictSubsetOrdering, FiniteSubsetsOf
  <2>. QED  BY <2>4, <2>5
<1>4. Outliving(shard, last) \in SUBSET Kept
  <2>. SUFFICES ASSUME NEW j \in Stored(shard), EvictedBefore(shard, last, j), j \in Dropped
                PROVE  FALSE
    BY DEF Outliving
  <2>1. Outliving(shard, j) \subseteq Outliving(shard, last)
    BY StoredEntry DEF Outliving, EvictedBefore
  <2>2. j \in Outliving(shard, last) /\ j \notin Outliving(shard, j)
    BY StoredEntry DEF Outliving, EvictedBefore
  <2>. QED  BY <1>3, <2>1, <2>2
<1>5. IsFiniteSet(Kept) /\ Cardinality(Kept) \in Nat
  <2>1. Kept \in SUBSET Keys
    BY DEF Stored
  <2>. QED  BY <2>1, KeysAssumption, FS_Subset, FS_CardinalityType
<1>6. Cardinality(Outliving(shard, last)) <= Cardinality(Kept)
  BY <1>4, <1>5, FS_Subset
<1>7. Cardinality(Kept) <= quota
  BY EnforceQuotaBound
<1>8. Cardinality(Kept) = quota
  BY <1>1, <1>3, <1>5, <1>6, <1>7, OutlivingFinite
<1>. QED  BY <1>2, <1>8
=============================================================================
