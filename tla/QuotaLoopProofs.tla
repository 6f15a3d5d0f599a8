-------------------------- MODULE QuotaLoopProofs --------------------------
(***************************************************************************)
(* The loop of enforce_quota computes the closed form of ShardOps, for     *)
(* every shard and quota: removing the nearest expiry does not change which *)
(* entries the closed form keeps, and a shard within the quota is its own.  *)
(***************************************************************************)
EXTENDS QuotaLoop, ShardOpsProofs

Inv ==
  /\ TypeOK
  /\ enforce_quota(shard, quota) = enforce_quota(given, quota)
  /\ pc = "returned" => ~OverQuota

LEMMA StoredFinite ==
  ASSUME NEW s \in CacheShard
  PROVE  IsFiniteSet(Stored(s)) /\ Cardinality(Stored(s)) \in Nat
<1>1. Stored(s) \in SUBSET Keys
  BY DEF Stored
<1>. QED  BY <1>1, KeysAssumption, FS_Subset, FS_CardinalityType

\* Within the quota nothing goes: an entry is outlived by fewer than there are.
LEMMA ClosedFormWithin ==
  ASSUME NEW s \in CacheShard, NEW q \in Nat, Cardinality(Stored(s)) <= q
  PROVE  enforce_quota(s, q) = s
<1>1. ASSUME NEW k \in Stored(s)
      PROVE  Cardinality(Outliving(s, k)) < q
  <2>1. Outliving(s, k) \in SUBSET Stored(s) /\ k \in Stored(s) /\ k \notin Outliving(s, k)
    BY StoredEntry DEF Outliving, EvictedBefore
  <2>2. /\ Cardinality(Outliving(s, k)) <= Cardinality(Stored(s))
        /\ Cardinality(Outliving(s, k)) # Cardinality(Stored(s))
    BY <2>1, StoredFinite, FS_Subset
  <2>. QED  BY <2>2, StoredFinite, OutlivingFinite
<1>2. \A k \in Keys : enforce_quota(s, q)[k] = s[k]
  BY <1>1 DEF enforce_quota, Stored
<1>. QED  BY <1>2 DEF enforce_quota, CacheShard

\* Over the quota the nearest expiry goes, and which others go is the same
\* without it.
LEMMA ClosedFormRemove ==
  ASSUME NEW s \in CacheShard, NEW q \in Nat, Cardinality(Stored(s)) > q,
         NEW k \in Stored(s), \A j \in Stored(s) \ {k} : EvictedBefore(s, k, j)
  PROVE  enforce_quota([s EXCEPT ![k] = Absent], q) = enforce_quota(s, q)
<1>. DEFINE t == [s EXCEPT ![k] = Absent]
<1>1. Stored(t) = Stored(s) \ {k} /\ \A i \in Stored(t) : t[i] = s[i]
  BY DEF Stored, CacheShard
<1>2. t \in CacheShard
  BY DEF CacheShard
<1>3. ~(Cardinality(Outliving(s, k)) < q)
  <2>1. Outliving(s, k) = Stored(s) \ {k}
    BY StoredEntry DEF Outliving, EvictedBefore
  <2>2. Cardinality(Outliving(s, k)) = Cardinality(Stored(s)) - 1
    BY <2>1, StoredFinite, FS_RemoveElement
  <2>. QED  BY <2>2, StoredFinite
<1>4. ASSUME NEW i \in Stored(t)
      PROVE  Outliving(t, i) = Outliving(s, i)
  <2>1. i \in Stored(s) /\ EvictedBefore(s, k, i)
    BY <1>1
  <2>2. k \notin Outliving(s, i)
    BY <2>1, StoredEntry DEF Outliving, EvictedBefore
  <2>. QED  BY <1>1, <2>2 DEF Outliving, EvictedBefore
<1>5. \A i \in Keys : enforce_quota(t, q)[i] = enforce_quota(s, q)[i]
  <2>. SUFFICES ASSUME NEW i \in Keys
                PROVE  enforce_quota(t, q)[i] = enforce_quota(s, q)[i]
    OBVIOUS
  <2>1. CASE i \in Stored(t)
    BY <1>1, <1>4, <2>1 DEF enforce_quota, Stored
  <2>2. CASE i = k
    BY <1>1, <1>3, <2>2 DEF enforce_quota, Stored
  <2>3. CASE i \notin Stored(s)
    BY <1>1, <2>3 DEF enforce_quota, Stored
  <2>. QED  BY <1>1, <2>1, <2>2, <2>3
<1>. QED  BY <1>5 DEF enforce_quota

LEMMA InvInit == Init => Inv
<1>. SUFFICES ASSUME Init PROVE Inv
  OBVIOUS
<1>1. Cardinality(Keys) \in Nat
  BY KeysAssumption, FS_CardinalityType
<1>. QED  BY <1>1, EntriesAssumption DEF Init, Inv, TypeOK, CacheShard

LEMMA InvStep == Inv /\ [Next]_vars => Inv'
<1>. SUFFICES ASSUME Inv, [Next]_vars PROVE Inv'
  OBVIOUS
<1>. USE DEF Inv, TypeOK
<1>1. ASSUME NEW k \in Stored(shard), pc = "loop", OverQuota, NearestExpiry(k),
             shard' = Without(k), UNCHANGED <<given, quota, pc>>
      PROVE  Inv'
  <2>1. Cardinality(Stored(shard)) > quota
    BY <1>1, StoredFinite DEF OverQuota
  <2>2. \A j \in Stored(shard) \ {k} : EvictedBefore(shard, k, j)
    BY <1>1 DEF NearestExpiry, EvictedBefore
  <2>3. enforce_quota(shard', quota) = enforce_quota(shard, quota)
    BY <1>1, <2>1, <2>2, ClosedFormRemove DEF Without
  <2>4. shard' \in CacheShard
    BY <1>1 DEF Without, CacheShard
  <2>. QED  BY <1>1, <2>3, <2>4
<1>2. CASE Return
  BY <1>2 DEF Return, OverQuota
<1>3. CASE UNCHANGED vars
  BY <1>3 DEF vars, OverQuota
<1>. QED  BY <1>1, <1>2, <1>3 DEF Next, RemoveNearest

\* The loop of enforce_quota returns the closed form (cache.rs:198-215).
THEOREM LoopCorrect == Spec => []LoopReturnsClosedForm
<1>1. Inv => LoopReturnsClosedForm
  <2>. SUFFICES ASSUME Inv, pc = "returned" PROVE shard = enforce_quota(given, quota)
    BY DEF LoopReturnsClosedForm
  <2>1. Cardinality(Stored(shard)) <= quota
    BY StoredFinite DEF Inv, TypeOK, OverQuota
  <2>. QED  BY <2>1, ClosedFormWithin DEF Inv, TypeOK
<1>. QED  BY <1>1, InvInit, InvStep, PTL DEF Spec
=============================================================================
