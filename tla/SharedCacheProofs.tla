------------------------- MODULE SharedCacheProofs -------------------------
(***************************************************************************)
(* Theorems about SharedCache, for every set of keys and streams, every    *)
(* number of shards, every quota, ttl and clock bound.                     *)
(***************************************************************************)
EXTENDS SharedCache, ShardOpsProofs

\* A stream that looks up, or has missed, does so under a computed key.
LookedUpKey == \A r \in Streams : pc[r] \in {"look", "missed"} => key[r] \in Keys

TypeInv == TypeOK /\ LookedUpKey

LEMMA FirstShard == 0 \in ShardIds
  BY NumShardsAssumption DEF ShardIds

LEMMA EmptyShardType == EmptyShard \in CacheShard
  BY DEF EmptyShard, CacheShard

LEMMA TypeInvInit == Init => TypeInv
  BY FirstShard, EmptyShardType, MaxTimeAssumption
  DEF Init, TypeInv, TypeOK, LookedUpKey, PCs, Ops, MaxTries

LEMMA TypeInvStep == TypeInv /\ [Next]_vars => TypeInv'
<1>. SUFFICES ASSUME TypeInv, [Next]_vars PROVE TypeInv'
  OBVIOUS
<1>. USE DEF TypeInv, TypeOK, LookedUpKey, PCs, Ops, locals, reads, history
<1>1. CASE Tick
  BY <1>1, MaxTimeAssumption DEF Tick
<1>2. ASSUME NEW r \in Streams, NEW k \in Keys, LookupBegin(r, k)
      PROVE  TypeInv'
  BY <1>2 DEF LookupBegin
<1>3. ASSUME NEW r \in Streams, NEW d \in Decisions, StoreBegin(r, d)
      PROVE  TypeInv'
  <2>1. [expires_at_ms |-> now + Ttl[r], by |-> r, decision |-> d] \in CacheEntry
    BY <1>3, TtlAssumption DEF CacheEntry
  <2>. QED  BY <1>3, <2>1, ShardIdType, FirstShard DEF StoreBegin, Enter
<1>4. ASSUME NEW r \in Streams, NEW k \in Keys, PurgeKeyBegin(r, k)
      PROVE  TypeInv'
  BY <1>4, ShardIdType, FirstShard DEF PurgeKeyBegin, Enter
<1>4a. ASSUME NEW r \in Streams, NEW s \in ShardIds, PurgeForeignBegin(r, s)
      PROVE  TypeInv'
  BY <1>4a DEF PurgeForeignBegin, Enter
<1>5. ASSUME NEW r \in Streams, PurgeAllBegin(r)
      PROVE  TypeInv'
  <2>1. ForeignKey \in Keys \cup {ForeignKey}
    OBVIOUS
  <2>2. UNION {Authors(shared[s].entries) : s \in ShardIds} \in SUBSET Streams
    <3>. SUFFICES ASSUME NEW s \in ShardIds
                  PROVE  Authors(shared[s].entries) \subseteq Streams
      OBVIOUS
    <3>. QED  BY DEF Authors, Stored, CacheShard, CacheEntry
  <2>. QED  BY <1>5, <2>1, <2>2, ShardIdType, FirstShard DEF PurgeAllBegin, Enter
<1>6. ASSUME NEW r \in Streams, LookupHit(r)
      PROVE  TypeInv'
  <2>1. shared[shard_id_from_key(key[r])].entries[key[r]] \in CacheEntry \cup {Absent}
    BY <1>6, ShardIdType DEF LookupHit, CacheShard
  <2>. QED  BY <1>6, <2>1 DEF LookupHit
<1>7. ASSUME NEW r \in Streams, LookupMiss(r)
      PROVE  TypeInv'
  BY <1>7 DEF LookupMiss
<1>8. ASSUME NEW r \in Streams, StoreGet(r)
      PROVE  TypeInv'
  BY <1>8 DEF StoreGet, Fetch, Version
<1>9. ASSUME NEW r \in Streams, PurgeKeyGet(r)
      PROVE  TypeInv'
  <2>1. [k \in Keys |-> IF k = key[r] THEN Absent ELSE shared[shard_id[r]].entries[k]]
          \in CacheShard
    BY DEF CacheShard
  <2>. QED  BY <1>9, <2>1 DEF PurgeKeyGet, Fetch, Version
<1>10. ASSUME NEW r \in Streams, PurgeAllGet(r)
       PROVE  TypeInv'
  BY <1>10, EmptyShardType DEF PurgeAllGet, Fetch, Version
<1>11. ASSUME NEW r \in Streams, StoreEdit(r)
       PROVE  TypeInv'
  <2>. DEFINE inserted == [evict_expired(buf[r], now) EXCEPT ![key[r]] = entry[r]]
  <2>1. inserted \in CacheShard
    BY EvictExpiredKeeps DEF CacheShard
  <2>2. enforce_quota(inserted, shard_quota(MaxEntries[r])) \in CacheShard
    BY <2>1, EnforceQuotaKeeps
  <2>. QED  BY <1>11, <2>2 DEF StoreEdit
<1>12. ASSUME NEW r \in Streams, SetAccepted(r)
       PROVE  TypeInv'
  <2>1. MaxEntries[r] \in Nat
    BY MaxEntriesAssumption
  <2>2. limit' \in [ShardIds -> Nat]
    BY <1>12, <2>1 DEF SetAccepted
  <2>. QED
    BY <1>12, <2>2, EmptyShardType DEF SetAccepted, LeaveLoop, MoreShards, MaxTries
<1>13. ASSUME NEW r \in Streams, SetRefused(r)
       PROVE  TypeInv'
  <2>1. tries[r] + 1 \in 0 .. MaxTries - 1
    BY <1>13 DEF SetRefused, MaxTries
  <2>2. tries' \in [Streams -> 0 .. MaxTries - 1]
    BY <1>13, <2>1 DEF SetRefused
  <2>3. pc' \in [Streams -> PCs] /\ cas' \in [Streams -> Nat] /\ buf' \in [Streams -> CacheShard]
    BY <1>13, EmptyShardType DEF SetRefused, RetryFrom
  <2>4. LookedUpKey'
    BY <1>13 DEF SetRefused, RetryFrom
  <2>. QED  BY <1>13, <2>2, <2>3, <2>4 DEF SetRefused
<1>14. ASSUME NEW r \in Streams, GiveUp(r)
       PROVE  TypeInv'
  BY <1>14, EmptyShardType DEF GiveUp, LeaveLoop, MoreShards, MaxTries
<1>15. CASE UNCHANGED vars
  BY <1>15 DEF vars
<1>. QED
  BY <1>1, <1>2, <1>3, <1>4, <1>4a, <1>5, <1>6, <1>7, <1>8, <1>9, <1>10, <1>11, <1>12,
     <1>13, <1>14, <1>15 DEF Next, Advance

\* Every variable keeps its type; in particular the loop over the shards never
\* leaves 0..NUM_SHARDS and no loop starts a fourth attempt (lib.rs:469, 622-632).
THEOREM TypeCorrect == Spec => []TypeOK
<1>1. TypeInv => TypeOK
  BY DEF TypeInv
<1>. QED  BY <1>1, TypeInvInit, TypeInvStep, PTL DEF Spec
-----------------------------------------------------------------------------
(* The read-modify-write loop.  What makes a stale copy harmless is the     *)
(* version: a copy the host would still accept holds nothing that the      *)
(* shard does not hold, except the entry its stream is storing.            *)

\* What a stream at a place in the code is doing, and for which shard.
ControlInv ==
  \A r \in Streams :
     /\ pc[r] \in {"idle", "look", "missed"} => op[r] = "none"
     /\ pc[r] \in {"get", "edit", "set"} => op[r] # "none"
     /\ pc[r] = "edit" => op[r] = "store"
     /\ op[r] \in {"store", "purge_key"} /\ key[r] \in Keys
          => shard_id[r] = shard_id_from_key(key[r])
     /\ op[r] = "store" => /\ key[r] \in Keys
                           /\ entry[r] \in CacheEntry /\ entry[r].by = r

\* The entry its stream is about to store.
IsOwn(r, k) ==
  op[r] = "store" /\ pc[r] = "set" /\ k = key[r] /\ buf[r][k] = entry[r]

\* A shard without a version is one nobody has written.
Unwritten == \A s \in ShardIds : shared[s].cas = 0 => shared[s].entries = EmptyShard

\* A version a stream holds is one the shard has had.
Versions ==
  \A r \in Streams : /\ cas[r] <= shared[shard_id[r]].cas
                     /\ pc[r] \notin {"edit", "set"} => cas[r] = 0

\* What an acceptable copy holds is in the shard: in the shard the copy was
\* taken from, so in no shard at all when there was none (cas = 0).
Copies ==
  \A r \in Streams : pc[r] \in {"edit", "set"} /\ CasMatches(r) =>
    \A k \in Stored(buf[r]) :
       \/ IsOwn(r, k)
       \/ cas[r] # 0 /\ buf[r][k] = shared[shard_id[r]].entries[k]

CopyInv == Unwritten /\ Versions /\ Copies

LoopInv == ControlInv /\ CopyInv

LEMMA LoopInvInit == Init => LoopInv
  BY FirstShard DEF Init, LoopInv, ControlInv, CopyInv, Unwritten, Versions, Copies,
     EmptyShard, Stored

LEMMA ControlInvStep == TypeInv /\ ControlInv /\ [Next]_vars => ControlInv'
<1>. SUFFICES ASSUME TypeInv, ControlInv, [Next]_vars PROVE ControlInv'
  OBVIOUS
<1>. USE DEF TypeInv, TypeOK, LookedUpKey, ControlInv, PCs, Ops, locals, reads, history
<1>1. CASE Tick
  BY <1>1 DEF Tick
<1>2. ASSUME NEW r \in Streams, NEW k \in Keys, LookupBegin(r, k)
      PROVE  ControlInv'
  BY <1>2 DEF LookupBegin
<1>3. ASSUME NEW r \in Streams, NEW d \in Decisions, StoreBegin(r, d)
      PROVE  ControlInv'
  <2>1. [expires_at_ms |-> now + Ttl[r], by |-> r, decision |-> d] \in CacheEntry
    BY TtlAssumption DEF CacheEntry
  <2>. QED  BY <1>3, <2>1 DEF StoreBegin, Enter
<1>4. ASSUME NEW r \in Streams, NEW k \in Keys, PurgeKeyBegin(r, k)
      PROVE  ControlInv'
  BY <1>4 DEF PurgeKeyBegin, Enter
<1>4a. ASSUME NEW r \in Streams, NEW s \in ShardIds, PurgeForeignBegin(r, s)
      PROVE  ControlInv'
  BY <1>4a, ForeignKeyAssumption DEF PurgeForeignBegin, Enter
<1>5. ASSUME NEW r \in Streams, PurgeAllBegin(r)
      PROVE  ControlInv'
  BY <1>5 DEF PurgeAllBegin, Enter
<1>6. ASSUME NEW r \in Streams, LookupHit(r)
      PROVE  ControlInv'
  BY <1>6 DEF LookupHit
<1>7. ASSUME NEW r \in Streams, LookupMiss(r)
      PROVE  ControlInv'
  BY <1>7 DEF LookupMiss
<1>8. ASSUME NEW r \in Streams, StoreGet(r)
      PROVE  ControlInv'
  BY <1>8 DEF StoreGet, Fetch, Version
<1>9. ASSUME NEW r \in Streams, PurgeKeyGet(r)
      PROVE  ControlInv'
  BY <1>9 DEF PurgeKeyGet, Fetch, Version
<1>10. ASSUME NEW r \in Streams, PurgeAllGet(r)
       PROVE  ControlInv'
  BY <1>10 DEF PurgeAllGet, Fetch, Version
<1>11. ASSUME NEW r \in Streams, StoreEdit(r)
       PROVE  ControlInv'
  BY <1>11 DEF StoreEdit
<1>12. ASSUME NEW r \in Streams, SetAccepted(r)
       PROVE  ControlInv'
  BY <1>12 DEF SetAccepted, LeaveLoop, MoreShards
<1>13. ASSUME NEW r \in Streams, SetRefused(r)
       PROVE  ControlInv'
  BY <1>13 DEF SetRefused, RetryFrom
<1>14. ASSUME NEW r \in Streams, GiveUp(r)
       PROVE  ControlInv'
  BY <1>14 DEF GiveUp, LeaveLoop, MoreShards
<1>15. CASE UNCHANGED vars
  BY <1>15 DEF vars
<1>. QED
  BY <1>1, <1>2, <1>3, <1>4, <1>4a, <1>5, <1>6, <1>7, <1>8, <1>9, <1>10, <1>11, <1>12,
     <1>13, <1>14, <1>15 DEF Next, Advance

LEMMA CopyInvStep ==
  TypeInv /\ ControlInv /\ CopyInv /\ [Next]_vars => CopyInv'
<1>. SUFFICES ASSUME TypeInv, ControlInv, CopyInv, [Next]_vars PROVE CopyInv'
  OBVIOUS
<1>. USE DEF TypeInv, TypeOK, ControlInv, CopyInv, Unwritten, Versions, Copies,
             PCs, Ops, IsOwn, CasMatches, locals, reads, history
<1>1. CASE Tick
  BY <1>1 DEF Tick
<1>2. ASSUME NEW r \in Streams, NEW k \in Keys, LookupBegin(r, k)
      PROVE  CopyInv'
  BY <1>2 DEF LookupBegin
<1>3. ASSUME NEW r \in Streams, NEW d \in Decisions, StoreBegin(r, d)
      PROVE  CopyInv'
  <2>1. key[r] \in Keys
    BY <1>3 DEF LookedUpKey, StoreBegin
  <2>. QED  BY <1>3, <2>1, ShardIdType DEF StoreBegin, Enter
<1>4. ASSUME NEW r \in Streams, NEW k \in Keys, PurgeKeyBegin(r, k)
      PROVE  CopyInv'
  BY <1>4, ShardIdType, FirstShard DEF PurgeKeyBegin, Enter
<1>4a. ASSUME NEW r \in Streams, NEW s \in ShardIds, PurgeForeignBegin(r, s)
      PROVE  CopyInv'
  BY <1>4a DEF PurgeForeignBegin, Enter
<1>5. ASSUME NEW r \in Streams, PurgeAllBegin(r)
      PROVE  CopyInv'
  BY <1>5, ShardIdType, FirstShard DEF PurgeAllBegin, Enter
<1>6. ASSUME NEW r \in Streams, LookupHit(r)
      PROVE  CopyInv'
  BY <1>6 DEF LookupHit
<1>7. ASSUME NEW r \in Streams, LookupMiss(r)
      PROVE  CopyInv'
  BY <1>7 DEF LookupMiss
<1>8. ASSUME NEW r \in Streams, StoreGet(r)
      PROVE  CopyInv'
  BY <1>8 DEF StoreGet, Fetch, Version, Stored, EmptyShard
<1>9. ASSUME NEW r \in Streams, PurgeKeyGet(r)
      PROVE  CopyInv'
  BY <1>9 DEF PurgeKeyGet, Fetch, Version, Stored, EmptyShard
<1>10. ASSUME NEW r \in Streams, PurgeAllGet(r)
       PROVE  CopyInv'
  BY <1>10 DEF PurgeAllGet, Fetch, Version, Stored, EmptyShard
<1>11. ASSUME NEW r \in Streams, StoreEdit(r)
       PROVE  CopyInv'
  <2>. DEFINE kept     == evict_expired(buf[r], now)
              inserted == [kept EXCEPT ![key[r]] = entry[r]]
              trimmed  == enforce_quota(inserted, shard_quota(MaxEntries[r]))
  <2>1. kept \in CacheShard /\ SubShard(kept, buf[r])
    BY EvictExpiredKeeps
  <2>2. inserted \in CacheShard
    BY <2>1 DEF CacheShard
  <2>3. SubShard(trimmed, inserted)
    BY <2>2, EnforceQuotaKeeps
  <2>4. ASSUME NEW k \in Stored(trimmed)
        PROVE  \/ k = key[r] /\ trimmed[k] = entry[r]
               \/ k \in Stored(buf[r]) /\ trimmed[k] = buf[r][k]
    BY <2>1, <2>3, ZenonT(60) DEF SubShard, Stored, CacheShard
  <2>5. /\ pc[r] = "edit" /\ op[r] = "store"
        /\ pc' = [pc EXCEPT ![r] = "set"] /\ buf' = [buf EXCEPT ![r] = trimmed]
        /\ UNCHANGED <<shared, op, key, entry, shard_id, cas>>
    BY <1>11 DEF StoreEdit
  <2>. HIDE DEF trimmed
  <2>. QED  BY <2>4, <2>5
<1>12. ASSUME NEW r \in Streams, SetAccepted(r)
       PROVE  CopyInv'
  <2>1. Unwritten'
    BY <1>12 DEF SetAccepted
  <2>2. Versions'
    BY <1>12 DEF SetAccepted, LeaveLoop, MoreShards
  <2>3. ASSUME NEW q \in Streams, pc'[q] \in {"edit", "set"}, CasMatches(q)'
        PROVE  /\ q # r
               /\ pc[q] \in {"edit", "set"} /\ CasMatches(q)
               /\ cas[q] # 0 => shared'[shard_id[q]] = shared[shard_id[q]]
    BY <1>12, <2>3 DEF SetAccepted, LeaveLoop
  <2>4. ASSUME NEW q \in Streams, q # r
        PROVE  /\ pc'[q] = pc[q] /\ cas'[q] = cas[q] /\ buf'[q] = buf[q]
               /\ shard_id'[q] = shard_id[q]
               /\ op'[q] = op[q] /\ key'[q] = key[q] /\ entry'[q] = entry[q]
    BY <1>12, <2>4 DEF SetAccepted, LeaveLoop
  <2>5. ASSUME NEW q \in Streams, pc'[q] \in {"edit", "set"}, CasMatches(q)',
               NEW k \in Stored(buf'[q])
        PROVE  \/ IsOwn(q, k)'
               \/ cas'[q] # 0 /\ buf'[q][k] = shared'[shard_id'[q]].entries[k]
    BY <2>3, <2>4, <2>5
  <2>6. Copies'
    BY <2>5
  <2>. QED  BY <2>1, <2>2, <2>6
<1>13. ASSUME NEW r \in Streams, SetRefused(r)
       PROVE  CopyInv'
  BY <1>13 DEF SetRefused, RetryFrom
<1>14. ASSUME NEW r \in Streams, GiveUp(r)
       PROVE  CopyInv'
  BY <1>14 DEF GiveUp, LeaveLoop, MoreShards
<1>15. CASE UNCHANGED vars
  BY <1>15 DEF vars
<1>. QED
  BY <1>1, <1>2, <1>3, <1>4, <1>4a, <1>5, <1>6, <1>7, <1>8, <1>9, <1>10, <1>11, <1>12,
     <1>13, <1>14, <1>15 DEF Next, Advance
-----------------------------------------------------------------------------
(* What a store writes.  QuotaRespected is not inductive: the shard a step    *)
(* writes is the copy a stream holds, so the copies count as well.           *)

\* What a store makes of a shard when it edits it at time t.
Edited(r, base, t) ==
  enforce_quota([evict_expired(base, t) EXCEPT ![key[r]] = entry[r]],
                shard_quota(MaxEntries[r]))

\* A copy of a store is what the shard holds, or was made of it, as long as
\* the host would accept it.
OfShard(r, base) ==
  CasMatches(r) /\ cas[r] # 0 => base = shared[shard_id[r]].entries

EditedCopy(r) ==
  /\ pc[r] = "edit" => OfShard(r, buf[r])
  /\ pc[r] = "set" /\ op[r] = "store" =>
       \E base \in CacheShard, t \in 0 .. now :
          buf[r] = Edited(r, base, t) /\ OfShard(r, base)

EditInv == \A r \in Streams : EditedCopy(r)

LEMMA EditInvInit == Init => EditInv
  BY DEF Init, EditInv, EditedCopy

\* A step of the clock or of another stream leaves a copy what it is: a shard
\* that changes gets a new version.
LEMMA OthersKeepEdit ==
  ASSUME TypeInv, LoopInv, NEW q \in Streams, EditedCopy(q),
         now' \in Nat, now <= now',
         pc'[q] = pc[q], op'[q] = op[q], key'[q] = key[q], entry'[q] = entry[q],
         shard_id'[q] = shard_id[q], cas'[q] = cas[q], buf'[q] = buf[q],
         \A s \in ShardIds : \/ shared'[s] = shared[s]
                             \/ shared'[s].cas = shared[s].cas + 1
  PROVE  EditedCopy(q)'
<1>1. ASSUME NEW base, OfShard(q, base)
      PROVE  OfShard(q, base)'
  <2>1. shard_id[q] \in ShardIds /\ cas[q] \in Nat /\ shared[shard_id[q]].cas \in Nat
        /\ cas[q] <= shared[shard_id[q]].cas
    BY DEF TypeInv, TypeOK, LoopInv, CopyInv, Versions
  <2>. QED  BY <1>1, <2>1 DEF OfShard, CasMatches
<1>2. CASE pc[q] = "edit"
  BY <1>1, <1>2 DEF EditedCopy
<1>3. CASE pc[q] = "set" /\ op[q] = "store"
  <2>1. PICK base \in CacheShard, t \in 0 .. now :
          buf[q] = Edited(q, base, t) /\ OfShard(q, base)
    BY <1>3 DEF EditedCopy
  <2>2. t \in 0 .. now' /\ now \in Nat
    BY DEF TypeInv, TypeOK
  <2>3. buf'[q] = Edited(q, base, t)'
    BY <2>1 DEF Edited
  <2>4. OfShard(q, base)'
    BY <1>1, <2>1
  <2>. QED  BY <1>3, <2>2, <2>3, <2>4 DEF EditedCopy
<1>4. CASE pc[q] # "edit" /\ ~(pc[q] = "set" /\ op[q] = "store")
  BY <1>4 DEF EditedCopy
<1>. QED  BY <1>2, <1>3, <1>4

LEMMA EditInvStep == TypeInv /\ LoopInv /\ EditInv /\ [Next]_vars => EditInv'
<1>. SUFFICES ASSUME TypeInv, LoopInv, EditInv, [Next]_vars,
                     NEW q \in Streams
              PROVE  EditedCopy(q)'
  BY DEF EditInv
<1>. USE DEF TypeInv, TypeOK, PCs, Ops, locals, reads, history
<1>0. EditedCopy(q) /\ now \in Nat
  BY DEF EditInv
<1>1. CASE Tick
  BY <1>0, <1>1, OthersKeepEdit DEF Tick
<1>2. ASSUME NEW r \in Streams, NEW k \in Keys, LookupBegin(r, k)
      PROVE  EditedCopy(q)'
  <2>1. CASE q = r
    BY <1>2, <2>1 DEF LookupBegin, EditedCopy
  <2>. QED  BY <1>0, <1>2, <2>1, OthersKeepEdit DEF LookupBegin
<1>3. ASSUME NEW r \in Streams, NEW f, NEW k, NEW s, NEW e, Enter(r, f, k, s, e)
      PROVE  EditedCopy(q)'
  <2>1. CASE q = r
    BY <1>3, <2>1 DEF Enter, EditedCopy
  <2>. QED  BY <1>0, <1>3, <2>1, OthersKeepEdit DEF Enter
<1>4. ASSUME NEW r \in Streams, LookupHit(r) \/ LookupMiss(r)
      PROVE  EditedCopy(q)'
  <2>1. CASE q = r
    BY <1>4, <2>1 DEF LookupHit, LookupMiss, EditedCopy
  <2>2. CASE q # r
    <3>1. /\ pc' = [pc EXCEPT ![r] = "done"] \/ pc' = [pc EXCEPT ![r] = "missed"]
          /\ UNCHANGED <<now, shared, locals>>
      BY <1>4 DEF LookupHit, LookupMiss
    <3>. QED  BY <1>0, <2>2, <3>1, OthersKeepEdit
  <2>. QED  BY <2>1, <2>2
<1>5. ASSUME NEW r \in Streams, NEW edited, NEW next, Fetch(r, edited, next),
             q # r
      PROVE  EditedCopy(q)'
  BY <1>0, <1>5, OthersKeepEdit DEF Fetch, Version
<1>6. ASSUME StoreGet(q)
      PROVE  EditedCopy(q)'
  BY <1>6 DEF StoreGet, Fetch, Version, EditedCopy, OfShard
<1>7. ASSUME PurgeKeyGet(q) \/ PurgeAllGet(q)
      PROVE  EditedCopy(q)'
  BY <1>7 DEF PurgeKeyGet, PurgeAllGet, Fetch, EditedCopy
<1>8. ASSUME NEW r \in Streams, StoreEdit(r)
      PROVE  EditedCopy(q)'
  <2>1. CASE q = r
    <3>1. pc[q] = "edit" /\ pc'[q] = "set" /\ now' = now /\ buf[q] \in CacheShard
          /\ UNCHANGED <<shared, op, key, entry, shard_id, cas>>
      BY <1>8, <2>1 DEF StoreEdit
    <3>2. buf'[q] = Edited(q, buf[q], now)
      BY <1>8, <2>1 DEF StoreEdit, Edited
    <3>3. OfShard(q, buf[q])
      BY <1>0, <3>1 DEF EditedCopy
    <3>4. PICK base \in CacheShard, t \in 0 .. now : base = buf[q] /\ t = now
      BY <1>0, <3>1
    <3>5. buf'[q] = Edited(q, base, t)'
      BY <3>1, <3>2, <3>4 DEF Edited
    <3>6. OfShard(q, base)'
      BY <3>1, <3>3, <3>4 DEF OfShard, CasMatches
    <3>7. t \in 0 .. now'
      BY <3>1
    <3>. QED  BY <3>1, <3>5, <3>6, <3>7 DEF EditedCopy
  <2>. QED  BY <1>0, <1>8, <2>1, OthersKeepEdit DEF StoreEdit
<1>9. ASSUME NEW r \in Streams, LeaveLoop(r), q = r
      PROVE  EditedCopy(q)'
  BY <1>9 DEF LeaveLoop, EditedCopy
<1>10. ASSUME NEW r \in Streams, SetAccepted(r), q # r
       PROVE  EditedCopy(q)'
  BY <1>0, <1>10, OthersKeepEdit DEF SetAccepted, LeaveLoop
<1>11. ASSUME NEW r \in Streams, GiveUp(r), q # r
       PROVE  EditedCopy(q)'
  BY <1>0, <1>11, OthersKeepEdit DEF GiveUp, LeaveLoop
<1>12. ASSUME NEW r \in Streams, SetRefused(r)
       PROVE  EditedCopy(q)'
  <2>1. CASE q = r
    BY <1>12, <2>1 DEF SetRefused, RetryFrom, EditedCopy
  <2>. QED  BY <1>0, <1>12, <2>1, OthersKeepEdit DEF SetRefused, RetryFrom
<1>13. CASE UNCHANGED vars
  BY <1>0, <1>13, OthersKeepEdit DEF vars
<1>14. ASSUME NEW r \in Streams, StoreGet(r) \/ PurgeKeyGet(r) \/ PurgeAllGet(r)
       PROVE  EditedCopy(q)'
  BY <1>5, <1>6, <1>7, <1>14 DEF StoreGet, PurgeKeyGet, PurgeAllGet
<1>15. ASSUME NEW r \in Streams, SetAccepted(r) \/ GiveUp(r)
       PROVE  EditedCopy(q)'
  BY <1>9, <1>10, <1>11, <1>15 DEF SetAccepted, GiveUp
<1>16. ASSUME NEW r \in Streams,
              \/ \E d \in Decisions : StoreBegin(r, d)
              \/ \E k \in Keys : PurgeKeyBegin(r, k)
              \/ \E s \in ShardIds : PurgeForeignBegin(r, s)
              \/ PurgeAllBegin(r)
       PROVE  EditedCopy(q)'
  BY <1>3, <1>16 DEF StoreBegin, PurgeKeyBegin, PurgeForeignBegin, PurgeAllBegin
<1>. QED
  BY <1>1, <1>2, <1>4, <1>8, <1>12, <1>13, <1>14, <1>15, <1>16 DEF Next, Advance

\* The only step that writes a shard, or changes what it is limited to.
LEMMA OnlySetWrites ==
  ASSUME [Next]_vars, \A r \in Streams : ~SetAccepted(r)
  PROVE  shared' = shared /\ limit' = limit
  BY DEF Next, Advance, vars, Tick, LookupBegin, StoreBegin, PurgeKeyBegin,
         PurgeForeignBegin, PurgeAllBegin, Enter, LookupHit, LookupMiss, StoreGet,
         PurgeKeyGet, PurgeAllGet, Fetch, Version, StoreEdit, SetRefused, GiveUp, history

LEMMA StoredFinite ==
  ASSUME NEW shard
  PROVE  IsFiniteSet(Stored(shard)) /\ Cardinality(Stored(shard)) \in Nat
<1>1. Stored(shard) \in SUBSET Keys
  BY DEF Stored
<1>. QED  BY <1>1, KeysAssumption, FS_Subset, FS_CardinalityType

LEMMA EditedType ==
  ASSUME TypeInv, NEW r \in Streams, NEW base \in CacheShard, NEW t
  PROVE  /\ [evict_expired(base, t) EXCEPT ![key[r]] = entry[r]] \in CacheShard
         /\ shard_quota(MaxEntries[r]) \in Nat
<1>1. MaxEntries[r] \in Nat
  BY MaxEntriesAssumption
<1>. QED
  BY <1>1, QuotaType, EvictExpiredKeeps DEF CacheShard, TypeInv, TypeOK

LEMMA QuotaInit == Init => QuotaRespected
<1>1. Stored(EmptyShard) = {}
  BY DEF Stored, EmptyShard
<1>2. Cardinality(Stored(EmptyShard)) = 0
  BY <1>1, FS_EmptySet
<1>. QED  BY <1>2, NumShardsAssumption DEF Init, QuotaRespected

\* Fewer entries fit where more do.
LEMMA FewerFit ==
  ASSUME NEW m \in Nat, NEW n \in Nat, m <= n
  PROVE  m * NumShards <= n * NumShards
<1>1. n - m \in Nat /\ NumShards \in Nat
  BY NumShardsAssumption
<1>2. (n - m) * NumShards >= 0
  BY <1>1
<1>. QED  BY <1>1, <1>2

LEMMA QuotaStep ==
  TypeInv /\ LoopInv /\ EditInv /\ QuotaRespected /\ [Next]_vars => QuotaRespected'
<1>. SUFFICES ASSUME TypeInv, LoopInv, EditInv, QuotaRespected, [Next]_vars,
                     NEW s \in ShardIds
              PROVE  Cardinality(Stored(shared'[s].entries)) * NumShards
                       < limit'[s] + NumShards
  BY DEF QuotaRespected, Stored
<1>1. CASE \A r \in Streams : ~SetAccepted(r)
  BY <1>1, OnlySetWrites DEF QuotaRespected
<1>2. ASSUME NEW r \in Streams, SetAccepted(r)
      PROVE  Cardinality(Stored(shared'[s].entries)) * NumShards < limit'[s] + NumShards
  <2>1. /\ pc[r] = "set" /\ CasMatches(r)
        /\ shared' = [shared EXCEPT ![shard_id[r]] =
                        [cas |-> @.cas + 1, entries |-> buf[r]]]
        /\ limit' = [limit EXCEPT ![shard_id[r]] =
                       IF op[r] = "store" THEN MaxEntries[r] ELSE @]
    BY <1>2 DEF SetAccepted
  <2>2. CASE s # shard_id[r]
    BY <2>1, <2>2 DEF QuotaRespected, TypeInv, TypeOK
  <2>3. CASE s = shard_id[r] /\ op[r] = "store"
    <3>1. PICK base \in CacheShard, t \in 0 .. now : buf[r] = Edited(r, base, t)
      BY <2>1, <2>3 DEF EditInv, EditedCopy
    <3>2. Cardinality(Stored(buf[r])) <= shard_quota(MaxEntries[r])
      BY <3>1, EditedType, EnforceQuotaBound DEF Edited
    <3>3. MaxEntries[r] \in Nat \ {0} /\ shard_quota(MaxEntries[r]) \in Nat
      BY MaxEntriesAssumption, QuotaType
    <3>4. Cardinality(Stored(buf[r])) * NumShards <= shard_quota(MaxEntries[r]) * NumShards
      BY <3>2, <3>3, FewerFit, StoredFinite
    <3>5. Cardinality(Stored(buf[r])) * NumShards < MaxEntries[r] + NumShards
      <4>. DEFINE held  == Cardinality(Stored(buf[r])) * NumShards
                  share == shard_quota(MaxEntries[r]) * NumShards
      <4>1. held \in Nat /\ share \in Nat /\ MaxEntries[r] + NumShards \in Nat
        BY <3>3, StoredFinite, NumShardsAssumption
      <4>2. held <= share /\ share < MaxEntries[r] + NumShards
        BY <3>3, <3>4, QuotaIsShare
      <4>. HIDE DEF held, share
      <4>3. held < MaxEntries[r] + NumShards
        BY <4>1, <4>2
      <4>. QED  BY <4>3 DEF held
    <3>6. shared'[s].entries = buf[r] /\ limit'[s] = MaxEntries[r]
      BY <2>1, <2>3 DEF TypeInv, TypeOK
    <3>. QED  BY <3>5, <3>6
  <2>4. CASE s = shard_id[r] /\ op[r] # "store"
    <3>1. shared'[s].entries = buf[r] /\ limit'[s] = limit[s]
      BY <2>1, <2>4 DEF TypeInv, TypeOK
    <3>2. Stored(buf[r]) \in SUBSET Stored(shared[s].entries)
      BY <2>1, <2>4 DEF LoopInv, CopyInv, Copies, IsOwn, Stored
    <3>3. Cardinality(Stored(buf[r])) <= Cardinality(Stored(shared[s].entries))
      BY <3>2, StoredFinite, FS_Subset
    <3>4. Cardinality(Stored(buf[r])) * NumShards
            <= Cardinality(Stored(shared[s].entries)) * NumShards
      BY <3>3, FewerFit, StoredFinite
    <3>5. Cardinality(Stored(shared[s].entries)) * NumShards < limit[s] + NumShards
      BY DEF QuotaRespected
    <3>. DEFINE n1 == Cardinality(Stored(buf[r])) * NumShards
                n2 == Cardinality(Stored(shared[s].entries)) * NumShards
    <3>6. n1 \in Nat /\ n2 \in Nat /\ limit[s] + NumShards \in Nat
      BY StoredFinite, NumShardsAssumption DEF TypeInv, TypeOK
    <3>. HIDE DEF n1, n2
    <3>7. n1 <= n2 /\ n2 < limit[s] + NumShards
      BY <3>4, <3>5 DEF n1, n2
    <3>8. n1 < limit[s] + NumShards
      BY <3>6, <3>7
    <3>. QED  BY <3>1, <3>8 DEF n1
  <2>. QED  BY <2>2, <2>3, <2>4
<1>. QED  BY <1>1, <1>2

LEMMA LoopInvStep == TypeInv /\ LoopInv /\ [Next]_vars => LoopInv'
  BY ControlInvStep, CopyInvStep DEF LoopInv

\* No interleaving of stores and purges makes a shard exceed the share of
\* cache.max_entries of the last stream that stored there, whatever the settings of
\* the other streams are (cache.rs:182, 198; lib.rs:467-500).
THEOREM QuotaSafe == Spec => []QuotaRespected
  BY TypeInvInit, TypeInvStep, LoopInvInit, LoopInvStep, EditInvInit, EditInvStep,
     QuotaInit, QuotaStep, PTL DEF Spec
-----------------------------------------------------------------------------
(* What a store costs the others.                                            *)

LEMMA StoreDropsStep ==
  ASSUME TypeInv, LoopInv, EditInv, NEW r \in Streams,
         op[r] = "store", cas[r] # 0, SetAccepted(r)
  PROVE  StoreDrops(r)
<1>. DEFINE quota   == shard_quota(MaxEntries[r])
            held    == shared[shard_id[r]].entries
            offered == [held EXCEPT ![key[r]] = entry[r]]
            after   == shared'[shard_id[r]].entries
<1>1. /\ pc[r] = "set" /\ CasMatches(r) /\ after = buf[r]
      /\ held \in CacheShard /\ key[r] \in Keys /\ entry[r] \in CacheEntry
  BY DEF SetAccepted, TypeInv, TypeOK, LoopInv, ControlInv
<1>2. PICK t \in 0 .. now : after = Edited(r, held, t)
  BY <1>1 DEF EditInv, EditedCopy, OfShard
<1>. DEFINE inserted == [evict_expired(held, t) EXCEPT ![key[r]] = entry[r]]
<1>3. /\ inserted \in CacheShard /\ quota \in Nat
      /\ after = enforce_quota(inserted, quota)
  BY <1>1, <1>2, EditedType DEF Edited
<1>4. SUFFICES ASSUME NEW k \in Stored(offered) \ Stored(after)
               PROVE  \/ k # key[r] /\ offered[k].expires_at_ms <= now
                      \/ Outlived(after, k, offered[k], MaxEntries[r])
  BY DEF StoreDrops
<1>5. CASE k \in Stored(inserted)
  <2>1. /\ Cardinality(Stored(after)) = quota
        /\ \A j \in Stored(after) : EvictedBefore(inserted, k, j)
    BY <1>3, <1>5, EnforceQuotaDrops
  <2>2. inserted[k] = offered[k]
    BY <1>1, <1>5 DEF Stored, evict_expired, CacheShard
  <2>3. after \in CacheShard /\ SubShard(after, inserted)
    BY <1>3, EnforceQuotaKeeps
  <2>4. ASSUME NEW j \in Stored(after)
        PROVE  EvictedBefore([after EXCEPT ![k] = offered[k]], k, j)
    <3>1. j # k /\ after[j] = inserted[j] /\ j \in Keys /\ k \in Keys
      BY <2>3 DEF SubShard, Stored
    <3>2. EvictedBefore(inserted, k, j)
      BY <2>1
    <3>. HIDE DEF after, inserted, offered
    <3>. QED  BY <2>2, <2>3, <3>1, <3>2 DEF EvictedBefore, CacheShard
  <2>5. Cardinality(Stored(after)) * NumShards >= MaxEntries[r]
    <3>1. quota * NumShards >= MaxEntries[r]
      BY QuotaIsShare, MaxEntriesAssumption
    <3>. QED  BY <2>1, <3>1
  <2>. QED  BY <2>1, <2>4, <2>5 DEF Outlived
<1>6. CASE k \notin Stored(inserted)
  <2>1. k # key[r] /\ held[k] # Absent /\ offered[k] = held[k]
    BY <1>1, <1>6, AbsentAssumption DEF Stored, CacheShard, evict_expired
  <2>2. ~(held[k].expires_at_ms > t)
    BY <1>1, <1>6, <2>1 DEF Stored, CacheShard, evict_expired
  <2>3. held[k].expires_at_ms \in Nat /\ now \in Nat
    BY <1>1, <2>1, StoredEntry DEF Stored, TypeInv, TypeOK
  <2>. QED  BY <2>1, <2>2, <2>3
<1>. QED  BY <1>5, <1>6

\* An accepted store drops of the shard, as it is at that moment, only what has
\* expired and what its full part of max_entries outlives, however old the copy it was made of is
\* (lib.rs:469-500, cache.rs:192-215).
THEOREM StoreKeeps == Spec => StoreKeepsOthers
<1>1. TypeInv /\ LoopInv /\ EditInv /\ [Next]_vars
        => [\A r \in Streams :
              (op[r] = "store" /\ cas[r] # 0 /\ SetAccepted(r)) => StoreDrops(r)]_vars
  BY StoreDropsStep
<1>. QED
  BY <1>1, TypeInvInit, TypeInvStep, LoopInvInit, LoopInvStep, EditInvInit, EditInvStep,
     PTL DEF Spec, StoreKeepsOthers
-----------------------------------------------------------------------------
(* Refinement: every step of the loops is a step of DecisionCache, or none. *)

LEMMA SameShards == ASSUME shared' = shared PROVE Cached' = Cached
  BY DEF Cached, Stored

\* A step that writes no shard, ends no store and answers no lookup.
LEMMA StutterStep ==
  ASSUME shared' = shared, Spent' = Spent, hit' = hit
  PROVE  [D!Next]_(D!vars)
  BY SameShards DEF D!vars

LEMMA RefinesInit == Init => D!Init
<1>. SUFFICES ASSUME Init PROVE D!Init
  OBVIOUS
<1>1. Cached = {}
  BY DEF Init, Cached, Stored, EmptyShard
<1>2. Spent = {}
  BY DEF Init, Spent
<1>. QED  BY <1>1, <1>2 DEF Init, D!Init

LEMMA RefinesStep == TypeInv /\ LoopInv /\ [Next]_vars => [D!Next]_(D!vars)
<1>. SUFFICES ASSUME TypeInv, LoopInv, [Next]_vars PROVE [D!Next]_(D!vars)
  OBVIOUS
<1>. USE DEF TypeInv, TypeOK, LoopInv, ControlInv, PCs, Ops, locals, reads, history
<1>1. CASE Tick
  BY <1>1, StutterStep DEF Tick, Spent
<1>2. ASSUME NEW r \in Streams, NEW k \in Keys, LookupBegin(r, k)
      PROVE  [D!Next]_(D!vars)
  <2>1. Spent' = Spent
    BY <1>2 DEF LookupBegin, Spent
  <2>. QED  BY <1>2, <2>1, StutterStep DEF LookupBegin
<1>3. ASSUME NEW r \in Streams, NEW d \in Decisions, StoreBegin(r, d)
      PROVE  [D!Next]_(D!vars)
  <2>1. Spent' = Spent
    BY <1>3 DEF StoreBegin, Enter, Spent
  <2>. QED  BY <1>3, <2>1, StutterStep DEF StoreBegin, Enter
<1>4. ASSUME NEW r \in Streams, NEW k \in Keys, PurgeKeyBegin(r, k)
      PROVE  [D!Next]_(D!vars)
  <2>1. Spent' = Spent
    BY <1>4 DEF PurgeKeyBegin, Enter, Spent
  <2>. QED  BY <1>4, <2>1, StutterStep DEF PurgeKeyBegin, Enter
<1>4a. ASSUME NEW r \in Streams, NEW s \in ShardIds, PurgeForeignBegin(r, s)
      PROVE  [D!Next]_(D!vars)
  <2>1. Spent' = Spent
    BY <1>4a DEF PurgeForeignBegin, Enter, Spent
  <2>. QED  BY <1>4a, <2>1, StutterStep DEF PurgeForeignBegin, Enter
<1>5. ASSUME NEW r \in Streams, PurgeAllBegin(r)
      PROVE  [D!Next]_(D!vars)
  <2>1. Spent' = Spent
    BY <1>5 DEF PurgeAllBegin, Enter, Spent
  <2>. QED  BY <1>5, <2>1, StutterStep DEF PurgeAllBegin, Enter
<1>6. ASSUME NEW r \in Streams, LookupHit(r)
      PROVE  [D!Next]_(D!vars)
  <2>. DEFINE s     == shard_id_from_key(key[r])
              found == shared[s].entries[key[r]]
  <2>1. s \in ShardIds /\ key[r] \in Stored(shared[s].entries)
    BY <1>6, ShardIdType DEF LookupHit, LookedUpKey, Stored
  <2>2. <<key[r], found>> \in Cached
    BY <2>1 DEF Cached
  <2>3. found \in {Absent} \cup {ke[2] : ke \in Cached}
    BY <2>2
  <2>4. hit' = [hit EXCEPT ![r] = found] /\ shared' = shared /\ Spent' = Spent
    BY <1>6 DEF LookupHit, Spent
  <2>5. D!Answer(r)
    BY <2>3, <2>4, SameShards DEF D!Answer
  <2>. QED  BY <2>5 DEF D!Next
<1>7. ASSUME NEW r \in Streams, LookupMiss(r)
      PROVE  [D!Next]_(D!vars)
  <2>1. Spent' = Spent
    BY <1>7 DEF LookupMiss, Spent
  <2>. QED  BY <1>7, <2>1, StutterStep DEF LookupMiss
<1>8. ASSUME NEW r \in Streams, StoreGet(r) \/ PurgeKeyGet(r) \/ PurgeAllGet(r)
      PROVE  [D!Next]_(D!vars)
  <2>1. shared' = shared /\ hit' = hit /\ Spent' = Spent
    BY <1>8 DEF StoreGet, PurgeKeyGet, PurgeAllGet, Fetch, Version, Spent
  <2>. QED  BY <2>1, StutterStep
<1>9. ASSUME NEW r \in Streams, StoreEdit(r)
      PROVE  [D!Next]_(D!vars)
  <2>1. shared' = shared /\ hit' = hit /\ Spent' = Spent
    BY <1>9 DEF StoreEdit, Spent
  <2>. QED  BY <2>1, StutterStep
<1>10. ASSUME NEW r \in Streams, SetAccepted(r)
       PROVE  [D!Next]_(D!vars)
  <2>1. /\ pc[r] = "set" /\ CasMatches(r)
        /\ shared' = [shared EXCEPT ![shard_id[r]] =
                        [cas |-> @.cas + 1, entries |-> buf[r]]]
        /\ UNCHANGED <<op, key, entry, hit>>
    BY <1>10 DEF SetAccepted, LeaveLoop
  <2>2. ASSUME NEW ke \in Cached' \ Cached
        PROVE  op[r] = "store" /\ ke = <<key[r], entry[r]>>
    <3>1. PICK s \in ShardIds, k \in Keys :
            k \in Stored(shared'[s].entries) /\ ke = <<k, shared'[s].entries[k]>>
      BY <2>2 DEF Cached, Stored
    <3>2. ~(k \in Stored(shared[s].entries) /\ shared'[s].entries[k] = shared[s].entries[k])
      BY <2>2, <3>1 DEF Cached
    <3>3. s = shard_id[r] /\ shared'[s].entries = buf[r]
      BY <2>1, <3>1, <3>2
    <3>4. IsOwn(r, k)
      BY <2>1, <3>1, <3>2, <3>3 DEF CopyInv, Copies, Stored
    <3>. QED  BY <3>1, <3>3, <3>4 DEF IsOwn
  <2>3. CASE op[r] = "store"
    <3>1. r \notin Spent
      BY <2>1 DEF Spent
    <3>2. Spent' = Spent \cup {r}
      BY <1>10, <2>3 DEF SetAccepted, LeaveLoop, MoreShards, Spent
    <3>3. <<key[r], entry[r]>> \in Keys \X CacheEntry /\ entry[r].by = r
      BY <2>3
    <3>4. ASSUME NEW new \in Cached' \ Cached, NEW other \in Cached' \ Cached
          PROVE  new \in Keys \X CacheEntry /\ new[2].by = r /\ new = other
      <4>1. new = <<key[r], entry[r]>> /\ other = <<key[r], entry[r]>>
        BY <2>2
      <4>2. new \in Keys \X CacheEntry /\ new = other
        BY <4>1, <3>3, Zenon
      <4>3. new[2] = entry[r]
        BY <4>1
      <4>. QED  BY <4>2, <4>3, <3>3, Zenon
    <3>5. hit' = hit
      BY <2>1
    <3>6. D!Fill(r)
      BY <3>1, <3>2, <3>4, <3>5, Zenon DEF D!Fill
    <3>. QED  BY <3>6, Zenon DEF D!Next
  <2>4. CASE op[r] # "store"
    <3>1. Spent' = Spent
      BY <1>10, <2>4 DEF SetAccepted, LeaveLoop, Spent
    <3>2. D!Forget
      BY <2>1, <2>2, <2>4, <3>1 DEF D!Forget
    <3>. QED  BY <3>2 DEF D!Next
  <2>. QED  BY <2>3, <2>4
<1>11. ASSUME NEW r \in Streams, SetRefused(r)
       PROVE  [D!Next]_(D!vars)
  <2>1. shared' = shared /\ hit' = hit /\ Spent' = Spent
    BY <1>11 DEF SetRefused, RetryFrom, Spent
  <2>. QED  BY <2>1, StutterStep
<1>12. ASSUME NEW r \in Streams, GiveUp(r)
       PROVE  [D!Next]_(D!vars)
  <2>1. shared' = shared /\ hit' = hit /\ pc[r] = "set" /\ UNCHANGED op
    BY <1>12 DEF GiveUp, LeaveLoop
  <2>2. CASE op[r] = "store"
    <3>1. r \notin Spent /\ Spent' = Spent \cup {r}
      BY <1>12, <2>1, <2>2 DEF GiveUp, LeaveLoop, MoreShards, Spent
    <3>2. D!Fill(r)
      BY <2>1, <3>1, SameShards DEF D!Fill
    <3>. QED  BY <3>2 DEF D!Next
  <2>3. CASE op[r] # "store"
    <3>1. Spent' = Spent
      BY <1>12, <2>3 DEF GiveUp, LeaveLoop, Spent
    <3>. QED  BY <2>1, <3>1, StutterStep
  <2>. QED  BY <2>2, <2>3
<1>13. CASE UNCHANGED vars
  <2>1. shared' = shared /\ hit' = hit /\ Spent' = Spent
    BY <1>13 DEF vars, Spent
  <2>. QED  BY <2>1, StutterStep
<1>. QED
  BY <1>1, <1>2, <1>3, <1>4, <1>4a, <1>5, <1>6, <1>7, <1>8, <1>9, <1>10, <1>11, <1>12,
     <1>13 DEF Next, Advance

\* The cache with its versions and retries implements the cache that only
\* forgets: no interleaving brings back an entry once it is lost, and a lookup
\* answers with what is cached at that moment (lib.rs:437-506, 593-634).
THEOREM ImplementsDecisionCache == Spec => ActsAsDecisionCache
  BY TypeInvInit, TypeInvStep, LoopInvInit, LoopInvStep, RefinesInit, RefinesStep, PTL
  DEF Spec, ActsAsDecisionCache, D!Spec

\* Of the abstract cache: no step brings back the entry of a stream that has had
\* one.  Only Fill adds, and it adds the entry of a stream that had not stored yet.
LEMMA StepKeepsGone ==
  ASSUME [D!Next]_(D!vars)
  PROVE  \A r \in Streams : D!Gone(r) => D!Gone(r)'
<1>. SUFFICES ASSUME NEW r \in Streams, D!Gone(r) PROVE D!Gone(r)'
  OBVIOUS
<1>1. CASE D!Forget
  BY <1>1 DEF D!Forget, D!Gone
<1>2. ASSUME NEW q \in Streams, D!Fill(q) PROVE D!Gone(r)'
  <2>1. q # r
    BY <1>2 DEF D!Fill, D!Gone
  <2>2. \A ke \in Cached' \ Cached : ke[2].by = q
    BY <1>2 DEF D!Fill
  <2>3. r \in Spent'
    BY <1>2 DEF D!Fill, D!Gone
  <2>. QED  BY <2>1, <2>2, <2>3 DEF D!Gone
<1>3. ASSUME NEW q \in Streams, D!Answer(q) PROVE D!Gone(r)'
  BY <1>3 DEF D!Answer, D!Gone
<1>4. CASE UNCHANGED D!vars
  BY <1>4 DEF D!vars, D!Gone
<1>. QED  BY <1>1, <1>2, <1>3, <1>4 DEF D!Next

\* In every interleaving of the loops, once a stream's entry has expired, been
\* evicted, overwritten or purged it stays away, though other streams go on writing
\* copies they read earlier (lib.rs:469-505): the abstract cache promises it, and
\* the loops implement that cache.
THEOREM LostStaysLost == Spec => D!NoReturn
<1>1. [D!Next]_(D!vars) => [\A r \in Streams : D!Gone(r) => D!Gone(r)']_(D!vars)
  BY StepKeepsGone
<1>2. D!Spec => D!NoReturn
  BY <1>1, PTL DEF D!Spec, D!NoReturn
<1>. QED  BY <1>2, ImplementsDecisionCache DEF ActsAsDecisionCache
-----------------------------------------------------------------------------
(* Purges.  A purge is final because the entries it found belong to streams *)
(* that have stored and never will again, and because, shard by shard, what *)
(* it has written is free of them.                                          *)

\* An entry is where its key belongs, and its stream has stored it there.
EntryInv ==
  \A s \in ShardIds : \A k \in Stored(shared[s].entries) :
     LET q == shared[s].entries[k].by
     IN  /\ s = shard_id_from_key(k)
         /\ op[q] = "store" /\ pc[q] = "done" /\ key[q] = k

\* What a purge found when it was called are finished stores, of its own key if
\* it purges one; and the copy a purge writes is free of what it purges.
DoomedInv ==
  \A r \in Streams :
     /\ \A q \in doomed[r] : /\ op[q] = "store" /\ pc[q] = "done"
                             /\ op[r] \in {"purge_key", "purge_all"}
                             /\ op[r] = "purge_key" => key[q] = key[r]
     /\ pc[r] = "set" /\ op[r] = "purge_all" => buf[r] = EmptyShard
     /\ pc[r] = "set" /\ op[r] = "purge_key" => key[r] \notin Stored(buf[r])

IsPurge(r) == op[r] \in {"purge_key", "purge_all"}

\* The shards a purge is through with.
Behind(r, s) == pc[r] = "done" \/ (op[r] = "purge_all" /\ s < shard_id[r])

\* The shards behind a purge that never gave up hold nothing of what it found.
LandedInv ==
  \A r \in Streams, s \in ShardIds :
     IsPurge(r) /\ ~gave_up[r] /\ Behind(r, s)
        => Authors(shared[s].entries) \cap doomed[r] = {}

PurgeInv == EntryInv /\ DoomedInv /\ LandedInv

\* The streams whose entries an accepted write leaves in a shard had them there,
\* or are the writer itself.
LEMMA AuthorsStep ==
  ASSUME TypeInv, LoopInv, NEW r \in Streams, SetAccepted(r), NEW s \in ShardIds,
         NEW k \in Stored(shared'[s].entries)
  PROVE  \/ /\ k \in Stored(shared[s].entries)
            /\ shared'[s].entries[k] = shared[s].entries[k]
         \/ /\ s = shard_id[r] /\ op[r] = "store" /\ k = key[r]
            /\ shared'[s].entries[k] = entry[r]
<1>1. /\ pc[r] = "set" /\ CasMatches(r)
      /\ shared' = [shared EXCEPT ![shard_id[r]] =
                      [cas |-> @.cas + 1, entries |-> buf[r]]]
  BY DEF SetAccepted
<1>2. CASE s # shard_id[r]
  BY <1>1, <1>2 DEF TypeInv, TypeOK
<1>3. CASE s = shard_id[r]
  <2>1. shared'[s].entries = buf[r] /\ k \in Stored(buf[r])
    BY <1>1, <1>3 DEF TypeInv, TypeOK
  <2>2. \/ IsOwn(r, k)
        \/ buf[r][k] = shared[s].entries[k]
    BY <1>1, <1>3, <2>1 DEF LoopInv, CopyInv, Copies
  <2>. QED  BY <1>3, <2>1, <2>2 DEF IsOwn, Stored
<1>. QED  BY <1>2, <1>3

LEMMA PurgeInvInit == Init => PurgeInv
  BY DEF Init, PurgeInv, EntryInv, DoomedInv, LandedInv, EmptyShard, Stored, IsPurge

\* A finished store stays what it is.
LEMMA FinishedStep ==
  ASSUME TypeInv, ControlInv, [Next]_vars,
         NEW q \in Streams, op[q] = "store", pc[q] = "done"
  PROVE  op'[q] = "store" /\ pc'[q] = "done" /\ key'[q] = key[q]
<1>. USE DEF TypeInv, TypeOK, ControlInv, locals, reads, history
<1>1. CASE Tick
  BY <1>1 DEF Tick
<1>2. ASSUME NEW r \in Streams, NEW k \in Keys, LookupBegin(r, k) PROVE q # r
  BY <1>2 DEF LookupBegin
<1>3. ASSUME NEW r \in Streams, NEW d \in Decisions, StoreBegin(r, d) PROVE q # r
  BY <1>3 DEF StoreBegin
<1>4. ASSUME NEW r \in Streams, NEW k \in Keys, PurgeKeyBegin(r, k)
      PROVE  q # r
  BY <1>4 DEF PurgeKeyBegin
<1>4a. ASSUME NEW r \in Streams, NEW s \in ShardIds, PurgeForeignBegin(r, s)
      PROVE  q # r
  BY <1>4a DEF PurgeForeignBegin
<1>5. ASSUME NEW r \in Streams, PurgeAllBegin(r) PROVE q # r
  BY <1>5 DEF PurgeAllBegin
<1>6. ASSUME NEW r \in Streams, Advance(r) PROVE q # r
  BY <1>6 DEF Advance, LookupHit, LookupMiss, StoreGet, PurgeKeyGet, PurgeAllGet,
              Fetch, Version, StoreEdit, SetAccepted, SetRefused, GiveUp
<1>7. ASSUME NEW r \in Streams, Advance(r)
      PROVE  op'[q] = "store" /\ pc'[q] = "done" /\ key'[q] = key[q]
  BY <1>6, <1>7 DEF Advance, LookupHit, LookupMiss, StoreGet, PurgeKeyGet, PurgeAllGet,
              Fetch, Version, StoreEdit, SetAccepted, SetRefused, RetryFrom, GiveUp, LeaveLoop
<1>8. CASE UNCHANGED vars
  BY <1>8 DEF vars
<1>. QED
  BY <1>1, <1>2, <1>3, <1>4, <1>4a, <1>5, <1>7, <1>8
  DEF Next, LookupBegin, StoreBegin, PurgeKeyBegin, PurgeForeignBegin, PurgeAllBegin, Enter

LEMMA EntryInvStep ==
  TypeInv /\ LoopInv /\ EntryInv /\ [Next]_vars => EntryInv'
<1>. SUFFICES ASSUME TypeInv, LoopInv, EntryInv, [Next]_vars,
                     NEW s \in ShardIds, NEW k \in Stored(shared'[s].entries)
              PROVE  LET q == shared'[s].entries[k].by
                     IN  /\ s = shard_id_from_key(k)
                         /\ op'[q] = "store" /\ pc'[q] = "done" /\ key'[q] = k
  BY DEF EntryInv, Stored
<1>1. ASSUME k \in Stored(shared[s].entries),
             shared'[s].entries[k] = shared[s].entries[k]
      PROVE  LET q == shared'[s].entries[k].by
             IN  /\ s = shard_id_from_key(k)
                 /\ op'[q] = "store" /\ pc'[q] = "done" /\ key'[q] = k
  <2>. DEFINE q == shared[s].entries[k].by
  <2>1. q \in Streams
    BY <1>1 DEF TypeInv, TypeOK, CacheShard, CacheEntry, Stored
  <2>2. s = shard_id_from_key(k) /\ op[q] = "store" /\ pc[q] = "done" /\ key[q] = k
    BY <1>1 DEF EntryInv
  <2>3. op'[q] = "store" /\ pc'[q] = "done" /\ key'[q] = k
    BY <2>1, <2>2, FinishedStep DEF LoopInv
  <2>. QED  BY <1>1, <2>2, <2>3
<1>2. ASSUME NEW r \in Streams, SetAccepted(r),
             s = shard_id[r], op[r] = "store", k = key[r],
             shared'[s].entries[k] = entry[r]
      PROVE  LET q == shared'[s].entries[k].by
             IN  /\ s = shard_id_from_key(k)
                 /\ op'[q] = "store" /\ pc'[q] = "done" /\ key'[q] = k
  <2>1. shared'[s].entries[k].by = r
    BY <1>2 DEF LoopInv, ControlInv
  <2>2. s = shard_id_from_key(k)
    BY <1>2, ForeignKeyAssumption DEF LoopInv, ControlInv
  <2>3. op'[r] = "store" /\ pc'[r] = "done" /\ key'[r] = k
    BY <1>2 DEF SetAccepted, LeaveLoop, MoreShards, TypeInv, TypeOK
  <2>. QED  BY <2>1, <2>2, <2>3
<1>3. CASE \E r \in Streams : SetAccepted(r)
  BY <1>1, <1>2, <1>3, AuthorsStep
<1>4. CASE \A r \in Streams : ~SetAccepted(r)
  BY <1>1, <1>4, OnlySetWrites DEF Stored
<1>. QED  BY <1>3, <1>4

LEMMA DoomedInvStep ==
  TypeInv /\ LoopInv /\ EntryInv /\ DoomedInv /\ [Next]_vars => DoomedInv'
<1>. SUFFICES ASSUME TypeInv, LoopInv, EntryInv, DoomedInv, [Next]_vars
              PROVE  DoomedInv'
  OBVIOUS
<1>. USE DEF TypeInv, TypeOK, LoopInv, ControlInv, DoomedInv, PCs, Ops,
             locals, reads, history
<1>1. CASE Tick
  BY <1>1 DEF Tick
<1>2. ASSUME NEW r \in Streams, NEW k \in Keys, LookupBegin(r, k)
      PROVE  DoomedInv'
  BY <1>2 DEF LookupBegin
<1>3. ASSUME NEW r \in Streams, NEW d \in Decisions, StoreBegin(r, d)
      PROVE  DoomedInv'
  BY <1>3 DEF StoreBegin, Enter
<1>4. ASSUME NEW r \in Streams, NEW k \in Keys, PurgeKeyBegin(r, k)
      PROVE  DoomedInv'
  <2>1. ASSUME NEW q \in doomed'[r]
        PROVE  op[q] = "store" /\ pc[q] = "done" /\ key[q] = k
    <3>. DEFINE s == shard_id_from_key(k)
    <3>1. k \in Stored(shared[s].entries) /\ shared[s].entries[k].by = q
      BY <1>4, <2>1 DEF PurgeKeyBegin
    <3>. QED  BY <3>1, ShardIdType DEF EntryInv
  <2>. QED  BY <1>4, <2>1 DEF PurgeKeyBegin, Enter
<1>4a. ASSUME NEW r \in Streams, NEW s \in ShardIds, PurgeForeignBegin(r, s)
      PROVE  DoomedInv'
  BY <1>4a DEF PurgeForeignBegin, Enter
<1>5. ASSUME NEW r \in Streams, PurgeAllBegin(r)
      PROVE  DoomedInv'
  <2>1. ASSUME NEW q \in doomed'[r]
        PROVE  op[q] = "store" /\ pc[q] = "done"
    <3>1. PICK s \in ShardIds : q \in Authors(shared[s].entries)
      BY <1>5, <2>1 DEF PurgeAllBegin
    <3>. QED  BY <3>1 DEF EntryInv, Authors
  <2>. QED  BY <1>5, <2>1 DEF PurgeAllBegin, Enter
<1>6. ASSUME NEW r \in Streams, LookupHit(r) \/ LookupMiss(r)
      PROVE  DoomedInv'
  BY <1>6 DEF LookupHit, LookupMiss
<1>7. ASSUME NEW r \in Streams, StoreGet(r) \/ PurgeKeyGet(r) \/ PurgeAllGet(r)
      PROVE  DoomedInv'
  BY <1>7 DEF StoreGet, PurgeKeyGet, PurgeAllGet, Fetch, Version, Stored
<1>8. ASSUME NEW r \in Streams, StoreEdit(r)
      PROVE  DoomedInv'
  BY <1>8 DEF StoreEdit
<1>9. ASSUME NEW r \in Streams, SetAccepted(r)
      PROVE  DoomedInv'
  BY <1>9 DEF SetAccepted, LeaveLoop, MoreShards
<1>10. ASSUME NEW r \in Streams, SetRefused(r)
       PROVE  DoomedInv'
  BY <1>10 DEF SetRefused, RetryFrom
<1>11. ASSUME NEW r \in Streams, GiveUp(r)
       PROVE  DoomedInv'
  BY <1>11 DEF GiveUp, LeaveLoop, MoreShards
<1>12. CASE UNCHANGED vars
  BY <1>12 DEF vars
<1>. QED
  BY <1>1, <1>2, <1>3, <1>4, <1>4a, <1>5, <1>6, <1>7, <1>8, <1>9, <1>10, <1>11, <1>12
  DEF Next, Advance

\* A step that writes no shard puts no shard behind a purge that has not given up.
LEMMA BehindStep ==
  ASSUME TypeInv, LoopInv, [Next]_vars, \A r \in Streams : ~SetAccepted(r),
         NEW q \in Streams, NEW s \in ShardIds,
         IsPurge(q)', ~gave_up'[q], Behind(q, s)'
  PROVE  IsPurge(q) /\ ~gave_up[q] /\ Behind(q, s) /\ doomed'[q] = doomed[q]
<1>. USE DEF TypeInv, TypeOK, LoopInv, ControlInv, IsPurge, Behind, ShardIds,
             locals, reads, history
<1>1. CASE Tick
  BY <1>1 DEF Tick
<1>2. ASSUME NEW r \in Streams, NEW k \in Keys, LookupBegin(r, k)
      PROVE  IsPurge(q) /\ ~gave_up[q] /\ Behind(q, s) /\ doomed'[q] = doomed[q]
  BY <1>2 DEF LookupBegin
<1>3. ASSUME NEW r \in Streams, NEW d \in Decisions, StoreBegin(r, d)
      PROVE  IsPurge(q) /\ ~gave_up[q] /\ Behind(q, s) /\ doomed'[q] = doomed[q]
  BY <1>3 DEF StoreBegin, Enter
<1>4. ASSUME NEW r \in Streams, NEW k \in Keys, PurgeKeyBegin(r, k)
      PROVE  IsPurge(q) /\ ~gave_up[q] /\ Behind(q, s) /\ doomed'[q] = doomed[q]
  BY <1>4 DEF PurgeKeyBegin, Enter
<1>4a. ASSUME NEW r \in Streams, NEW j \in ShardIds, PurgeForeignBegin(r, j)
      PROVE  IsPurge(q) /\ ~gave_up[q] /\ Behind(q, s) /\ doomed'[q] = doomed[q]
  BY <1>4a DEF PurgeForeignBegin, Enter
<1>5. ASSUME NEW r \in Streams, PurgeAllBegin(r)
      PROVE  IsPurge(q) /\ ~gave_up[q] /\ Behind(q, s) /\ doomed'[q] = doomed[q]
  BY <1>5 DEF PurgeAllBegin, Enter
<1>6. ASSUME NEW r \in Streams, LookupHit(r) \/ LookupMiss(r)
      PROVE  IsPurge(q) /\ ~gave_up[q] /\ Behind(q, s) /\ doomed'[q] = doomed[q]
  BY <1>6 DEF LookupHit, LookupMiss
<1>7. ASSUME NEW r \in Streams, StoreGet(r) \/ PurgeKeyGet(r) \/ PurgeAllGet(r)
      PROVE  IsPurge(q) /\ ~gave_up[q] /\ Behind(q, s) /\ doomed'[q] = doomed[q]
  BY <1>7 DEF StoreGet, PurgeKeyGet, PurgeAllGet, Fetch, Version
<1>8. ASSUME NEW r \in Streams, StoreEdit(r)
      PROVE  IsPurge(q) /\ ~gave_up[q] /\ Behind(q, s) /\ doomed'[q] = doomed[q]
  BY <1>8 DEF StoreEdit
<1>9. ASSUME NEW r \in Streams, SetRefused(r)
      PROVE  IsPurge(q) /\ ~gave_up[q] /\ Behind(q, s) /\ doomed'[q] = doomed[q]
  BY <1>9 DEF SetRefused, RetryFrom
<1>10. ASSUME NEW r \in Streams, GiveUp(r)
       PROVE  IsPurge(q) /\ ~gave_up[q] /\ Behind(q, s) /\ doomed'[q] = doomed[q]
  BY <1>10 DEF GiveUp, LeaveLoop
<1>11. CASE UNCHANGED vars
  BY <1>11 DEF vars
<1>. QED
  BY <1>1, <1>2, <1>3, <1>4, <1>4a, <1>5, <1>6, <1>7, <1>8, <1>9, <1>10, <1>11
  DEF Next, Advance

LEMMA LandedInvStep ==
  TypeInv /\ LoopInv /\ PurgeInv /\ EntryInv' /\ DoomedInv' /\ [Next]_vars => LandedInv'
<1>. SUFFICES ASSUME TypeInv, LoopInv, PurgeInv, EntryInv', DoomedInv', [Next]_vars,
                     NEW q \in Streams, NEW s \in ShardIds,
                     IsPurge(q)', ~gave_up'[q], Behind(q, s)',
                     NEW a \in Authors(shared'[s].entries), a \in doomed'[q]
              PROVE  FALSE
  BY DEF LandedInv, Authors, Stored
<1>1. PICK k \in Keys : k \in Stored(shared'[s].entries) /\ shared'[s].entries[k].by = a
  BY DEF Authors, Stored
<1>2. CASE \A r \in Streams : ~SetAccepted(r)
  <2>1. IsPurge(q) /\ ~gave_up[q] /\ Behind(q, s) /\ a \in doomed[q]
    BY <1>2, BehindStep
  <2>2. a \in Authors(shared[s].entries)
    BY <1>1, <1>2, OnlySetWrites DEF Authors, Stored
  <2>. QED  BY <2>1, <2>2 DEF PurgeInv, LandedInv
<1>3. ASSUME NEW r \in Streams, SetAccepted(r)
      PROVE  FALSE
  <2>1. /\ pc[r] = "set" /\ UNCHANGED <<op, key, gave_up, doomed>>
        /\ shared' = [shared EXCEPT ![shard_id[r]] =
                        [cas |-> @.cas + 1, entries |-> buf[r]]]
    BY <1>3 DEF SetAccepted, LeaveLoop
  <2>2. IsPurge(q) /\ ~gave_up[q] /\ a \in doomed[q]
    BY <2>1 DEF IsPurge
  <2>3. op[a] = "store" /\ pc[a] = "done"
    BY <2>2 DEF PurgeInv, DoomedInv
  <2>4. a \in Authors(shared[s].entries)
    BY <1>1, <1>3, <2>1, <2>3, AuthorsStep DEF Authors, LoopInv, ControlInv
  <2>5. ~Behind(q, s)
    BY <2>2, <2>4 DEF PurgeInv, LandedInv
  <2>6. q = r
    BY <1>3, <2>5 DEF Behind, SetAccepted, LeaveLoop, TypeInv, TypeOK
  <2>7. CASE op[r] = "purge_all"
    <3>1. s = shard_id[r]
      <4>1. shard_id[r] \in Nat /\ s \in Nat /\ s >= shard_id[r] /\ s <= NumShards - 1
        BY <2>5, <2>6, <2>7, NumShardsAssumption DEF Behind, TypeInv, TypeOK, ShardIds
      <4>2. CASE MoreShards(r)
        <5>1. pc'[r] = "get" /\ shard_id'[r] = shard_id[r] + 1
          BY <1>3, <4>2 DEF SetAccepted, LeaveLoop, TypeInv, TypeOK
        <5>. QED  BY <2>6, <4>1, <5>1 DEF Behind
      <4>3. CASE ~MoreShards(r)
        BY <2>7, <4>1, <4>3, NumShardsAssumption DEF MoreShards, ShardIds
      <4>. QED  BY <4>2, <4>3
    <3>2. shared'[s].entries = EmptyShard
      BY <2>1, <2>7, <3>1 DEF PurgeInv, DoomedInv, TypeInv, TypeOK
    <3>. QED  BY <1>1, <3>2 DEF Stored, EmptyShard
  <2>8. CASE op[r] = "purge_key"
    <3>1. s = shard_id_from_key(k) /\ k = key[r]
      BY <1>1, <2>1, <2>2, <2>6, <2>8 DEF EntryInv, PurgeInv, DoomedInv
    <3>2. s = shard_id[r]
      BY <2>8, <3>1, ForeignKeyAssumption DEF LoopInv, ControlInv
    <3>3. k \notin Stored(buf[r])
      BY <2>1, <2>8, <3>1 DEF PurgeInv, DoomedInv
    <3>. QED  BY <1>1, <2>1, <3>2, <3>3 DEF TypeInv, TypeOK
  <2>. QED  BY <2>2, <2>6, <2>7, <2>8 DEF IsPurge
<1>. QED  BY <1>2, <1>3

\* A purge that got its writes in is final (lib.rs:593-634): nothing it found when
\* it was called is cached when it returns, or ever again.
THEOREM PurgeFinal == Spec => []LandedPurgeIsFinal
<1>1. TypeInv /\ LoopInv /\ PurgeInv /\ [Next]_vars => PurgeInv'
  BY EntryInvStep, DoomedInvStep, LandedInvStep DEF PurgeInv
<1>2. PurgeInv => LandedPurgeIsFinal
  BY DEF PurgeInv, LandedInv, LandedPurgeIsFinal, IsPurge, Behind
<1>. QED
  BY <1>1, <1>2, TypeInvInit, TypeInvStep, LoopInvInit, LoopInvStep, PurgeInvInit, PTL
  DEF Spec
-----------------------------------------------------------------------------
(* What a step leaves alone, for the proofs about the whole filter. *)

\* A stream that has entered a writing function stays in it, with its entry.
LEMMA EnteredStays ==
  ASSUME TypeInv, ControlInv, [Next]_vars, NEW q \in Streams, op[q] # "none"
  PROVE  op'[q] = op[q] /\ entry'[q] = entry[q]
<1>. USE DEF TypeInv, TypeOK, ControlInv, locals, reads, history
<1>1. CASE Tick \/ \E r \in Streams, k \in Keys : LookupBegin(r, k)
  BY <1>1 DEF Tick, LookupBegin
<1>2. ASSUME NEW r \in Streams,
             \/ \E d \in Decisions : StoreBegin(r, d)
             \/ \E k \in Keys : PurgeKeyBegin(r, k)
             \/ \E s \in ShardIds : PurgeForeignBegin(r, s)
             \/ PurgeAllBegin(r)
      PROVE  op'[q] = op[q] /\ entry'[q] = entry[q]
  <2>1. q # r
    BY <1>2 DEF StoreBegin, PurgeKeyBegin, PurgeForeignBegin, PurgeAllBegin
  <2>. QED  BY <1>2, <2>1 DEF StoreBegin, PurgeKeyBegin, PurgeForeignBegin, PurgeAllBegin, Enter
<1>3. ASSUME NEW r \in Streams, Advance(r)
      PROVE  op' = op /\ entry' = entry
  BY <1>3 DEF Advance, LookupHit, LookupMiss, StoreGet, PurgeKeyGet, PurgeAllGet, Fetch,
     StoreEdit, SetAccepted, SetRefused, GiveUp, LeaveLoop
<1>4. CASE UNCHANGED vars
  BY <1>4 DEF vars
<1>. QED  BY <1>1, <1>2, <1>3, <1>4 DEF Next

\* Nothing but StoreBegin makes a stream a storing one.
LEMMA NoNewStore ==
  ASSUME TypeInv, NEW r \in Streams,
         \/ \E k \in Keys : LookupBegin(r, k) \/ PurgeKeyBegin(r, k)
         \/ \E s \in ShardIds : PurgeForeignBegin(r, s)
         \/ PurgeAllBegin(r) \/ Advance(r) \/ Tick,
         NEW q \in Streams, op'[q] = "store"
  PROVE  op[q] = "store"
<1>. USE DEF TypeInv, TypeOK, locals, reads, history
<1>1. CASE \E k \in Keys : LookupBegin(r, k) \/ PurgeKeyBegin(r, k)
  BY <1>1 DEF LookupBegin, PurgeKeyBegin, Enter
<1>2. CASE PurgeAllBegin(r) \/ \E s \in ShardIds : PurgeForeignBegin(r, s)
  BY <1>2 DEF PurgeForeignBegin, PurgeAllBegin, Enter
<1>3. CASE Advance(r) \/ Tick
  BY <1>3 DEF Tick, Advance, LookupHit, LookupMiss, StoreGet, PurgeKeyGet, PurgeAllGet, Fetch,
     StoreEdit, SetAccepted, SetRefused, GiveUp, LeaveLoop
<1>. QED  BY <1>1, <1>2, <1>3

\* What is cached was cached before, or is the entry of a storing stream.
LEMMA CachedStep ==
  ASSUME TypeInv, LoopInv, [Next]_vars, NEW s \in ShardIds,
         NEW k \in Stored(shared'[s].entries)
  PROVE  \/ /\ k \in Stored(shared[s].entries)
            /\ shared'[s].entries[k] = shared[s].entries[k]
         \/ \E r \in Streams : op[r] = "store" /\ shared'[s].entries[k] = entry[r]
<1>1. CASE \E r \in Streams : SetAccepted(r)
  BY <1>1, AuthorsStep
<1>2. CASE \A r \in Streams : ~SetAccepted(r)
  BY <1>2, OnlySetWrites DEF Stored
<1>. QED  BY <1>1, <1>2

\* A stream whose function has returned keeps what it looked up.
LEMMA DoneStays ==
  ASSUME TypeInv, [Next]_vars, NEW q \in Streams, pc[q] = "done"
  PROVE  /\ pc'[q] = "done" /\ key'[q] = key[q]
         /\ hit'[q] = hit[q] /\ looked_at'[q] = looked_at[q]
<1>. USE DEF TypeInv, TypeOK, locals, reads, history
<1>1. CASE Tick
  BY <1>1 DEF Tick
<1>2. ASSUME NEW r \in Streams, NEW k \in Keys, LookupBegin(r, k) \/ PurgeKeyBegin(r, k)
      PROVE  /\ pc'[q] = "done" /\ key'[q] = key[q]
             /\ hit'[q] = hit[q] /\ looked_at'[q] = looked_at[q]
  BY <1>2 DEF LookupBegin, PurgeKeyBegin, Enter
<1>3. ASSUME NEW r \in Streams,
             \/ \E d \in Decisions : StoreBegin(r, d)
             \/ \E s \in ShardIds : PurgeForeignBegin(r, s)
             \/ PurgeAllBegin(r)
      PROVE  /\ pc'[q] = "done" /\ key'[q] = key[q]
             /\ hit'[q] = hit[q] /\ looked_at'[q] = looked_at[q]
  BY <1>3 DEF StoreBegin, PurgeForeignBegin, PurgeAllBegin, Enter
<1>4. ASSUME NEW r \in Streams, Advance(r)
      PROVE  /\ pc'[q] = "done" /\ key'[q] = key[q]
             /\ hit'[q] = hit[q] /\ looked_at'[q] = looked_at[q]
  BY <1>4 DEF Advance, LookupHit, LookupMiss, StoreGet, PurgeKeyGet, PurgeAllGet, Fetch,
     StoreEdit, SetAccepted, SetRefused, RetryFrom, GiveUp, LeaveLoop
<1>5. CASE UNCHANGED vars
  BY <1>5 DEF vars
<1>. QED  BY <1>1, <1>2, <1>3, <1>4, <1>5 DEF Next

\* A stream in a lookup came to it before, or comes to it now and reads the clock.
LEMMA LooksStart ==
  ASSUME TypeInv, [Next]_vars, NEW q \in Streams, pc'[q] = "look"
  PROVE  \/ pc[q] = "look" /\ looked_at'[q] = looked_at[q]
         \/ looked_at'[q] = now
<1>. USE DEF TypeInv, TypeOK, locals, reads, history
<1>1. CASE Tick
  BY <1>1 DEF Tick
<1>2. ASSUME NEW r \in Streams, NEW k \in Keys, LookupBegin(r, k)
      PROVE  \/ pc[q] = "look" /\ looked_at'[q] = looked_at[q]
             \/ looked_at'[q] = now
  BY <1>2 DEF LookupBegin
<1>3. ASSUME NEW r \in Streams,
             \/ \E d \in Decisions : StoreBegin(r, d)
             \/ \E k \in Keys : PurgeKeyBegin(r, k)
             \/ \E s \in ShardIds : PurgeForeignBegin(r, s)
             \/ PurgeAllBegin(r)
      PROVE  pc[q] = "look" /\ looked_at'[q] = looked_at[q]
  BY <1>3 DEF StoreBegin, PurgeKeyBegin, PurgeForeignBegin, PurgeAllBegin, Enter
<1>4. ASSUME NEW r \in Streams, Advance(r)
      PROVE  pc[q] = "look" /\ looked_at'[q] = looked_at[q]
  BY <1>4 DEF Advance, LookupHit, LookupMiss, StoreGet, PurgeKeyGet, PurgeAllGet, Fetch,
     StoreEdit, SetAccepted, SetRefused, RetryFrom, GiveUp, LeaveLoop
<1>5. CASE UNCHANGED vars
  BY <1>5 DEF vars
<1>. QED  BY <1>1, <1>2, <1>3, <1>4, <1>5 DEF Next

\* Only a hit changes what a stream has looked up.
LEMMA OnlyHitsAnswer ==
  ASSUME TypeInv, [Next]_vars, NEW q \in Streams, hit'[q] # hit[q]
  PROVE  LookupHit(q)
<1>. USE DEF TypeInv, TypeOK, locals, reads, history
<1>1. ASSUME NEW r \in Streams, Advance(r)
      PROVE  LookupHit(q)
  BY <1>1 DEF Advance, LookupHit, LookupMiss, StoreGet, PurgeKeyGet, PurgeAllGet, Fetch,
     StoreEdit, SetAccepted, SetRefused, GiveUp, LeaveLoop
<1>. QED  BY <1>1 DEF Next, Tick, LookupBegin, StoreBegin, PurgeKeyBegin, PurgeForeignBegin,
          PurgeAllBegin, Enter, vars

\* A step is a step of one stream; the others stay where they are.
StreamStep(r) ==
  \/ \E k \in Keys : LookupBegin(r, k) \/ PurgeKeyBegin(r, k)
  \/ \E d \in Decisions : StoreBegin(r, d)
  \/ \E s \in ShardIds : PurgeForeignBegin(r, s)
  \/ PurgeAllBegin(r) \/ Advance(r)

LEMMA OthersKeepPlace ==
  ASSUME TypeInv, NEW r \in Streams, StreamStep(r)
  PROVE  /\ now' = now
         /\ \A q \in Streams \ {r} : pc'[q] = pc[q]
BY DEF StreamStep, LookupBegin, StoreBegin, PurgeKeyBegin, PurgeForeignBegin, PurgeAllBegin,
   Enter, Advance, LookupHit, LookupMiss, StoreGet, PurgeKeyGet, PurgeAllGet, Fetch,
   StoreEdit, SetAccepted, SetRefused, RetryFrom, GiveUp, LeaveLoop, TypeInv, TypeOK
=============================================================================
