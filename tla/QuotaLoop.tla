----------------------------- MODULE QuotaLoop -----------------------------
(***************************************************************************)
(* enforce_quota of src/cache.rs as the loop it is: while a shard has   *)
(* more than quota entries, find the minimum of (expiry, key) and remove   *)
(* it.  ShardOps gives the result in closed form; this module shows that   *)
(* the loop computes it.                                                   *)
(***************************************************************************)
EXTENDS ShardOps

CONSTANT Entries   \* the entries of the shards it is called with

ASSUME EntriesAssumption == Entries \subseteq CacheEntry

VARIABLES
  given,   \* the shard enforce_quota is called with
  quota,   \* and the quota
  shard,   \* the shard as the loop edits it
  pc       \* "loop" or "returned"

vars == <<given, quota, shard, pc>>

TypeOK ==
  /\ given \in CacheShard /\ shard \in CacheShard
  /\ quota \in Nat \ {0}
  /\ pc \in {"loop", "returned"}

\* shard_quota never returns 0.
Init ==
  /\ given \in [Keys -> Entries \cup {Absent}]
  /\ quota \in 1 .. Cardinality(Keys)   \* a larger one leaves the loop at once
  /\ shard = given
  /\ pc = "loop"

\* Fault: the loop stops one entry late.
OverQuota_OffByOne == Cardinality(Stored(shard)) > quota + 1

OverQuota == Cardinality(Stored(shard)) > quota

NearestExpiry(k) ==
  \A j \in Stored(shard) \ {k} :
     \/ shard[k].expires_at_ms < shard[j].expires_at_ms
     \/ shard[k].expires_at_ms = shard[j].expires_at_ms /\ k < j

\* Fault: the entry removed is not the one found.
Without_Unchanged(k) == shard

Without(k) == [shard EXCEPT ![k] = Absent]

RemoveNearest ==
  /\ pc = "loop" /\ OverQuota
  /\ \E k \in Stored(shard) :
       /\ NearestExpiry(k)
       /\ shard' = Without(k)
  /\ UNCHANGED <<given, quota, pc>>

Return ==
  /\ pc = "loop" /\ ~OverQuota
  /\ pc' = "returned"
  /\ UNCHANGED <<given, quota, shard>>

Next == RemoveNearest \/ Return

Spec == Init /\ [][Next]_vars /\ WF_vars(Next)
-----------------------------------------------------------------------------
\* The loop returns the closed form ShardOps uses (cache.rs:198, and the test
\* quota_evicts_nearest_expiry_then_key_order): whatever the ties, the entries
\* kept are the ones fewer than quota others outlive.
LoopReturnsClosedForm ==
  pc = "returned" => shard = enforce_quota(given, quota)

\* The loop ends: the minimum always exists, so the code's else-break arm is
\* never what stops it (cache.rs:199-214).
LoopTerminates == <>(pc = "returned")
=============================================================================
