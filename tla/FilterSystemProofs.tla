------------------------- MODULE FilterSystemProofs -------------------------
(***************************************************************************)
(* Theorems about the whole filter.  Every step of FilterSystem is a step, *)
(* or a stutter, of each of its two components, so what is proved of them  *)
(* carries over; on top of it, what is cached and replayed is traced back  *)
(* to the service.                                                         *)
(***************************************************************************)
EXTENDS FilterSystem, TLAPS

FP == INSTANCE FilterStreamProofs
CP == INSTANCE SharedCacheProofs

LEMMA StreamFacts ==
  /\ FP!RequestsAssumption /\ FP!MaxBodyAssumption /\ FP!CacheEnabledAssumption
  /\ FP!NoTokenAssumption
BY StreamAssumption
DEF FP!RequestsAssumption, FP!MaxBodyAssumption, FP!CacheEnabledAssumption,
    FP!NoTokenAssumption, F!RequestOps, FP!RequestOps, F!NoToken, FP!NoToken

LEMMA CacheFacts ==
  /\ CP!KeysAssumption /\ CP!NumShardsAssumption /\ CP!AbsentAssumption
  /\ CP!ForeignKeyAssumption /\ CP!MaxEntriesAssumption /\ CP!TtlAssumption
  /\ CP!MaxTimeAssumption
BY CacheAssumption
DEF CP!KeysAssumption, CP!NumShardsAssumption, CP!AbsentAssumption,
    CP!ForeignKeyAssumption, CP!MaxEntriesAssumption, CP!TtlAssumption,
    CP!MaxTimeAssumption, C!CacheEntry, CP!CacheEntry, IsFiniteSet, CP!IsFiniteSet
-----------------------------------------------------------------------------
(* The components under the names of their proofs. *)

LEMMA SameCacheSteps ==
  /\ \A r, k : C!LookupBegin(r, k) <=> CP!LookupBegin(r, k)
  /\ \A r, d : C!StoreBegin(r, d) <=> CP!StoreBegin(r, d)
  /\ \A r, k : C!PurgeKeyBegin(r, k) <=> CP!PurgeKeyBegin(r, k)
  /\ \A r, s : C!PurgeForeignBegin(r, s) <=> CP!PurgeForeignBegin(r, s)
  /\ \A r : C!PurgeAllBegin(r) <=> CP!PurgeAllBegin(r)
BY DEF C!LookupBegin, CP!LookupBegin, C!StoreBegin, CP!StoreBegin,
       C!PurgeKeyBegin, CP!PurgeKeyBegin, C!PurgeForeignBegin, CP!PurgeForeignBegin,
       C!PurgeAllBegin, CP!PurgeAllBegin, C!Enter, CP!Enter,
       C!shard_id_from_key, CP!shard_id_from_key, C!Stored, CP!Stored,
       C!Authors, CP!Authors, C!ShardIds, CP!ShardIds, C!history, CP!history,
       C!reads, CP!reads

LEMMA SameAdvance ==
  \A r : C!Advance(r) <=> CP!Advance(r)
BY DEF C!Advance, CP!Advance, C!LookupHit, CP!LookupHit, C!LookupMiss, CP!LookupMiss,
       C!Fresh, CP!Fresh, C!StoreGet, CP!StoreGet, C!PurgeKeyGet, CP!PurgeKeyGet,
       C!PurgeAllGet, CP!PurgeAllGet, C!Fetch, CP!Fetch, C!Version, CP!Version,
       C!EmptyShard, CP!EmptyShard, C!StoreEdit, CP!StoreEdit,
       C!SetAccepted, CP!SetAccepted, C!SetRefused, CP!SetRefused, C!GiveUp, CP!GiveUp,
       C!RetryFrom, CP!RetryFrom, C!LeaveLoop, CP!LeaveLoop, C!MoreShards, CP!MoreShards,
       C!CasMatches, CP!CasMatches, C!MaxTries, CP!MaxTries,
       C!enforce_quota, CP!enforce_quota, C!evict_expired, CP!evict_expired,
       C!shard_quota, CP!shard_quota, C!Outliving, CP!Outliving, C!Stored, CP!Stored,
       C!EvictedBefore, CP!EvictedBefore, C!ShardIds, CP!ShardIds,
       C!shard_id_from_key, CP!shard_id_from_key,
       C!locals, CP!locals, C!reads, CP!reads, C!history, CP!history,
       C!Cardinality, CP!Cardinality

LEMMA SameStreamSteps ==
  /\ \A r : F!Received(r) <=> FP!Received(r)
  /\ \A r : F!Abort(r) <=> FP!Abort(r)
BY DEF F!Received, FP!Received, F!Abort, FP!Abort, F!Deliverable, FP!Deliverable,
       F!OnHttpRequestHeaders, FP!OnHttpRequestHeaders, F!ReadHeaders, FP!ReadHeaders,
       F!OnHttpRequestBody, FP!OnHttpRequestBody, F!Settled, FP!Settled,
       F!TooLarge, FP!TooLarge, F!ChunkStart, FP!ChunkStart, F!Bytes, FP!Bytes,
       F!Complete, FP!Complete, F!IsWhole, FP!IsWhole,
       F!HandleInvalidationRequest, FP!HandleInvalidationRequest,
       F!DispatchCheckRequest, FP!DispatchCheckRequest, F!SendCall, FP!SendCall,
       F!RejectPayloadTooLarge, FP!RejectPayloadTooLarge,
       F!Reply, FP!Reply, F!Conclude, FP!Conclude

LEMMA SameReturns ==
  /\ \A r, v : F!LookupHit(r, v) <=> FP!LookupHit(r, v)
  /\ \A r : F!LookupMiss(r) <=> FP!LookupMiss(r)
  /\ \A r : F!StoreReturns(r) <=> FP!StoreReturns(r)
  /\ \A r : F!PurgeReturns(r) <=> FP!PurgeReturns(r)
  /\ \A r, answer : F!OnGrpcCallResponse(r, answer) <=> FP!OnGrpcCallResponse(r, answer)
BY DEF F!LookupHit, FP!LookupHit, F!LookupMiss, FP!LookupMiss,
       F!StoreReturns, FP!StoreReturns, F!PurgeReturns, FP!PurgeReturns,
       F!OnGrpcCallResponse, FP!OnGrpcCallResponse, F!Awaited, FP!Awaited,
       F!FailureReply, FP!FailureReply, F!Verdicts, FP!Verdicts,
       F!Deliverable, FP!Deliverable, F!SendCall, FP!SendCall, F!Forward, FP!Forward,
       F!Reply, FP!Reply, F!Conclude, FP!Conclude, F!host, FP!host,
       F!NoToken, FP!NoToken
-----------------------------------------------------------------------------
(* A step of the system is a step of the streams and a step of the cache. *)

ServiceType ==
  /\ policy \in Policies
  /\ superseded_at \in [Policies -> 0 .. MaxTime]
  /\ decided \in [Streams -> Decisions \cup {Undecided}]
  /\ sent_at \in [Streams -> 0 .. MaxTime]
  /\ replayed_at \in [Streams -> 0 .. MaxTime]

StreamsInv == FP!TypeOK /\ FP!LifeInv /\ FP!GoneInv
CacheInv   == CP!TypeInv /\ CP!LoopInv /\ CP!EntryInv

\* A callback is in the cache function its stream runs.
Linked ==
  \A r \in Streams :
     /\ inside[r] = "lookup" => pc[r] = "look"
     /\ inside[r] \in {"store", "purge"} => op[r] # "none"

PartsInv == ServiceType /\ StreamsInv /\ CacheInv /\ Linked

LEMMA ReplayedVerdict ==
  ASSUME CP!TypeInv, NEW r \in Streams, C!LookupHit(r)
  PROVE  hit'[r] \in CP!CacheEntry /\ hit'[r].decision.verdict \in FP!Verdicts
<1>1. key[r] \in Keys /\ pc[r] = "look"
  BY DEF CP!TypeInv, CP!LookedUpKey, C!LookupHit
<1>2. CP!shard_id_from_key(key[r]) \in CP!ShardIds
  BY <1>1, CacheFacts, CP!ShardIdType
<1>3. shared[CP!shard_id_from_key(key[r])].entries[key[r]] \in CP!CacheEntry \cup {Absent}
  BY <1>1, <1>2 DEF CP!TypeInv, CP!TypeOK, CP!CacheShard
<1>4. hit'[r] \in CP!CacheEntry
  BY <1>3 DEF C!LookupHit, C!shard_id_from_key, CP!shard_id_from_key, CP!TypeInv, CP!TypeOK
<1>. QED  BY <1>4 DEF CP!CacheEntry, Decisions, FP!Verdicts

\* A step of a stream, its callbacks' steps in the cache included.
SystemStep(r) == Receive(r) \/ Answer(r) \/ Abort(r) \/ CallbackGoesOn(r)

LEMMA StreamsStep ==
  ASSUME PartsInv, NEW r \in Streams, SystemStep(r)
  PROVE  FP!StreamStep(r) \/ UNCHANGED streamVars
<1>1. CASE Receive(r) \/ Answer(r) \/ Abort(r)
  BY <1>1, SameStreamSteps, SameReturns
  DEF Receive, Answer, Abort, FP!StreamStep, FP!Answered, F!Answers, FP!Answers,
      F!Verdicts, FP!Verdicts
<1>2. CASE LookupHit(r) \/ LookupMiss(r)
  BY <1>2, SameReturns, ReplayedVerdict
  DEF LookupHit, LookupMiss, FP!StreamStep, FP!CacheReturns, PartsInv, CacheInv
<1>3. CASE RunLoop(r)
  BY <1>3, SameReturns DEF RunLoop, FP!StreamStep, FP!CacheReturns
<1>. QED  BY <1>1, <1>2, <1>3 DEF SystemStep, CallbackGoesOn

LEMMA StreamsMove ==
  ASSUME PartsInv, [Next]_vars
  PROVE  [FP!Next]_(FP!vars)
<1>1. ASSUME NEW r \in Streams, SystemStep(r)
      PROVE  FP!Next \/ UNCHANGED FP!vars
  BY <1>1, StreamsStep DEF FP!StreamStep, FP!Next, streamVars, FP!vars, FP!host
<1>2. CASE Tick \/ ChangePolicy \/ UNCHANGED vars \/
           \E r \in Streams, v \in F!Verdicts : Decide(r, v)
  BY <1>2 DEF Tick, ChangePolicy, Decide, vars, streamVars, FP!vars, FP!host
<1>. QED  BY <1>1, <1>2 DEF Next, SystemStep

\* Who stores, stores what the service decided for it.
LEMMA StoredIsDecided ==
  ASSUME PartsInv, NEW r \in Streams, Answer(r), inside'[r] = "store"
  PROVE  decided[r] \in Decisions /\ call[r] = "open"
<1>1. PICK answer \in F!Answers :
        /\ answer \in F!Verdicts => decided[r] # Undecided
        /\ FP!OnGrpcCallResponse(r, answer)
  BY SameReturns DEF Answer
<1>2. answer \in FP!Verdicts /\ call[r] = "open"
  BY <1>1, StreamFacts, FP!ResponseEnters
  DEF PartsInv, StreamsInv, F!Answers, FP!Answers, F!Verdicts, FP!Verdicts
<1>. QED  BY <1>1, <1>2 DEF PartsInv, ServiceType, F!Verdicts, FP!Verdicts

LEMMA CacheStep ==
  ASSUME PartsInv, NEW r \in Streams, SystemStep(r)
  PROVE  CP!StreamStep(r) \/ UNCHANGED cacheVars
<1>1. CASE EnterCache(r) /\ inside'[r] # "store"
  BY <1>1, SameCacheSteps DEF EnterCache, CP!StreamStep, C!ShardIds, CP!ShardIds
<1>2. CASE Receive(r)
  <2>1. inside'[r] # "store"
    BY <1>2, SameStreamSteps, StreamFacts, FP!ReceivedEnters DEF Receive, PartsInv, StreamsInv
  <2>. QED  BY <1>1, <1>2, <2>1 DEF Receive
<1>3. CASE Answer(r) /\ inside'[r] = "store"
  <2>1. decided[r] \in Decisions
    BY <1>3, StoredIsDecided
  <2>2. inside[r] = "none"
    BY <1>3 DEF Answer, F!OnGrpcCallResponse, F!Deliverable
  <2>. QED
    BY <1>3, <2>1, <2>2, SameCacheSteps
    DEF Answer, EnterCache, StoredDecision, CP!StreamStep
<1>4. CASE CallbackGoesOn(r)
  BY <1>4, SameAdvance
  DEF CallbackGoesOn, LookupHit, LookupMiss, RunLoop, C!Advance, CP!StreamStep
<1>. QED  BY <1>1, <1>2, <1>3, <1>4 DEF SystemStep, Answer, Abort

LEMMA CacheMoves ==
  ASSUME PartsInv, [Next]_vars
  PROVE  [CP!Next]_(CP!vars)
<1>. USE DEF cacheVars, CP!vars, CP!locals, CP!reads, CP!history
<1>1. ASSUME NEW r \in Streams, SystemStep(r)
      PROVE  CP!Next \/ UNCHANGED CP!vars
  BY <1>1, CacheStep DEF CP!StreamStep, CP!Next
<1>2. CASE Tick
  BY <1>2 DEF Tick, C!Tick, CP!Tick, CP!Next, C!locals, C!reads, C!history
<1>3. CASE ChangePolicy \/ UNCHANGED vars \/
           \E r \in Streams, v \in F!Verdicts : Decide(r, v)
  BY <1>3 DEF ChangePolicy, Decide, vars
<1>. QED  BY <1>1, <1>2, <1>3 DEF Next, SystemStep
-----------------------------------------------------------------------------
(* What is proved of the parts holds of the system. *)

LEMMA ServiceTypeStep ==
  ASSUME PartsInv, [Next]_vars
  PROVE  ServiceType'
<1>. USE DEF PartsInv, ServiceType, CacheInv, CP!TypeInv, CP!TypeOK, Policies
<1>1. now \in 0 .. MaxTime
  OBVIOUS
<1>2. ASSUME NEW r \in Streams, StartTimeout(r)
      PROVE  /\ sent_at' \in [Streams -> 0 .. MaxTime]
             /\ replayed_at' \in [Streams -> 0 .. MaxTime]
  BY <1>1, <1>2 DEF StartTimeout
<1>3. ASSUME NEW r \in Streams, SystemStep(r)
      PROVE  ServiceType'
  BY <1>1, <1>2, <1>3, SMTT(30)
  DEF SystemStep, Receive, Answer, Abort, CallbackGoesOn, LookupHit, LookupMiss, RunLoop,
      service, times
<1>4. ASSUME NEW r \in Streams, NEW v \in F!Verdicts, Decide(r, v)
      PROVE  ServiceType'
  <2>1. [verdict |-> v, policy |-> policy] \in Decisions
    BY DEF Decisions, F!Verdicts
  <2>. QED  BY <1>4, <2>1 DEF Decide, times
<1>5. CASE ChangePolicy
  <2>1. policy' \in Policies
    BY <1>5, MaxPolicyAssumption DEF ChangePolicy
  <2>. QED  BY <1>1, <1>5, <2>1 DEF ChangePolicy, times
<1>6. CASE Tick \/ UNCHANGED vars
  BY <1>6 DEF Tick, vars, service, times
<1>. QED  BY <1>3, <1>4, <1>5, <1>6 DEF Next, SystemStep

LEMMA LinkedStep ==
  ASSUME PartsInv, [Next]_vars
  PROVE  Linked'
<1>. DEFINE LinkedAt(q) == /\ inside[q] = "lookup" => pc[q] = "look"
                           /\ inside[q] \in {"store", "purge"} => op[q] # "none"
<1>. SUFFICES ASSUME NEW q \in Streams PROVE LinkedAt(q)'
  BY DEF Linked
<1>0. LinkedAt(q) /\ (op[q] # "none" => op'[q] # "none")
  BY CacheFacts, CacheMoves, CP!EnteredStays DEF PartsInv, CacheInv, CP!LoopInv, Linked
<1>1. ASSUME NEW r \in Streams, SystemStep(r), q # r
      PROVE  LinkedAt(q)'
  <2>1. inside'[q] = inside[q]
    BY <1>1, StreamsStep, StreamFacts, FP!StepLeavesOthers
    DEF PartsInv, StreamsInv, FP!Untouched, streamVars
  <2>2. pc'[q] = pc[q]
    BY <1>1, CacheStep, CacheFacts, CP!OthersKeepPlace DEF PartsInv, CacheInv, cacheVars
  <2>. QED  BY <1>0, <2>1, <2>2
<1>2. CASE SystemStep(q)
  <2>. USE DEF PartsInv, StreamsInv, CacheInv, FP!TypeOK, CP!TypeInv, CP!TypeOK
  <2>1. CASE EnterCache(q) /\ inside[q] = "none"
    BY <2>1 DEF EnterCache, C!LookupBegin, C!StoreBegin, C!PurgeAllBegin, C!PurgeKeyBegin,
       C!PurgeForeignBegin, C!Enter
  <2>2. CASE Receive(q) \/ Answer(q)
    <3>1. inside[q] = "none"
      BY <2>2 DEF Receive, Answer, F!OnGrpcCallResponse, F!Received, F!OnHttpRequestHeaders,
         F!OnHttpRequestBody, F!Deliverable
    <3>. QED  BY <2>1, <2>2, <3>1 DEF Receive, Answer
  <2>3. CASE Abort(q)
    BY <1>0, <2>3 DEF Abort, F!Abort, cacheVars
  <2>4. CASE LookupHit(q) \/ LookupMiss(q)
    BY <2>4 DEF LookupHit, LookupMiss, F!LookupHit, F!LookupMiss
  <2>5. CASE RunLoop(q)
    <3>1. inside'[q] = "none" \/ inside'[q] = inside[q]
      BY <2>5 DEF RunLoop, F!StoreReturns, F!PurgeReturns, streamVars
    <3>. QED  BY <1>0, <2>5, <3>1 DEF RunLoop
  <2>. QED  BY <1>2, <2>2, <2>3, <2>4, <2>5 DEF SystemStep, CallbackGoesOn
<1>3. CASE \/ Tick \/ ChangePolicy \/ UNCHANGED vars
           \/ \E r \in Streams, v \in F!Verdicts : Decide(r, v)
  BY <1>0, <1>3 DEF Tick, C!Tick, ChangePolicy, Decide, vars, streamVars, cacheVars
<1>. QED  BY <1>1, <1>2, <1>3 DEF Next, SystemStep

LEMMA PartsStep == PartsInv /\ [Next]_vars => PartsInv'
<1>. SUFFICES ASSUME PartsInv, [Next]_vars PROVE PartsInv'
  OBVIOUS
<1>1. StreamsInv'
  BY StreamsMove, StreamFacts, FP!TypeStep, FP!LifeStep, FP!GoneStep DEF PartsInv, StreamsInv
<1>2. CacheInv'
  BY CacheMoves, CacheFacts, CP!TypeInvStep, CP!LoopInvStep, CP!EntryInvStep
  DEF PartsInv, CacheInv
<1>. QED  BY <1>1, <1>2, ServiceTypeStep, LinkedStep DEF PartsInv

LEMMA PartsInit == Init => PartsInv
<1>. SUFFICES ASSUME Init PROVE PartsInv
  OBVIOUS
<1>1. StreamsInv
  BY StreamFacts, FP!TypeInit, FP!LifeInit, FP!GoneInit
  DEF Init, StreamsInv, F!Init, FP!Init, F!NoToken, FP!NoToken
<1>2. CacheInv
  BY CacheFacts, CP!TypeInvInit, CP!LoopInvInit, CP!PurgeInvInit
  DEF Init, CacheInv, CP!PurgeInv, C!Init, CP!Init, C!ShardIds, CP!ShardIds,
      C!EmptyShard, CP!EmptyShard
<1>3. ServiceType
  BY MaxPolicyAssumption, CacheAssumption DEF Init, ServiceType, Policies
<1>4. Linked
  BY DEF Init, F!Init, Linked
<1>. QED  BY <1>1, <1>2, <1>3, <1>4 DEF PartsInv

LEMMA PartsHold == Spec => []PartsInv
BY PartsInit, PartsStep, PTL DEF Spec
-----------------------------------------------------------------------------
(* The service.  A call is open no longer than its timeout, and what was decided   *)
(* in it was decided, by the policy of the moment, after it was sent; a lookup     *)
(* under way read the clock no longer ago than a worker may be held up.            *)

CallInTime ==
  \A q \in Streams : call[q] = "open" => sent_at[q] <= now /\ now <= sent_at[q] + Timeout[q]

DecidedOnce ==
  \A q \in Streams : decided[q] # Undecided =>
     /\ call[q] # "none" \/ ~alive[q]
     /\ sent_at[q] <= now
     /\ decided[q].policy <= policy
     /\ decided[q].policy < policy => sent_at[q] <= superseded_at[decided[q].policy]

LooksInTime ==
  \A q \in Streams : pc[q] = "look" => looked_at[q] <= now /\ now <= looked_at[q] + MaxStall

ServiceInv == CallInTime /\ DecidedOnce /\ LooksInTime

\* What a stream's own step does to its call, and to the deadline.
LEMMA CallsMove ==
  ASSUME PartsInv, ServiceInv, NEW r \in Streams, SystemStep(r)
  PROVE  /\ \A q \in Streams \ {r} : call'[q] = call[q] /\ sent_at'[q] = sent_at[q]
                                     /\ alive'[q] = alive[q]
         /\ \/ call'[r] = call[r] /\ sent_at'[r] = sent_at[r] /\ alive'[r] = alive[r]
            \/ call[r] = "none" /\ call'[r] = "open" /\ sent_at'[r] = now /\ alive[r]
            \/ call[r] # "none" /\ call'[r] = "answered" /\ sent_at'[r] = sent_at[r]
            \/ call'[r] = "none" /\ ~alive'[r] /\ sent_at'[r] = sent_at[r]
<1>. USE DEF PartsInv, ServiceType, StreamsInv, FP!TypeOK
<1>1. ASSUME NEW q \in Streams \ {r}
      PROVE  call'[q] = call[q] /\ sent_at'[q] = sent_at[q] /\ alive'[q] = alive[q]
  <2>1. call'[q] = call[q] /\ alive'[q] = alive[q]
    BY StreamsStep, StreamFacts, FP!StepLeavesOthers DEF FP!Untouched, streamVars
  <2>2. sent_at'[q] = sent_at[q]
    BY DEF SystemStep, Receive, Answer, Abort, CallbackGoesOn, LookupHit, LookupMiss, RunLoop,
       StartTimeout, times
  <2>. QED  BY <2>1, <2>2
<1>2. CASE Receive(r) \/ LookupMiss(r)
  <2>1. StartTimeout(r)
    BY <1>2 DEF Receive, LookupMiss
  <2>2. FP!StreamStep(r) /\ alive[r] /\ alive' = alive
    <3>1. FP!StreamStep(r)
      BY <1>2, SameStreamSteps, SameReturns
      DEF Receive, LookupMiss, FP!StreamStep, FP!CacheReturns
    <3>2. alive' = alive
      BY <1>2 DEF Receive, LookupMiss, F!Received, F!OnHttpRequestHeaders,
         F!OnHttpRequestBody, F!LookupMiss, F!host
    <3>. QED  BY <3>1, <3>2, StreamFacts, FP!OnlyAliveStep
  <2>3. FP!CallMoves(r) /\ ~FP!Abort(r)
    BY <2>2, StreamFacts, FP!CallStep DEF FP!Abort
  <2>. QED  BY <1>1, <2>1, <2>2, <2>3 DEF FP!CallMoves, StartTimeout
<1>3. CASE Answer(r)
  BY <1>1, <1>3 DEF Answer, F!OnGrpcCallResponse, F!host, times
<1>4. CASE Abort(r)
  BY <1>1, <1>4 DEF Abort, F!Abort, times
<1>5. CASE LookupHit(r) \/ RunLoop(r)
  BY <1>1, <1>5 DEF LookupHit, RunLoop, F!LookupHit, F!StoreReturns, F!PurgeReturns, F!host,
     streamVars, times
<1>. QED  BY <1>2, <1>3, <1>4, <1>5 DEF SystemStep, CallbackGoesOn

LEMMA ServiceStep ==
  PartsInv /\ ServiceInv /\ [Next]_vars => ServiceInv'
<1>. SUFFICES ASSUME PartsInv, ServiceInv, [Next]_vars PROVE ServiceInv'
  OBVIOUS
<1>. USE DEF PartsInv, ServiceType, CacheInv, CP!TypeInv, CP!TypeOK, Policies
<1>1. ASSUME NEW r \in Streams, SystemStep(r)
      PROVE  ServiceInv'
  <2>1. UNCHANGED <<now, service>>
    BY <1>1, CacheStep, CacheFacts, CP!OthersKeepPlace
    DEF SystemStep, Receive, Answer, Abort, CallbackGoesOn, LookupHit, LookupMiss, RunLoop,
        cacheVars
  <2>2. ASSUME NEW q \in Streams, call'[q] = "open"
        PROVE  \/ call[q] = "open" /\ sent_at'[q] = sent_at[q]
               \/ sent_at'[q] = now
    BY <1>1, <2>2, CallsMove
  <2>3. now \in Nat /\ \A q \in Streams : Timeout[q] \in Nat
    BY TimeoutAssumption
  <2>4. ASSUME NEW q \in Streams, call'[q] = "open"
        PROVE  sent_at'[q] <= now /\ now <= sent_at'[q] + Timeout[q]
    <3>1. CASE sent_at'[q] = now
      BY <2>3, <3>1, SMTT(30)
    <3>2. CASE call[q] = "open" /\ sent_at'[q] = sent_at[q]
      BY <3>2 DEF ServiceInv, CallInTime
    <3>. QED  BY <2>2, <2>4, <3>1, <3>2
  <2>5. CallInTime'
    BY <2>1, <2>4 DEF CallInTime
  <2>6. ASSUME NEW q \in Streams, decided'[q] # Undecided
        PROVE  /\ call'[q] # "none" \/ ~alive'[q]
               /\ sent_at'[q] = sent_at[q]
    BY <1>1, <2>1, <2>6, CallsMove DEF service, ServiceInv, DecidedOnce
  <2>7. DecidedOnce'
    BY <2>1, <2>6 DEF service, ServiceInv, DecidedOnce
  <2>8. ASSUME NEW q \in Streams, pc'[q] = "look"
        PROVE  looked_at'[q] <= now /\ now <= looked_at'[q] + MaxStall
    <3>1. CASE looked_at'[q] = now
      BY <2>3, <3>1, MaxStallAssumption, SMTT(30)
    <3>2. CASE pc[q] = "look" /\ looked_at'[q] = looked_at[q]
      BY <3>2 DEF ServiceInv, LooksInTime
    <3>. QED  BY <2>8, <3>1, <3>2, CacheFacts, CacheMoves, CP!LooksStart
  <2>9. LooksInTime'
    BY <2>1, <2>8 DEF LooksInTime
  <2>. QED  BY <2>5, <2>7, <2>9 DEF ServiceInv
<1>2. ASSUME NEW r \in Streams, NEW v \in F!Verdicts, Decide(r, v)
      PROVE  ServiceInv'
  BY <1>2, SMTT(30)
  DEF Decide, ServiceInv, CallInTime, DecidedOnce, LooksInTime, streamVars, cacheVars, times
<1>3. CASE ChangePolicy
  BY <1>3, MaxPolicyAssumption, SMTT(30)
  DEF ChangePolicy, ServiceInv, CallInTime, DecidedOnce, LooksInTime, streamVars, cacheVars,
      times, Decisions
<1>4. CASE Tick
  <2>1. CallInTime' /\ DecidedOnce'
    BY <1>4, TimeoutAssumption, SMTT(30)
    DEF Tick, C!Tick, InTime, ServiceInv, CallInTime, DecidedOnce, streamVars, service, times
  <2>2. LooksInTime'
    BY <1>4, MaxStallAssumption
    DEF Tick, C!Tick, C!locals, C!reads, NoLongStall, ServiceInv, LooksInTime
  <2>. QED  BY <2>1, <2>2 DEF ServiceInv
<1>5. CASE UNCHANGED vars
  BY <1>5 DEF vars, streamVars, cacheVars, service, times, ServiceInv, CallInTime,
     DecidedOnce, LooksInTime
<1>. QED  BY <1>1, <1>2, <1>3, <1>4, <1>5 DEF Next, SystemStep
-----------------------------------------------------------------------------
(* What is stored, cached and replayed is genuine: the service decided it in the  *)
(* call of the stream that stored it, and it expires within that call's timeout   *)
(* and the ttl.                                                                    *)

Genuine(e) ==
  /\ e \in CP!CacheEntry
  /\ decided[e.by] = e.decision
  /\ e.expires_at_ms <= sent_at[e.by] + Timeout[e.by] + Ttl[e.by]

StoresGenuine == \A q \in Streams : op[q] = "store" => Genuine(entry[q])

CachesGenuine ==
  \A s \in CP!ShardIds : \A k \in CP!Stored(shared[s].entries) :
     Genuine(shared[s].entries[k])

ReplaysGenuine ==
  \A r \in Streams : hit[r] # Absent =>
     LET q == hit[r].by
     IN  /\ Genuine(hit[r])
         /\ op[q] = "store" /\ pc[q] = "done" /\ key[q] = key[r]
         /\ pc[r] = "done" /\ outcome[r] # <<>>
         /\ verdict[r] = hit[r].decision.verdict
         /\ looked_at[r] < hit[r].expires_at_ms
         /\ replayed_at[r] <= looked_at[r] + MaxStall

GenuineInv == StoresGenuine /\ CachesGenuine /\ ReplaysGenuine

\* What the service has decided stands, and so does when it was asked.
LEMMA GenuineStays ==
  ASSUME PartsInv, ServiceInv, [Next]_vars, NEW e, Genuine(e)
  PROVE  /\ decided'[e.by] = e.decision
         /\ e.expires_at_ms <= sent_at'[e.by] + Timeout[e.by] + Ttl[e.by]
<1>. DEFINE q == e.by
<1>1. q \in Streams /\ decided[q] \in Decisions
  BY DEF Genuine, CP!CacheEntry
<1>2. decided[q] # Undecided /\ (call[q] # "none" \/ ~alive[q])
  BY <1>1, UndecidedAssumption DEF ServiceInv, DecidedOnce
<1>. SUFFICES decided'[q] = decided[q] /\ sent_at'[q] = sent_at[q]
  BY DEF Genuine
<1>3. ASSUME NEW r \in Streams, SystemStep(r)
      PROVE  decided'[q] = decided[q] /\ sent_at'[q] = sent_at[q]
  <2>1. sent_at'[q] = sent_at[q]
    BY <1>1, <1>2, <1>3, CallsMove
  <2>2. decided' = decided
    BY <1>3 DEF SystemStep, Receive, Answer, Abort, CallbackGoesOn, LookupHit, LookupMiss,
       RunLoop, service
  <2>. QED  BY <2>1, <2>2
<1>4. ASSUME NEW r \in Streams, NEW v \in F!Verdicts, Decide(r, v)
      PROVE  decided'[q] = decided[q] /\ sent_at'[q] = sent_at[q]
  BY <1>2, <1>4 DEF Decide, PartsInv, ServiceType, times
<1>5. CASE Tick \/ ChangePolicy \/ UNCHANGED vars
  BY <1>5 DEF Tick, ChangePolicy, vars, service, times
<1>. QED  BY <1>3, <1>4, <1>5 DEF Next, SystemStep

\* A stream becomes a storing one by the answer to its call alone.
LEMMA OnlyAnswersStore ==
  ASSUME PartsInv, [Next]_vars, NEW q \in Streams, op'[q] = "store", op[q] # "store"
  PROVE  Answer(q) /\ inside'[q] = "store" /\ C!StoreBegin(q, decided[q])
<1>. USE CacheFacts DEF PartsInv, CacheInv
<1>1. ASSUME NEW r \in Streams, EnterCache(r), inside'[r] # "store"
      PROVE  FALSE
  BY <1>1, SameCacheSteps, CP!NoNewStore DEF EnterCache, cacheVars, C!ShardIds, CP!ShardIds
<1>2. ASSUME NEW r \in Streams, Receive(r)
      PROVE  FALSE
  <2>1. inside'[r] # "store"
    BY <1>2, SameStreamSteps, StreamFacts, FP!ReceivedEnters DEF Receive, StreamsInv
  <2>. QED  BY <1>1, <1>2, <2>1 DEF Receive
<1>3. ASSUME NEW r \in Streams, CallbackGoesOn(r)
      PROVE  FALSE
  <2>1. CP!Advance(r)
    BY <1>3, SameAdvance DEF CallbackGoesOn, LookupHit, LookupMiss, RunLoop, C!Advance
  <2>. QED  BY <2>1, CP!NoNewStore
<1>4. ASSUME NEW r \in Streams, Answer(r)
      PROVE  Answer(q) /\ inside'[q] = "store" /\ C!StoreBegin(q, decided[q])
  <2>1. EnterCache(r) /\ inside'[r] = "store" /\ inside[r] = "none"
    BY <1>1, <1>4 DEF Answer, F!OnGrpcCallResponse, F!Deliverable
  <2>2. C!StoreBegin(r, decided[r])
    BY <2>1 DEF EnterCache, StoredDecision
  <2>3. q = r
    BY <2>2 DEF C!StoreBegin, C!Enter, CP!TypeInv, CP!TypeOK
  <2>. QED  BY <1>4, <2>1, <2>2, <2>3
<1>5. ~(Tick \/ ChangePolicy \/ UNCHANGED vars)
  BY DEF Tick, C!Tick, C!locals, ChangePolicy, vars, cacheVars
<1>6. \A r \in Streams : ~Abort(r) /\ \A v \in F!Verdicts : ~Decide(r, v)
  BY DEF Abort, Decide, cacheVars
<1>. QED  BY <1>2, <1>3, <1>4, <1>5, <1>6 DEF Next

LEMMA StoresStep ==
  ASSUME PartsInv, ServiceInv, GenuineInv, [Next]_vars
  PROVE  StoresGenuine'
<1>. SUFFICES ASSUME NEW q \in Streams, op'[q] = "store"
              PROVE  Genuine(entry[q])'
  BY DEF StoresGenuine
<1>1. CASE op[q] = "store"
  <2>1. entry'[q] = entry[q]
    BY <1>1, CacheFacts, CacheMoves, CP!EnteredStays DEF PartsInv, CacheInv, CP!LoopInv
  <2>2. Genuine(entry'[q])
    BY <1>1, <2>1 DEF GenuineInv, StoresGenuine
  <2>3. entry'[q] \in CP!CacheEntry
    BY <2>2 DEF Genuine
  <2>. QED  BY <2>2, <2>3, GenuineStays DEF Genuine
<1>2. CASE op[q] # "store"
  <2>. DEFINE d == decided[q]
  <2>1. Answer(q) /\ inside'[q] = "store" /\ C!StoreBegin(q, d)
    BY <1>2, OnlyAnswersStore
  <2>2. d \in Decisions /\ call[q] = "open"
    BY <2>1, StoredIsDecided
  <2>3. entry'[q] = [expires_at_ms |-> now + Ttl[q], by |-> q, decision |-> d]
    BY <2>1 DEF C!StoreBegin, C!Enter, PartsInv, CacheInv, CP!TypeInv, CP!TypeOK
  <2>4. decided' = decided /\ sent_at' = sent_at
    BY <2>1 DEF Answer, service, times
  <2>5. now \in Nat /\ Ttl[q] \in Nat /\ Timeout[q] \in Nat /\ sent_at[q] \in Nat
    BY CacheAssumption, TimeoutAssumption
    DEF PartsInv, ServiceType, CacheInv, CP!TypeInv, CP!TypeOK
  <2>6. now <= sent_at[q] + Timeout[q]
    BY <2>2 DEF ServiceInv, CallInTime
  <2>7. entry'[q] \in CP!CacheEntry
    BY <2>2, <2>3, <2>5 DEF CP!CacheEntry
  <2>8. entry'[q].expires_at_ms <= sent_at[q] + Timeout[q] + Ttl[q]
    BY <2>3, <2>5, <2>6
  <2>. QED  BY <2>3, <2>4, <2>7, <2>8 DEF Genuine
<1>. QED  BY <1>1, <1>2

LEMMA CachesStep ==
  ASSUME PartsInv, ServiceInv, GenuineInv, [Next]_vars
  PROVE  CachesGenuine'
<1>. SUFFICES ASSUME NEW s \in CP!ShardIds, NEW k \in CP!Stored(shared'[s].entries)
              PROVE  Genuine(shared[s].entries[k])'
  BY DEF CachesGenuine, CP!Stored
<1>. DEFINE e == shared'[s].entries[k]
<1>1. \/ /\ k \in CP!Stored(shared[s].entries)
         /\ e = shared[s].entries[k]
      \/ \E r \in Streams : op[r] = "store" /\ e = entry[r]
  BY CacheFacts, CacheMoves, CP!CachedStep DEF PartsInv, CacheInv
<1>2. Genuine(e)
  BY <1>1 DEF GenuineInv, StoresGenuine, CachesGenuine
<1>3. e \in CP!CacheEntry
  BY <1>2 DEF Genuine
<1>. QED  BY <1>2, <1>3, GenuineStays DEF Genuine

LEMMA HitStep ==
  ASSUME PartsInv, [Next]_vars, NEW q \in Streams, hit'[q] # hit[q]
  PROVE  LookupHit(q)
<1>. USE DEF PartsInv, CacheInv, CP!TypeInv, CP!TypeOK
<1>1. pc[q] = "look" /\ pc'[q] = "done" /\ op[q] = "none"
  BY CacheFacts, CacheMoves, CP!OnlyHitsAnswer DEF CP!LookupHit, CP!LoopInv, CP!ControlInv
<1>2. ASSUME NEW r \in Streams, SystemStep(r)
      PROVE  r = q
  BY <1>1, <1>2, CacheStep, CacheFacts, CP!OthersKeepPlace DEF cacheVars
<1>3. ~Receive(q) /\ ~Answer(q)
  BY <1>1 DEF Receive, Answer, EnterCache, cacheVars, C!LookupBegin, C!StoreBegin,
     C!PurgeKeyBegin, C!PurgeForeignBegin, C!PurgeAllBegin, C!Enter
<1>4. ~Abort(q) /\ ~LookupMiss(q)
  BY <1>1 DEF Abort, cacheVars, LookupMiss, C!LookupMiss
<1>5. ~RunLoop(q)
  BY <1>1 DEF RunLoop, Linked
<1>6. ~(Tick \/ ChangePolicy \/ UNCHANGED vars)
  BY <1>1 DEF Tick, C!Tick, ChangePolicy, vars, cacheVars
<1>7. \A r \in Streams, v \in F!Verdicts : ~Decide(r, v)
  BY <1>1 DEF Decide, cacheVars
<1>. QED  BY <1>2, <1>3, <1>4, <1>5, <1>6, <1>7 DEF Next, SystemStep, CallbackGoesOn

\* The time of a replay is recorded once.
LEMMA ReplayTimeStays ==
  ASSUME PartsInv, [Next]_vars, NEW q \in Streams, pc[q] = "done"
  PROVE  replayed_at'[q] = replayed_at[q]
<1>. USE DEF PartsInv, ServiceType
<1>1. ASSUME NEW r \in Streams, LookupHit(r)
      PROVE  replayed_at'[q] = replayed_at[q]
  <2>1. q # r
    BY <1>1 DEF LookupHit, C!LookupHit
  <2>. QED  BY <1>1, <2>1 DEF LookupHit
<1>. QED  BY <1>1 DEF Next, Tick, ChangePolicy, Receive, Answer, Abort, CallbackGoesOn,
          LookupMiss, RunLoop, Decide, StartTimeout, vars, times

LEMMA ReplaysStep ==
  ASSUME PartsInv, ServiceInv, GenuineInv, [Next]_vars
  PROVE  ReplaysGenuine'
<1>. SUFFICES ASSUME NEW r \in Streams, hit'[r] # Absent
              PROVE  LET q == hit'[r].by
                     IN  /\ Genuine(hit[r])'
                         /\ op'[q] = "store" /\ pc'[q] = "done" /\ key'[q] = key'[r]
                         /\ pc'[r] = "done" /\ outcome'[r] # <<>>
                         /\ verdict'[r] = hit'[r].decision.verdict
                         /\ looked_at'[r] < hit'[r].expires_at_ms
                         /\ replayed_at'[r] <= looked_at'[r] + MaxStall
  BY DEF ReplaysGenuine
<1>. DEFINE e == hit'[r]
            q == e.by
<1>1. CASE hit'[r] = hit[r]
  <2>1. /\ Genuine(e) /\ op[q] = "store" /\ pc[q] = "done" /\ key[q] = key[r]
        /\ pc[r] = "done" /\ outcome[r] # <<>>
        /\ verdict[r] = e.decision.verdict /\ looked_at[r] < e.expires_at_ms
        /\ replayed_at[r] <= looked_at[r] + MaxStall
    BY <1>1 DEF GenuineInv, ReplaysGenuine
  <2>2. q \in Streams /\ e \in CP!CacheEntry
    BY <2>1 DEF Genuine, CP!CacheEntry
  <2>3. op'[q] = "store" /\ pc'[q] = "done" /\ key'[q] = key[q]
    BY <2>1, <2>2, CacheFacts, CacheMoves, CP!FinishedStep DEF PartsInv, CacheInv, CP!LoopInv
  <2>4. pc'[r] = "done" /\ key'[r] = key[r] /\ looked_at'[r] = looked_at[r]
    BY <2>1, CacheFacts, CacheMoves, CP!DoneStays DEF PartsInv, CacheInv
  <2>5. outcome'[r] = outcome[r] /\ verdict'[r] = verdict[r]
    BY <2>1, StreamFacts, StreamsMove, FP!ConcludedStays DEF PartsInv, StreamsInv
  <2>6. Genuine(hit[r])'
    BY <2>1, <2>2, GenuineStays DEF Genuine
  <2>7. replayed_at'[r] = replayed_at[r]
    BY <2>1, ReplayTimeStays
  <2>. QED  BY <2>1, <2>3, <2>4, <2>5, <2>6, <2>7
<1>2. CASE hit'[r] # hit[r]
  <2>. DEFINE s == CP!shard_id_from_key(key[r])
  <2>1. LookupHit(r) /\ C!LookupHit(r) /\ F!LookupHit(r, e.decision.verdict)
    BY <1>2, HitStep DEF LookupHit
  <2>2. key[r] \in Keys /\ s \in CP!ShardIds
    BY <2>1, CacheFacts, CP!ShardIdType
    DEF C!LookupHit, PartsInv, CacheInv, CP!TypeInv, CP!LookedUpKey
  <2>3. /\ e = shared[s].entries[key[r]] /\ key[r] \in CP!Stored(shared[s].entries)
        /\ looked_at[r] < e.expires_at_ms
        /\ pc'[r] = "done" /\ UNCHANGED <<op, key, looked_at>>
        /\ \A p \in Streams \ {r} : pc'[p] = pc[p]
    <3>1. hit'[r] = shared[s].entries[key[r]] /\ shared[s].entries[key[r]] # Absent
      BY <2>1 DEF C!LookupHit, C!shard_id_from_key, CP!shard_id_from_key, PartsInv, CacheInv,
         CP!TypeInv, CP!TypeOK
    <3>2. e \in CP!CacheEntry
      BY <2>1, ReplayedVerdict DEF PartsInv, CacheInv
    <3>3. looked_at[r] \in Nat /\ e.expires_at_ms \in Nat /\ e.expires_at_ms > looked_at[r]
      BY <2>1, <3>1, <3>2
      DEF C!LookupHit, C!Fresh, C!shard_id_from_key, CP!shard_id_from_key, CP!CacheEntry,
          PartsInv, CacheInv, CP!TypeInv, CP!TypeOK
    <3>4. /\ pc' = [pc EXCEPT ![r] = "done"]
          /\ UNCHANGED <<op, key, looked_at>>
      BY <2>1 DEF C!LookupHit, C!locals
    <3>. QED
      BY <2>2, <3>1, <3>3, <3>4
      DEF CP!Stored, PartsInv, CacheInv, CP!TypeInv, CP!TypeOK
  <2>4. Genuine(e) /\ op[q] = "store" /\ pc[q] = "done" /\ key[q] = key[r]
    BY <2>2, <2>3 DEF GenuineInv, CachesGenuine, PartsInv, CacheInv, CP!EntryInv
  <2>5. outcome'[r] # <<>> /\ verdict'[r] = e.decision.verdict
    <3>1. \E c : outcome' = [outcome EXCEPT ![r] = Append(@, c)]
      BY <2>1 DEF F!LookupHit, F!Forward, F!Reply, F!Conclude
    <3>2. outcome \in [Streams -> Seq(FP!Conclusions)]
      BY DEF PartsInv, StreamsInv, FP!TypeOK, FP!Conclusions
    <3>3. outcome'[r] # <<>>
      BY <3>1, <3>2
    <3>4. verdict'[r] = e.decision.verdict
      BY <2>1 DEF F!LookupHit, PartsInv, StreamsInv, FP!TypeOK
    <3>. QED  BY <3>3, <3>4
  <2>6. Genuine(hit[r])'
    BY <2>4, GenuineStays DEF Genuine
  <2>7. q \in Streams
    BY <2>4 DEF Genuine, CP!CacheEntry
  <2>8. replayed_at'[r] <= looked_at[r] + MaxStall
    <3>1. replayed_at'[r] = now
      BY <2>1 DEF LookupHit, PartsInv, ServiceType
    <3>. QED  BY <2>1, <3>1 DEF C!LookupHit, ServiceInv, LooksInTime
  <2>. QED  BY <2>3, <2>4, <2>5, <2>6, <2>7, <2>8
<1>. QED  BY <1>1, <1>2

LEMMA GenuineInit == Init => ServiceInv /\ GenuineInv
BY DEF Init, F!Init, C!Init, ServiceInv, CallInTime, DecidedOnce, LooksInTime, GenuineInv,
   StoresGenuine, CachesGenuine, ReplaysGenuine, C!ShardIds, CP!ShardIds, C!EmptyShard, CP!Stored

SystemInv == PartsInv /\ ServiceInv /\ GenuineInv

LEMMA SystemHolds == Spec => []SystemInv
<1>1. Init => SystemInv
  BY PartsInit, GenuineInit DEF SystemInv
<1>2. SystemInv /\ [Next]_vars => SystemInv'
  BY PartsStep, ServiceStep, StoresStep, CachesStep, ReplaysStep DEF SystemInv, GenuineInv
<1>. QED  BY <1>1, <1>2, PTL DEF Spec
-----------------------------------------------------------------------------
\* Every variable of the filter, its cache and its service keeps its type.
THEOREM TypeCorrect == Spec => []TypeOK
<1>1. FP!TypeOK => F!TypeOK
  BY DEF FP!TypeOK, F!TypeOK, FP!AuthzHttp, F!AuthzHttp, FP!NoToken, F!NoToken,
     FP!Answers, F!Answers, FP!Verdicts, F!Verdicts, FP!Replies, F!Replies
<1>2. CP!TypeOK => C!TypeOK
  BY DEF CP!TypeOK, C!TypeOK, CP!ShardIds, C!ShardIds, CP!CacheShard, C!CacheShard,
     CP!CacheEntry, C!CacheEntry, CP!PCs, C!PCs, CP!Ops, C!Ops, CP!MaxTries, C!MaxTries
<1>3. SystemInv => TypeOK
  BY <1>1, <1>2
  DEF SystemInv, PartsInv, StreamsInv, CacheInv, CP!TypeInv, ServiceType, TypeOK
<1>. QED  BY <1>3, SystemHolds, PTL

\* Whatever the workers interleave, what a stream replays is what the service decided
\* for a request with its key (lib.rs:173, 194, 359), and the stream acts on it.
THEOREM ReplaysAreGenuine == Spec => []ReplayIsGenuine
<1>1. SystemInv => ReplayIsGenuine
  BY DEF SystemInv, GenuineInv, ReplaysGenuine, Genuine, ReplayIsGenuine
<1>. QED  BY <1>1, SystemHolds, PTL

\* A policy that has been replaced is replayed no more once timeout_ms + ttl_ms + MaxStall
\* have passed since, whatever settings the streams have (lib.rs:439-457, 464-467).
THEOREM StalenessIsBounded == Spec => []StalenessBounded
<1>1. ASSUME SystemInv, NEW r \in Streams, hit[r] # Absent,
             hit[r].decision.policy < policy
      PROVE  replayed_at[r] < superseded_at[hit[r].decision.policy]
                                + Timeout[hit[r].by] + Ttl[hit[r].by] + MaxStall
  <2>. DEFINE e == hit[r]
              q == e.by
              p == e.decision.policy
  <2>1. /\ e \in CP!CacheEntry /\ decided[q] = e.decision
        /\ e.expires_at_ms <= sent_at[q] + Timeout[q] + Ttl[q]
        /\ looked_at[r] < e.expires_at_ms
        /\ replayed_at[r] <= looked_at[r] + MaxStall
    BY <1>1 DEF SystemInv, GenuineInv, ReplaysGenuine, Genuine
  <2>2. q \in Streams /\ decided[q] # Undecided /\ p \in Policies
        /\ e.expires_at_ms \in Nat
    BY <2>1, UndecidedAssumption DEF CP!CacheEntry, Decisions
  <2>3. sent_at[q] <= superseded_at[p]
    BY <1>1, <2>1, <2>2 DEF SystemInv, ServiceInv, DecidedOnce
  <2>4. /\ sent_at[q] \in Nat /\ superseded_at[p] \in Nat /\ looked_at[r] \in Nat
        /\ replayed_at[r] \in Nat
        /\ Timeout[q] \in Nat /\ Ttl[q] \in Nat /\ MaxStall \in Nat
    BY <1>1, <2>2, TimeoutAssumption, CacheAssumption, MaxStallAssumption
    DEF SystemInv, PartsInv, ServiceType, CacheInv, CP!TypeInv, CP!TypeOK
  <2>. HIDE DEF e, p, q
  <2>5. replayed_at[r] < superseded_at[p] + Timeout[q] + Ttl[q] + MaxStall
    BY <2>1, <2>2, <2>3, <2>4
  <2>. QED  BY <2>5 DEF e, p, q
<1>2. SystemInv => StalenessBounded
  BY <1>1 DEF StalenessBounded
<1>. QED  BY <1>2, SystemHolds, PTL
-----------------------------------------------------------------------------
\* Composed with each other and with the service, the streams still behave as
\* FilterStream has them, and the cache as SharedCache: what is proved of each alone
\* holds in the filter (they meet at lib.rs:174, 195, 364, 582, 585).
THEOREM PartsBehave == Spec => FP!Spec /\ CP!Spec
<1>1. Init => FP!Init /\ CP!Init
  BY DEF Init, F!Init, FP!Init, F!NoToken, FP!NoToken, C!Init, CP!Init,
     C!ShardIds, CP!ShardIds, C!EmptyShard, CP!EmptyShard
<1>2. SystemInv /\ [Next]_vars => [FP!Next]_(FP!vars) /\ [CP!Next]_(CP!vars)
  BY StreamsMove, CacheMoves DEF SystemInv
<1>. QED  BY <1>1, <1>2, SystemHolds, PTL DEF Spec, FP!Spec, CP!Spec

\* For one: a purge that landed is final, and a request goes upstream allowed only.
THEOREM FilterPurgesAndFailsClosed ==
  Spec => [](CP!LandedPurgeIsFinal /\ FP!FailsClosed)
BY PartsBehave, StreamFacts, CacheFacts, CP!PurgeFinal, FP!FailClosed, PTL
=============================================================================
