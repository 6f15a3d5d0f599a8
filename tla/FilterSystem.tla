---------------------------- MODULE FilterSystem ----------------------------
(***************************************************************************)
(* The filter as a whole: the streams of FilterStream on their workers,    *)
(* the shared cache of SharedCache that their callbacks read and write,    *)
(* the authorization service behind the gRPC calls, whose policy changes   *)
(* while calls are under way, and the clock.                               *)
(*                                                                         *)
(* A stream's callback that enters the cache holds its worker until the    *)
(* cache function has returned; streams of other workers go on meanwhile.  *)
(***************************************************************************)
EXTENDS Naturals, Sequences, FiniteSets

CONSTANTS
  Streams, WorkerOf, Requests, MaxBody, CacheEnabled,             \* FilterStream
  Keys, NumShards, MaxEntries, Absent, ForeignKey, Ttl, MaxTime,  \* SharedCache
  Timeout,     \* stream -> timeout_ms of its settings
  MaxStall,    \* how long a worker may be held up inside a lookup
  MayLeave,    \* the streams whose client may go away: all, or a bound for TLC
  MaxPolicy,   \* bound on the policy changes
  Undecided    \* "the service has not looked at the call"

ASSUME TimeoutAssumption == Timeout \in [Streams -> Nat \ {0}]   \* validate_timeout_ms
ASSUME MaxStallAssumption == MaxStall \in Nat
ASSUME MayLeaveAssumption == MayLeave \subseteq Streams
ASSUME MaxPolicyAssumption == MaxPolicy \in Nat

Policies == 0 .. MaxPolicy

\* What the service answers, and with it what the cache keeps: the verdict, and
\* the version of the policy it was made under.
Decisions == [verdict : {"allow", "deny"}, policy : Policies]
ASSUME UndecidedAssumption == Undecided \notin Decisions

VARIABLES
  req, opened, arrived, ended, alive, ctx, inside, lost, checked, call, verdict,
  passed, outcome,
  now, shared, pc, op, key, entry, shard_id, tries, cas, buf, looked_at, hit,
  gave_up, doomed, limit,
  policy,        \* the version the service decides by
  superseded_at, \* when each earlier version stopped being the current one
  decided,       \* what the service decided for each stream's call
  sent_at,       \* when the call was dispatched
  replayed_at    \* history: when a cached decision was replayed to the stream

F == INSTANCE FilterStream
C == INSTANCE SharedCache

\* What the two modules assume of their constants.
ASSUME StreamAssumption ==
  /\ Requests \subseteq [op : F!RequestOps, len : Nat, declared : BOOLEAN]
  /\ \A q \in Requests : q.op = "purge" => q.len > 0
  /\ MaxBody \in [Streams -> Nat \ {0}]
  /\ CacheEnabled \subseteq Streams
  /\ F!NoToken \notin Streams
ASSUME CacheAssumption ==
  /\ Keys \subseteq Nat /\ IsFiniteSet(Keys)
  /\ NumShards \in Nat \ {0}
  /\ Absent \notin C!CacheEntry
  /\ ForeignKey \notin Keys
  /\ MaxEntries \in [Streams -> Nat \ {0}]
  /\ Ttl \in [Streams -> Nat \ {0}]
  /\ MaxTime \in Nat

streamVars == <<req, opened, arrived, ended, alive, ctx, inside, lost, checked, call,
                verdict, passed, outcome>>
cacheVars  == <<now, shared, pc, op, key, entry, shard_id, tries, cas, buf,
                looked_at, hit, gave_up, doomed, limit>>
service == <<policy, superseded_at, decided>>
times   == <<sent_at, replayed_at>>
vars == <<streamVars, cacheVars, service, times>>

TypeOK ==
  /\ F!TypeOK /\ C!TypeOK
  /\ policy \in Policies
  /\ superseded_at \in [Policies -> 0 .. MaxTime]
  /\ decided \in [Streams -> Decisions \cup {Undecided}]
  /\ sent_at \in [Streams -> 0 .. MaxTime]
  /\ replayed_at \in [Streams -> 0 .. MaxTime]

Init ==
  /\ F!Init /\ C!Init
  /\ policy = 0
  /\ superseded_at = [p \in Policies |-> 0]
  /\ decided = [r \in Streams |-> Undecided]
  /\ sent_at = [r \in Streams |-> 0]
  /\ replayed_at = [r \in Streams |-> 0]
-----------------------------------------------------------------------------
(* The callbacks. *)

\* Fault: a denial is stored with the flag of an allowance.
StoredDecision_Allowed(r) == [decided[r] EXCEPT !.verdict = "allow"]

\* What the callback hands to store_cache_entry is what the service answered.
StoredDecision(r) == decided[r]

\* compute_cache_key: the key is the request's, any one here.
EnterCache(r) ==
  \/ /\ inside'[r] = inside[r]
     /\ UNCHANGED cacheVars
  \/ /\ inside'[r] = "lookup"
     /\ \E k \in Keys : C!LookupBegin(r, k)
  \/ /\ inside'[r] = "store"
     /\ C!StoreBegin(r, StoredDecision(r))
  \/ /\ inside'[r] = "purge"
     /\ \/ C!PurgeAllBegin(r)
        \/ \E k \in Keys : C!PurgeKeyBegin(r, k)
        \/ \E s \in C!ShardIds : C!PurgeForeignBegin(r, s)

\* The deadline of a call runs from its dispatch.
StartTimeout(r) ==
  /\ sent_at' = [sent_at EXCEPT ![r] =
                   IF call[r] = "none" /\ call'[r] = "open" THEN now ELSE @]
  /\ UNCHANGED replayed_at

Receive(r) ==
  /\ F!Received(r)
  /\ EnterCache(r)
  /\ StartTimeout(r)
  /\ UNCHANGED service

\* The verdict the service reached; or no verdict, whatever it has reached.
Answer(r) ==
  /\ \E answer \in F!Answers :
       /\ answer \in F!Verdicts =>
            decided[r] # Undecided /\ decided[r].verdict = answer
       /\ F!OnGrpcCallResponse(r, answer)
  /\ EnterCache(r)
  /\ UNCHANGED <<service, times>>

Abort(r) ==
  /\ r \in MayLeave
  /\ F!Abort(r)
  /\ UNCHANGED <<cacheVars, service, times>>

LookupHit(r) ==
  /\ C!LookupHit(r)
  /\ F!LookupHit(r, hit'[r].decision.verdict)
  /\ replayed_at' = [replayed_at EXCEPT ![r] = now]
  /\ UNCHANGED <<service, sent_at>>

LookupMiss(r) ==
  /\ C!LookupMiss(r)
  /\ F!LookupMiss(r)
  /\ StartTimeout(r)
  /\ UNCHANGED service

\* A store or purge takes its next step; when it has returned, so does the callback.
RunLoop(r) ==
  /\ inside[r] \in {"store", "purge"}
  /\ C!Advance(r)
  /\ IF pc'[r] = "done" THEN F!StoreReturns(r) \/ F!PurgeReturns(r)
     ELSE UNCHANGED streamVars
  /\ UNCHANGED <<service, times>>
-----------------------------------------------------------------------------
(* The service and the clock. *)

\* The service evaluates the request: any verdict, by the policy of the moment.
Decide(r, v) ==
  /\ call[r] = "open" /\ decided[r] = Undecided
  /\ decided' = [decided EXCEPT ![r] = [verdict |-> v, policy |-> policy]]
  /\ UNCHANGED <<streamVars, cacheVars, policy, superseded_at, times>>

ChangePolicy ==
  /\ policy < MaxPolicy
  /\ policy' = policy + 1
  /\ superseded_at' = [superseded_at EXCEPT ![policy] = now]
  /\ UNCHANGED <<streamVars, cacheVars, decided, times>>

\* timeout_ms: no call is still open when its deadline has passed.  (The clock
\* reading that fixes expires_at_ms is part of the step that takes the answer.)
InTime == \A r \in Streams : call[r] = "open" => now < sent_at[r] + Timeout[r]

\* A lookup reads the clock and then the shard, in one callback; other workers go
\* on in between, and so does the clock.  Nothing in the code bounds that time:
\* MaxStall is what the machine guarantees.
NoLongStall == \A r \in Streams : pc[r] = "look" => now < looked_at[r] + MaxStall

Tick ==
  /\ C!Tick /\ InTime /\ NoLongStall
  /\ UNCHANGED <<streamVars, service, times>>

CallbackGoesOn(r) == LookupHit(r) \/ LookupMiss(r) \/ RunLoop(r)

Next ==
  \/ Tick \/ ChangePolicy
  \/ \E r \in Streams :
       \/ Receive(r) \/ Answer(r) \/ Abort(r) \/ CallbackGoesOn(r)
       \/ \E v \in F!Verdicts : Decide(r, v)

Spec == Init /\ [][Next]_vars

\* As in FilterStream, with the cache functions' own steps in place of their
\* return: a callback runs on, and the proxy answers every open call.
Fairness ==
  \A r \in Streams : WF_vars(CallbackGoesOn(r)) /\ WF_vars(call[r] = "open" /\ Answer(r))

FairSpec == Spec /\ Fairness
-----------------------------------------------------------------------------
\* A cached decision replayed to a stream is one the service made for a request
\* with the same key, whatever failures, retries, purges and evictions happened
\* in between; what is not a verdict is never replayed (lib.rs:173, 194, 359).
ReplayIsGenuine ==
  \A r \in Streams : hit[r] # Absent =>
     LET q == hit[r].by
     IN  /\ decided[q] = hit[r].decision
         /\ key[q] = key[r]
         /\ verdict[r] = decided[q].verdict

\* How stale a replayed decision can be.  A policy that has been replaced is still
\* replayed for a while: its last calls may have been under way then, for up to
\* timeout_ms, and be stored after a purge; and a lookup judges an entry by a clock
\* it read up to MaxStall earlier (lib.rs:439-457).  But timeout_ms + ttl_ms + MaxStall
\* after the replacement it is replayed no more.  It is the settings of the stream
\* that stored the decision that count: a shorter ttl in the settings of the
\* reader does not shorten it (lib.rs:445, 464-467).
StalenessBounded ==
  \A r \in Streams : hit[r] # Absent =>
     LET p == hit[r].decision.policy
         q == hit[r].by
     IN  p < policy =>
           replayed_at[r] < superseded_at[p] + Timeout[q] + Ttl[q] + MaxStall

\* A request received in full is concluded, now that the cache functions are the
\* real ones: a store or a purge whose write was refused because of another worker's
\* reads again and tries again, and lets its callback end (lib.rs:469, 597, 624).
EndedIsConcluded == F!EndedIsConcluded
=============================================================================
