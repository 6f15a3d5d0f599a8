# TLA+ models of cextauthz

These modules model `cextauthz`, the Envoy Proxy-Wasm filter that has each HTTP
request authorized by an `ext_authz` gRPC service and may cache the decisions in
shared data. They cover the request flow of a stream, the decision cache that
the workers of a proxy share, both together with the service and the clock, and
the parts around them (classification of responses, cache keys, the invalidation
endpoint, configuration). TLC checks each module on small
instances; TLAPS proves every invariant, action property and refinement the
passing runs check, for all values of the constants.

## The system

| Component | State | Operations | Made correct by |
| --- | --- | --- | --- |
| Root context (`lib.rs` AuthzRoot, `config.rs`) | settings in force | `on_configure`, `create_http_context` | only validated settings reach a stream; a rejected configuration changes nothing |
| Stream context (`lib.rs` AuthzHttp), one per request | `dispatched`, `is_invalidation_request`, `body_buf`, `body_seen`, `grpc_token`, `cache_key` | `on_http_request_headers`, `on_http_request_body`, `on_grpc_call_response` | one conclusion per request; the whole body checked; too large bodies and failures stopped; nothing left hanging |
| Decision cache (`lib.rs` get/store/purge, `cache.rs`) | 16 shards in shared data, each encoded entries and a version | `get_cache_entry`, `store_cache_entry`, `purge_cache_key`, `purge_all_cache_shards` | quota; nothing lost by one writer is brought back by another; a purge that landed is final; bounded staleness |
| Eviction (`cache.rs`) | a decoded shard | `evict_expired`, `enforce_quota`, `shard_quota` | the nearest expiries go first, ties by key; the quota is never exceeded |
| Cache key (`cache.rs`, `request.rs`, header loop of `lib.rs`) | none | `compute_cache_key`, `into_check_request` | equal keys only for requests the service is asked the same about |
| Decision (`decision.rs`, conversions of `cache.rs`) | none | `from_check_response`, `apply_request_header_mutations`, the conversions | a hit does what the answer did; routing headers survive |
| Invalidation endpoint (`invalidation.rs`, `lib.rs`) | none of its own | `handle_invalidation_request` | 401 and 400 purge nothing, 204 means purged |

The proxy runs one VM per worker thread. The callbacks of the streams of one
worker never overlap; those of different workers do, and meet in the shared
data, which is one per process. There is no lock: a writer reads a shard and its
version (`get_shared_data`), edits a copy and writes it back with the version
(`set_shared_data`, refused if the version has moved), three attempts at most.
That, the callbacks that may come in any cut and go on after a stream is settled,
the five ways a call can end and the time that passes in all of this are the
hard parts. `PROJECT.json` lists the hazards at their lines.

## The modules

`ShardOps` — the pure functions of a shard. A key is the hash it is formatted
from (sixteen hexadecimal digits, so strings order as the hashes do); a shard is
a function that is `Absent` where the map has no entry. `enforce_quota` is given
in closed form: what fewer than `quota` entries outlive stays. `% NumShards` is
taken of the whole hash; the code takes it after a cast to the 32-bit `usize` of
wasm32, the same for any divisor of 2^32 such as 16.

`QuotaLoop` — `enforce_quota` as the loop it is, against that closed form.

`DecisionCache` — what the cache promises, with no shards, versions or retries:
each stream adds at most one entry, any step may lose entries, a lookup answers
with an entry that is there or with nothing. It does not promise to keep
anything: entries may be lost to expiry, the quota, purges and races.

`SharedCache` — `get_cache_entry`, `store_cache_entry`, `purge_cache_key` and
`purge_all_cache_shards` of all streams. A step is what lies between two host
calls: the clock reading and the shard reading of a lookup (`LookupBegin`, then
`LookupHit` or `LookupMiss`); of a store the first clock reading (`StoreBegin`),
the shard reading (`StoreGet`), the second clock reading with the eviction, the
insertion and the quota (`StoreEdit`), and the conditional write (`SetAccepted`,
`SetRefused`, or `GiveUp` after the third refusal). The purges share the last
three. `MaxEntries` and `Ttl` are given per stream, because a stream keeps the
settings it was created with: after `on_configure`, streams of two
configurations work on the same shards, whose names say nothing of either. The
history variables `gave_up`, `doomed` (the entries a purge found when it was
called) and `limit` (`max_entries` of the stream that last stored to a shard,
against which `QuotaRespected` states the share without `shard_quota`) and the
field `by` of an entry are there for the properties.

`Gate` — what the filter promises of each request, with no callbacks, bodies or
calls: it is judged at most once and concluded at most once, in the way its
judgement calls for (an allowance forwards, an error of the call is a 503, ...);
invalidations are not judged.

`FilterStream` — the callbacks of the stream contexts, one action each, cut only
where they enter the cache functions, whose results are left open. A body is the
sequence of its byte positions, so that a byte taken twice or left out shows.
`MaxBody` and `CacheEnabled` are per stream, as above. The JSON and the secret
of an invalidation are classes of requests here. The refinement to `Gate` forgets
everything but the judgement and the conclusion.

`FilterSystem` — `FilterStream` and `SharedCache` composed by INSTANCE: the
callback of a stream that is `inside` the cache takes that stream's steps of the
cache and holds its worker until it returns. Added are the service, which
decides by a policy with a version, the deadline of a call, and the history of
when a cached decision was replayed (`replayed_at`): the staleness bound is about
that moment and not about the clock reading the lookup judged the entry by.

`RequestHeaders` — the loop over the header map and the CheckRequest it ends in:
names in lower case, the last of a repeated name kept, `x-request-id` and the
pseudo headers set apart; method, path, query, host and scheme are parts of their
own, in the CheckRequest as in the key. The loop is a recursive function, `Collected`, of the
number of headers handled. `Said` states for the properties, without the loop,
what a request says of a name. `RequestKey` and `Invalidation` build on it.

`RequestKey` — the CheckRequests and keys of two streams, each with the header
policy of its own configuration. The order in which a HashMap is iterated is a
choice of its own for each map (`SetToSeqs`); `Canonical` is the ascending
sequence of its names, of which there is exactly one (`CanonicalSorts`).

`Invalidation` — the endpoint from the raw request to the shards: which requests
it takes (method and path, the query split off), the secret, the message, the
shard a key text leads to (`shard_id_from_key` reads the number the text
denotes) and the entry it removes (which must have that very text). A purge is
one step here that lands or does not; when it lands is `SharedCache`'s matter.
The message is taken to have arrived whole, within the limit; `FilterStream` has
the rest.

`Decision` — a CheckResponse (the messages of `pb.rs`, with what may be absent
or outside its enumeration) to a decision, its effects on the request headers
or as a local reply, and the same effects from the cache entry. The loops over
headers and mutations are recursive functions (`Filtered`, `Applied`). The names
that may not be removed are tested twice, when the decision is made
(`is_removable_header_name`) and when it is applied (`may_be_removed`); either
test alone would do.

`PluginConfig` — from the configuration (by class, and for JSON as an object
with any of the fields present) to the settings of a stream. What it shows are
the assumptions the other modules make of `MaxEntries`, `Ttl`, `MaxBody` and
`Timeout`.

The `MC*` modules only give values for TLC; the `*Proofs` modules hold theorems.
Definitions named `X_Something` beside an `X`, marked "Fault", are versions of
`X` a plausible mistake would give; each property is known to fail with one of
them.

## Taken from outside the repository

The proxy, the SDK, the service and the clients are modelled as the code uses
them: a missing shard reads as (None, None); version None is not compared; each
write raises the version (32 bits in the host; wrapping is left out); a call is
answered within `timeout_ms`, with a deadline status if need be; `body_size`
counts the buffered bytes so far; a paused request goes on being delivered; the
contexts of aborted streams are destroyed between two callbacks. Requests have
no trailers. The clock does not run backwards. The 64-bit hash of a key is
injective. `ForeignKey` stands for any `purge_key` target that is not the text
of a key: another spelling of one lies in the shard of its number, what is no
number in shard 0, and no entry answers to either (`Invalidation` has the
texts). A declared content-length is the true one, as the proxy enforces; one
that `usize` cannot hold is not parsed and counts as undeclared. A worker inside `get_cache_entry`
is held up between its clock reading and its shard reading for at most
`MaxStall`: the code does not bound this, so the staleness bound has it as a term.
The clock reading that fixes an entry's expiry is one step with the delivery of
the answer, which comes before the deadline of the call: a delay between the two
would add to the bound likewise. Encoding a
message into a vector cannot fail, and the branches for it are left out; a shard
that does not decode cannot occur, as only this filter writes the shards' names.

## The runs

| Run | Instance | Shows |
| --- | --- | --- |
| `quota_loop` | 4 keys, 4 expiries, all shards and quotas | the loop ends, in the closed form |
| `shared_cache` | 3 streams, 3 keys in 2 shards, clock to 2; two streams with `max_entries` 3 and ttl 2, one with 2 and 1 | quota, landed purges, what a store may drop, refinement |
| `contention` | 5 streams, 1 key, no time | the same with loops that give up |
| `purge_204` | 5 streams, 2 keys in one shard, one purge at most | the divergence below |
| `filter_stream` | 2 streams on one worker, one with a cache and limit 2, one without and limit 3; bodies of 0, 2, 3, 4 bytes, declared or not, every kind of request; fairness | refinement of `Gate`, nobody stranded, every complete request concluded, whole body, 413, fail closed |
| `filter_system` | 3 streams on 3 workers, two checks and a purge, 1 key, clock to 2, timeout and ttl 1, 2 policies | replays are genuine, staleness is bounded |
| `filter_system_reconf` | 2 checks that are allowed, 2 keys in one shard, clock to 4; one stream of an earlier configuration, with ttl 2, which may be aborted; `MaxStall` 1 | replays are genuine to the key; the staleness bound is the writer's, not the reader's, and is reached |
| `filter_system_live` | 3 streams, two checks and a purge, any of which may be aborted, 1 key, no time | liveness with the real retry loops |
| `decision` | all single options, all pairs of effective ones, removals, statuses -1 to 600 | hits act as answers; headers and status |
| `request_key` | pairs of requests of up to 2 headers, or of two methods, paths, hosts, schemes, bodies and three queries, each under any of 3 policies | keys equal when they may and must be |
| `invalidation` | 3 requests, 2 hashes in 2 shards, 8 messages, 5 ways to show a secret | only authorized purges; replies as documented |
| `plugin_config` | fields missing, at and beyond each limit, any sequence | only valid settings, no mixtures |

Why the bounds are enough. A third refusal needs three foreign writes to the
shard of one loop, and a store that is undone would need a writer more: hence
five streams in `contention`. With three streams and two shards every order of a
reader, a writer and a purge of both shards occurs, and with the shares 2 and 1
of `max_entries` 3 and 2, of which the first is rounded up, a store of either configuration evicts, the newer one several
entries at once and, by its shorter ttl, its own. An entry of ttl 1 stored at 0
is past its expiry at 2 and can be replaced. The body limits 2 and 3 separate an
empty body, one cut in two, one at the limit and one beyond it; two streams on
one worker are enough for a callback to wait for another. In `filter_system` the
staleness bound is timeout + ttl = 2, in `filter_system_reconf` it is 1 + 2 + 1
for what the older stream stored and 1 + 1 + 1 for the other: the clock reaches
them, and a bound one lower is violated in the second run. `MayLeave` is there for
TLC only: no stream is aborted in `filter_system`, all may be in
`filter_system_live`. The restrictions to one purge and to allowances are
specifications of the `MC` modules. With three streams a decision can be replayed after a purge,
and in `filter_system_live` a write can be refused once and is tried again; that
a loop has used up its attempts and what it stored is replayed besides takes
four streams or more and time, beyond these runs. There `contention` has the loops
that give up, and the theorems (`ReplaysAreGenuine`, `StalenessIsBounded`) have no
bound on the streams. In `invalidation` the
requests differ in one respect at a time from a good one (spelling, number and
order of the secret headers; version, operation, key; method, path, query), and
with three of them two decisions are stored before a purge, or two purges follow
a store. The clock (`MaxTime`) and the policies (`MaxPolicy`) are bounded by
guards; everything else is finite because a stream enters one cache function
once. Streams are interchangeable in the runs with a SYMMETRY, none of which
checks liveness. Deadlock is not checked: all streams may be done and the clock
at its bound.

Fairness. `FilterStream` and `FilterSystem` assume weak fairness of two things
per stream. A callback that is inside the cache goes on: it is straight-line code
on a worker that nothing else occupies. And an open call is answered: the proxy
reports a deadline after `timeout_ms`, if the service does not answer. Nothing
is assumed of clients, which may stop sending or abort.

## A divergence from the documentation

README.md:120 says "Successful invalidation returns `204`".
The purge functions return nothing, and after three refused writes they return
without having purged (lib.rs:597-612, 624-632); 204 is sent regardless
(lib.rs:589). Run `purge_204` gives a shortest such behaviour: three streams store
under another key of the same shard, each between a read and the write of the
purge, and the entry to be purged is still there when 204 is sent. What does hold,
and is proved, is `LandedPurgeIsFinal`: if no loop of the purge gave up, what it
found is gone for good.

## The proofs

| Theorem | States |
| --- | --- |
| `SharedCacheProofs!TypeCorrect` | `Spec => []TypeOK` |
| `SharedCacheProofs!QuotaSafe` | `Spec => []QuotaRespected` |
| `SharedCacheProofs!StoreKeeps` | `Spec => StoreKeepsOthers` (action property) |
| `SharedCacheProofs!ImplementsDecisionCache` | `Spec => ActsAsDecisionCache` (refinement) |
| `SharedCacheProofs!PurgeFinal` | `Spec => []LandedPurgeIsFinal` |
| `QuotaLoopProofs!LoopCorrect` | `Spec => []LoopReturnsClosedForm` |
| `SharedCacheProofs!LostStaysLost` | `Spec => D!NoReturn` (action property of the abstract cache) |
| `FilterStreamProofs!TypeCorrect` | `Spec => []TypeOK` |
| `FilterStreamProofs!ImplementsGate` | `Spec => ActsAsGate` (refinement) |
| `FilterStreamProofs!NobodyStranded` | `Spec => []NotStranded` |
| `FilterStreamProofs!FailClosed` | `Spec => []FailsClosed` |
| `FilterStreamProofs!OversizedFailClosed` | `Spec => []OversizedFailsClosed` |
| `FilterStreamProofs!WholeBodyChecked` | `Spec => []ChecksTheWholeBody` |
| `FilterSystemProofs!TypeCorrect` | `Spec => []TypeOK` |
| `FilterSystemProofs!PartsBehave` | `Spec` implies the specifications of both parts |
| `FilterSystemProofs!ReplaysAreGenuine` | `Spec => []ReplayIsGenuine` |
| `FilterSystemProofs!StalenessIsBounded` | `Spec => []StalenessBounded` |
| `FilterSystemProofs!FilterPurgesAndFailsClosed` | two theorems of the parts, of the whole |
| `RequestProofs!TypeCorrect` | `Spec => []TypeOK` of `Invalidation` |
| `RequestProofs!PurgesAuthorized` | `Spec => []OnlyAuthorizedPurges` |
| `RequestProofs!RepliesDocumented` | `Spec => []RepliesAsDocumented` |
| `RequestProofs!KeysIdentifyChecks` | `PairSpec => []EqualKeysEqualChecks` of `RequestKey` |
| `RequestProofs!RequestIdIgnored` | `PairSpec => []RequestIdSharesDecision` of `RequestKey` |
| `DecisionProofs!HitsMatchAnswers` | `Spec => []ReplayMatchesAnswer` |
| `DecisionProofs!RoutingProtected` | `Spec => []RoutingHeadersStay` |
| `DecisionProofs!AdditionsForwarded` | `Spec => []AdditionsArrive` |
| `DecisionProofs!StatusesValid` | `Spec => []ReplyStatusIsHttp` |
| `PluginConfigProofs!SettingsUsable` | `Spec => []StreamsGetUsableSettings` |
| `PluginConfigProofs!SettingsWhole` | `Spec => []SettingsAreOfOneConfig` |

They hold for any finite set of keys that are numbers, any number of shards, any
set of streams on any workers, any requests, and for each stream its own
`max_entries`, `ttl_ms`, `timeout_ms` and `max_bytes` above 0: the named
assumptions of the modules, which `PluginConfig` shows the validation to
establish. Those about requests and decisions hold for any header names, with any
map to lower case that leaves lower case alone and keeps pseudo headers apart,
any order of the names, any requests with any number of headers, any policies
and any CheckResponse.

`ShardOpsProofs` has the lemmas about the pure functions: both trimming functions
return sub-shards, `enforce_quota` leaves at most the quota (the entries it keeps
are linearly ordered by eviction, so one of more than `quota` kept entries would
be outlived by `quota` others), what it drops was outlived by a full quota, the
quota is the share rounded up (`QuotaIsShare`), and a shard has finitely many
entries.

*Quota.* The inductive part is that each shard is within its share of the `limit`
its last store left, and every copy about to be written (`pc = "set"`) within its
share of what will be the limit: a refused writer may hold its copy for any number of steps. That a purge
keeps a shard within the limit needs that its copy is part of the shard it
replaces, which the version guarantees.

*What a store drops.* The copy a store is about to write is the edit, at some
earlier time, of what the shard still holds if the host accepts it (`EditInv`).
What the edit left out had expired then, hence now, or was outlived by a full
quota of what is written.

*Refinement of the cache.* The mapping takes the union of the shards and the
streams whose store has returned. `ActsAsDecisionCache` is not inductive: that a
write adds nothing but the writer's entry needs to be known of the copy.
`CopyInv` says that of a copy the host would accept, everything but the writer's
own new entry is in the shard; that a stream never holds a version the shard has
not had; and that a shard without a version is empty, so that a copy made of it
holds nothing but the writer's entry, which covers the comparison the host does
not make. `ControlInv` ties the place in the code to the operation, shard and
entry. With these each accepted write maps to `Fill` or `Forget`, lookups to
`Answer` or a stutter, and all other steps to stutters.

*Purges.* `EntryInv` says that an entry lies in the shard of its key and that
the stream it names stored it there and has returned; `DoomedInv` that what a
purge found belongs to such streams, so that it can never be added again, and
that the copy a purge writes is free of it; `LandedInv` that the shards a
purge has passed without giving up hold nothing of it.

*The loop.* The invariant is that the closed form of the shard the loop has
left is that of the shard it was given: removing the nearest expiry from a shard
over the quota does not change which entries fewer than `quota` others outlive.
When the loop is over, the shard is within the quota and its own closed form.

*Streams.* None of the properties of `FilterStream` is inductive, as `dispatched`
alone does not say what is still to come. `LifeInv` says that each stream is in
exactly one of six phases (not dispatched, looking up, waiting for its call,
storing, purging, concluded), each with the values of `inside`, `call`, the
token, `verdict` and `outcome` that go with it, and adds when the headers may
have gone on (`Passing`) and that an oversized request has not got past the
first phase but by a 413 (`Sized`). Each action moves a stream from one phase to
another, and each such move is a step of `Gate` or a stutter, from which the
refinement follows; `NotStranded`, `FailsClosed` and `OversizedFailsClosed` are
read off the phases. `GoneInv` adds that a destroyed context is in no cache
function. `BodyInv` says that until the dispatch the buffer is exactly the bytes
announced so far, if none was withheld.

*The whole.* Every step of `FilterSystem` is, for either part, one of its steps or
a stutter. This is not by construction: the composition has to know that the
stream that takes a step of the cache is `inside` it (`Linked`), and that a
replayed verdict is one. `SystemInv` joins the invariants of both parts with
this link and with what is known of the service: a call is answered within its
timeout, and a decision was made by the policy of a moment between dispatch and
now (`ServiceInv`); and what is about to be stored, what is cached and what was
replayed is what the service decided for the stream it names, under the same
key, with an expiry no later than dispatch + timeout + ttl (`GenuineInv`). A lookup
under way has read the clock at most `MaxStall` ago (`LooksInTime`, of the
service's part), and what it finds fresh had not expired then: so the moment of
the replay is before dispatch + timeout + ttl + `MaxStall`. From
it follow both properties and, as the parts' specifications are implied
(`PartsBehave`), all their theorems.

*Induction over data.* The library's induction theorems take a predicate, which
the provers cannot instantiate. What stands in for them is `Induction`: a *set* of
numbers that has 0 and, with each number below a bound, the next, has all up to
the bound; for a set has nothing to instantiate. It rests on `LeastNumber`, which
takes a minimal one among the initial segments of the elements, finite sets whose
strict inclusion is well founded. That a recursive function is what its equation
says is proved the same way, as the equation has a solution on every prefix
(`CollectedStep`, and `Recurrence` in `DecisionProofs`).

*The headers.* `LastKept` is the invariant of the loop over the headers: of each
name that is copied the parts have the last value so far. At the end
(`CheckRequestSays`) the CheckRequest has, of each copied name, what the request
says of it, and nothing else: this is what lets the properties speak of requests
and not of the loop.

*The endpoint.* `OnlyAuthorizedPurges` and `RepliesAsDocumented` are inductive
together with `TypeOK` and `Collecting`: what the callbacks hold of a stream is the
CheckRequest of what was sent, and nobody is answered before it is there. The
steps then say what the properties do, as the parts show the secret exactly when
the request does (`AuthorizedShowsSecret`), a message is accepted exactly when it
makes sense (`ParseMakesSense`) and a removed text lies in the shard that was
searched.

*The keys.* A key is that of the CheckRequest for one order of iteration
(`KeyInv`). Sorting has a result (`SortExists`: each name goes to the place given
by the number of names up to it, a bijection by the pigeonhole principle) and only
one (`AscendingPlaces`: in an ascending sequence of all names every one is at
that place), so the hashed pairs are those of the map, each once (`HashedPairs`),
and do not depend on the order (`CanonicalSorts`). Equal keys then have equal
parts (`InputsTell`) and equal pairs; and requests that say the same but for their ids have, by
`CheckRequestSays`, the same copied headers.

*Decisions.* `OneEffect` says that what became of either request is the effect of
the one response. A mutation survives the conversion to its code and back, and as
every code that was written is known nothing is dropped (`MutationsRoundTrip`,
`OnlyAll`). By induction over the mutations, a name that may not be removed keeps
a value (`ProtectedNameStays`), and a value that was appended or has overwritten
stays as long as nothing later overwrites or removes the name (`ValueStays`),
which no removal can, as they come first (`AllowMutations`).

*Configuration.* What `from_json` accepts is usable (`ValidIsUsable`), and
whatever order the configurations come in, `configured = TRUE` means the
settings in force are of an accepted one.

Only model-checked: liveness (`EndedIsConcluded` of the streams and of the whole,
and the end of the quota loop, `LoopTerminates`), which is outside what the provers
here can do under fairness; and, being violated, `ReturnedPurgeHasPurged`.

## Not modelled

Logging and `on_log`, protobuf encoding, JSON syntax, the text of replies,
`build.sh`, the workflows and the integration environment. Hash collisions
(cache.rs:158) are a matter of probability. Requests that end with trailers
(lib.rs:294): `on_http_request_trailers` is not overridden, and what becomes of
them depends on the SDK's default callback and on the host, which are not in
this repository.

## Plan

Done: all components listed above as modelled, their runs, and the proofs of
everything a passing run checks as an invariant, an action property or a
refinement.

Left, in this order:

1. That a loop of the cache ends after three attempts and the quota loop after as
   many rounds as it has entries to drop, as bounds that are invariants: the safety
   part of the liveness that is only checked.
2. A host whose versions wrap (32 bits), to say how far apart two writes with
   the same version must be.
