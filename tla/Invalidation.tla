---------------------------- MODULE Invalidation ----------------------------
(***************************************************************************)
(* The invalidation endpoint, from the raw request to the shards: which    *)
(* requests it takes, whose purges it accepts, and what they remove        *)
(* (src/invalidation.rs, src/lib.rs handle_invalidation_request and        *)
(* invalidation_authorized, src/cache.rs shard_id_from_key).               *)
(*                                                                         *)
(* Here a key is the text it is: purge_key compares texts, while the shard *)
(* is found by the number a text denotes.  A purge or a store is one step, *)
(* which may also end without effect; SharedCache has its steps and says   *)
(* when that is.  Entries that expire or are evicted are left out.         *)
(***************************************************************************)
EXTENDS RequestHeaders

CONSTANTS
  Streams,
  Requests,    \* what clients send: see RequestHeaders; the body is a message
  Secrets,     \* invalidation.secret, "" when it is not configured
  Hashes,      \* the 64-bit hashes of the requests in use
  NumShards,   \* NUM_SHARDS
  NotJson      \* any body that serde does not read as an InvalidationRequest

INVALIDATION_PATH          == "/_cextauthz/cache/invalidate"
INVALIDATION_SECRET_HEADER == "x-cextauthz-invalidation-secret"
MESSAGE_VERSION            == 1

\* It does not start with ":".
ASSUME SecretHeaderAssumption == INVALIDATION_SECRET_HEADER \notin PseudoNames

ASSUME HashesAssumption    == Hashes \subseteq Nat
ASSUME NumShardsAssumption == NumShards \in Nat \ {0}

\* A key text: with or without "cache:", and then the sixteen lower-case digits
\* of a hash (exact), another spelling of the number (upper case, no leading
\* zeros, a sign), or what from_str_radix rejects (junk).
KeyTexts == [prefixed : BOOLEAN, digits : {"exact", "respelled", "junk"}, hash : Hashes]

\* Fault: the hash is formatted without leading zeros.
KeyOf_Unpadded(hash) == [prefixed |-> TRUE, digits |-> "respelled", hash |-> hash]

\* compute_cache_key formats the hash.
KeyOf(hash) == [prefixed |-> TRUE, digits |-> "exact", hash |-> hash]

ShardIds == 0 .. NumShards - 1

shard_id_from_key(key) ==
  IF key.prefixed /\ key.digits # "junk" THEN key.hash % NumShards ELSE 0

\* A body, as serde reads it; key may be missing or null, and comes with any op.
\* NotJson is also a body with an unknown op or a version that is not a u32.
InvalidationRequest ==
  [version : Nat, op : {"purge_key", "purge_all"}, key : {<<>>} \cup {<<t>> : t \in KeyTexts}]

ASSUME RequestsAssumption ==
  \A q \in Requests : /\ q.headers \in HeaderSeqs
                      /\ q.body = NotJson \/ q.body \in InvalidationRequest

validate(request) ==
  /\ request.version = MESSAGE_VERSION
  /\ request.op = "purge_key" => request.key # <<>> /\ request.key[1].prefixed

parse(bytes) == bytes # NotJson /\ validate(bytes)
-----------------------------------------------------------------------------
VARIABLES
  secret,   \* the secret in the settings of each stream
  sent,     \* the request of each stream
  parts,    \* what on_http_request_headers has collected of it
  reply,    \* how the filter answered: a status, or "checked" by the service
  shards,   \* shard id -> the key texts of its entries
  known     \* history: the keys whose decisions have been stored

vars == <<secret, sent, parts, reply, shards, known>>

\* The texts entries have, whatever texts purges name.
EntryTexts == [prefixed : {TRUE}, digits : {"exact"}, hash : Hashes]

TypeOK ==
  /\ secret \in [Streams -> Secrets]
  /\ sent \in [Streams -> Requests]
  /\ reply \in [Streams -> {"none", "checked", "204", "400", "401"}]
  /\ shards \in [ShardIds -> SUBSET EntryTexts]
  /\ known \subseteq EntryTexts

Init ==
  /\ secret \in [Streams -> Secrets]
  /\ sent \in [Streams -> Requests]
  /\ parts = [r \in Streams |-> <<>>]
  /\ reply = [r \in Streams |-> "none"]
  /\ shards = [s \in ShardIds |-> {}]
  /\ known = {}

\* on_http_request_headers; the body is collected in module FilterStream.
OnHttpRequestHeaders(r) ==
  /\ parts[r] = <<>>
  /\ parts' = [parts EXCEPT ![r] = <<check_request(sent[r])>>]
  /\ UNCHANGED <<secret, sent, reply, shards, known>>

\* Fault: the method is not looked at.
is_invalidation_request_AnyMethod(p) == p.path = INVALIDATION_PATH

is_invalidation_request(p) == p.method = "POST" /\ p.path = INVALIDATION_PATH

\* Fault: an empty secret is a secret like any other, and no header an empty one.
invalidation_authorized_EmptySecret(p, configured) ==
  (IF INVALIDATION_SECRET_HEADER \in DOMAIN p.headers
   THEN p.headers[INVALIDATION_SECRET_HEADER] ELSE "") = configured

invalidation_authorized(p, configured) ==
  /\ configured # ""
  /\ INVALIDATION_SECRET_HEADER \in DOMAIN p.headers
  /\ p.headers[INVALIDATION_SECRET_HEADER] = configured

\* The end of the request has been reached, and nobody has answered it yet.
Pending(r) == parts[r] # <<>> /\ reply[r] = "none"

Answer(r, status) ==
  /\ reply' = [reply EXCEPT ![r] = status]
  /\ UNCHANGED <<secret, sent, parts, known>>

\* dispatch_check_request, for a request of any hash; when the service has decided,
\* the decision is stored or (a failure, no cache, three refusals) is not.
Check(r, hash) ==
  /\ Pending(r) /\ ~is_invalidation_request(parts[r][1])
  /\ reply' = [reply EXCEPT ![r] = "checked"]
  /\ LET key == KeyOf(hash)
     IN  \/ /\ shards' = [shards EXCEPT ![shard_id_from_key(key)] = @ \cup {key}]
            /\ known' = known \cup {key}
         \/ UNCHANGED <<shards, known>>
  /\ UNCHANGED <<secret, sent, parts>>

Unauthorized(r) ==
  /\ Pending(r) /\ is_invalidation_request(parts[r][1])
  /\ ~invalidation_authorized(parts[r][1], secret[r])
  /\ Answer(r, "401") /\ UNCHANGED shards

\* Accepted as a purge: the secret comes first, then the message is read.
Accepted(r) ==
  /\ Pending(r) /\ is_invalidation_request(parts[r][1])
  /\ invalidation_authorized(parts[r][1], secret[r])

Malformed(r) ==
  /\ Accepted(r) /\ ~parse(parts[r][1].body)
  /\ Answer(r, "400") /\ UNCHANGED shards

\* Fault: the entry is found by its number, not its text.
Remaining_ByHash(held, key) == {t \in held : t.hash # key.hash}

\* shard.entries.remove(cache_key)
Remaining(held, key) == held \ {key}

\* The writes of a purge were accepted by the host ...
PurgeKey(r) ==
  /\ Accepted(r) /\ parse(parts[r][1].body) /\ parts[r][1].body.op = "purge_key"
  /\ LET key == parts[r][1].body.key[1]
     IN  shards' = [shards EXCEPT ![shard_id_from_key(key)] = Remaining(@, key)]
  /\ Answer(r, "204")

PurgeAll(r) ==
  /\ Accepted(r) /\ parse(parts[r][1].body) /\ parts[r][1].body.op = "purge_all"
  /\ \E landed \in SUBSET ShardIds :   \* ... each shard is written on its own
       shards' = [s \in ShardIds |-> IF s \in landed THEN {} ELSE shards[s]]
  /\ Answer(r, "204")

\* ... or all three refused: the client is told 204 all the same.
PurgeKeyRefused(r) ==
  /\ Accepted(r) /\ parse(parts[r][1].body) /\ parts[r][1].body.op = "purge_key"
  /\ Answer(r, "204") /\ UNCHANGED shards

Next ==
  \E r \in Streams :
     \/ OnHttpRequestHeaders(r)
     \/ \E hash \in Hashes : Check(r, hash)
     \/ Unauthorized(r) \/ Malformed(r)
     \/ PurgeKey(r) \/ PurgeAll(r) \/ PurgeKeyRefused(r)

Spec == Init /\ [][Next]_vars
-----------------------------------------------------------------------------
\* The request, as the client sent it, shows the secret: its last header of that
\* name, in any spelling, is the secret, and there is one to be shown.
ShowsSecret(r) ==
  /\ secret[r] # ""
  /\ Said(sent[r], INVALIDATION_SECRET_HEADER) = {secret[r]}

\* It is a purge of the entry with this key text: a POST to the path, with or
\* without a query, whose message names that very text, or all.
AsksToPurge(r, key) ==
  /\ sent[r].method = "POST" /\ sent[r].path = INVALIDATION_PATH
  /\ sent[r].body # NotJson /\ sent[r].body.version = MESSAGE_VERSION
  /\ sent[r].body.op = "purge_all" \/ sent[r].body.key = <<key>>

\* README.md:94-105: a decision that has been stored is still there unless a
\* request that shows the secret has asked for its purge and was told 204,
\* whatever else was sent to the filter (lib.rs:536-591, invalidation.rs:23-47).
OnlyAuthorizedPurges ==
  \A key \in known :
     \/ key \in shards[shard_id_from_key(key)]
     \/ \E r \in Streams : reply[r] = "204" /\ ShowsSecret(r) /\ AsksToPurge(r, key)

\* README.md:118-120: 401 without the secret, whatever the message is, so that only
\* who knows it learns more; then 400 for a message that does not make sense, and
\* 204.  No other request is taken for a purge, and none of these is put before the
\* authorization service (lib.rs:280-288, 323-328, 545-589).
MakesSense(message) ==
  /\ message # NotJson /\ message.version = MESSAGE_VERSION
  /\ \/ message.op = "purge_all"
     \/ \E t \in KeyTexts : t.prefixed /\ message.key = <<t>>

Documented(r) ==
  IF ~(sent[r].method = "POST" /\ sent[r].path = INVALIDATION_PATH) THEN "checked"
  ELSE IF ~ShowsSecret(r) THEN "401"
  ELSE IF MakesSense(sent[r].body) THEN "204" ELSE "400"

RepliesAsDocumented == \A r \in Streams : reply[r] \in {"none", Documented(r)}
=============================================================================
