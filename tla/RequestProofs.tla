--------------------------- MODULE RequestProofs ---------------------------
(***************************************************************************)
(* Theorems about what the filter makes of a raw request: which headers    *)
(* the loop of on_http_request_headers leaves, what the invalidation       *)
(* endpoint does with them, and what the cache key says of them.           *)
(***************************************************************************)
EXTENDS Invalidation, RequestKey, FiniteSetTheorems, WellFoundedInduction, TLAPS
-----------------------------------------------------------------------------
(* Induction on the number of headers handled.  The induction theorems of   *)
(* the library take a predicate, which no prover here can instantiate; of a *)
(* set there is nothing to instantiate.                                     *)

\* A set of numbers has a least one: the initial segments of its elements are
\* finite sets, of which one is minimal.
LEMMA LeastNumber ==
  ASSUME NEW T \in SUBSET Nat, T # {}
  PROVE  \E m \in T : \A n \in T : m <= n
<1>. DEFINE Initial == {0 .. n : n \in T}
<1>1. Initial \subseteq FiniteSubsetsOf(Nat) /\ Initial # {}
  <2>1. \A n \in T : 0 .. n \in SUBSET Nat /\ IsFiniteSet(0 .. n)
    BY FS_Interval
  <2>. QED  BY <2>1 DEF FiniteSubsetsOf
<1>2. IsWellFoundedOn(StrictSubsetOrdering(Nat), FiniteSubsetsOf(Nat))
  BY FS_StrictSubsetOrderingWellFounded
<1>3. PICK A \in Initial : \A B \in Initial : ~(<<B, A>> \in StrictSubsetOrdering(Nat))
  <2>. HIDE DEF Initial
  <2>. QED  BY <1>1, <1>2, WFMin
<1>4. PICK m \in T : A = 0 .. m
  OBVIOUS
<1>5. ASSUME NEW n \in T, n < m PROVE FALSE
  <2>1. m \in 0 .. m /\ m \notin 0 .. n
    BY <1>5
  <2>2. 0 .. n \in SUBSET (0 .. m) /\ 0 .. n # 0 .. m
    BY <1>5, <2>1
  <2>3. <<0 .. n, 0 .. m>> \in StrictSubsetOrdering(Nat)
    BY <2>2, <1>1, <1>4 DEF StrictSubsetOrdering, FiniteSubsetsOf
  <2>. QED  BY <1>3, <1>4, <2>3
<1>. QED  BY <1>5

\* Induction up to a bound.
LEMMA Induction ==
  ASSUME NEW last \in Nat, NEW Good \in SUBSET (0 .. last),
         0 \in Good, \A n \in Good : n < last => n + 1 \in Good
  PROVE  Good = 0 .. last
<1>. SUFFICES ASSUME (0 .. last) \ Good # {} PROVE FALSE
  OBVIOUS
<1>1. PICK m \in (0 .. last) \ Good : \A n \in (0 .. last) \ Good : m <= n
  <2>1. (0 .. last) \ Good \in SUBSET Nat
    OBVIOUS
  <2>. QED  BY <2>1, LeastNumber
<1>2. m # 0 /\ m - 1 \in 0 .. last
  BY <1>1
<1>. QED  BY <1>1, <1>2
-----------------------------------------------------------------------------
(* The loop over the headers.                                               *)

Start(q) ==
  [method |-> q.method, path |-> q.path,
   query |-> IF q.query = <<>> THEN "" ELSE q.query[1],
   host |-> q.host, scheme |-> q.scheme,
   id |-> "", headers |-> << >>, body |-> q.body]

NameAt(q, i) == lowercase[q.headers[i][1]]

\* The recursive function is what its equation says: the equation has a solution
\* on every prefix of the headers, as one on a prefix extends to the next.
LEMMA CollectedStep ==
  ASSUME NEW q, q.headers \in HeaderSeqs
  PROVE  /\ Collected(q)[0] = Start(q)
         /\ \A i \in 1 .. Len(q.headers) :
              Collected(q)[i] = CollectHeader(Collected(q)[i - 1], q.headers[i])
<1>. DEFINE last == Len(q.headers)
            Next0(f, i) == IF i = 0 THEN Start(q) ELSE CollectHeader(f[i - 1], q.headers[i])
            Good == {n \in 0 .. last : \E f : f = [i \in 0 .. n |-> Next0(f, i)]}
<1>1. last \in Nat
  BY DEF HeaderSeqs
<1>. HIDE DEF last
<1>2. 0 \in Good
  <2>. DEFINE f == [i \in 0 .. 0 |-> Start(q)]
  <2>1. f = [i \in 0 .. 0 |-> Next0(f, i)]
    OBVIOUS
  <2>2. \E h : h = [i \in 0 .. 0 |-> Next0(h, i)]
    <3>. HIDE DEF f, Next0
    <3>. QED  BY <2>1
  <2>3. 0 \in 0 .. last
    BY <1>1
  <2>. QED  BY <2>2, <2>3
<1>3. ASSUME NEW n \in Good, n < last
      PROVE  n + 1 \in Good
  <2>1. PICK f : f = [i \in 0 .. n |-> Next0(f, i)]
    OBVIOUS
  <2>. DEFINE g == [i \in 0 .. n + 1 |-> IF i = n + 1 THEN Next0(f, i) ELSE f[i]]
  <2>2. ASSUME NEW i \in 0 .. n + 1
        PROVE  g[i] = Next0(g, i)
    <3>1. CASE i = 0
      BY <2>1, <3>1
    <3>2. CASE i # 0
      <4>1. i - 1 \in 0 .. n /\ g[i - 1] = f[i - 1]
        BY <3>2
      <4>2. g[i] = Next0(f, i)
        <5>1. CASE i = n + 1
          BY <5>1
        <5>2. CASE i # n + 1
          <6>1. i \in 0 .. n
            BY <5>2
          <6>2. f[i] = Next0(f, i)
            <7>. HIDE DEF Next0
            <7>. QED  BY <2>1, <6>1
          <6>. QED  BY <5>2, <6>2
        <5>. QED  BY <5>1, <5>2
      <4>. QED  BY <3>2, <4>1, <4>2
    <3>. QED  BY <3>1, <3>2
  <2>3. g = [i \in 0 .. n + 1 |-> Next0(g, i)]
    <3>1. g = [i \in 0 .. n + 1 |-> g[i]]
      OBVIOUS
    <3>. HIDE DEF g, Next0
    <3>. QED  BY <2>2, <3>1
  <2>4. \E h : h = [i \in 0 .. n + 1 |-> Next0(h, i)]
    <3>. HIDE DEF g, Next0
    <3>. QED  BY <2>3
  <2>5. n + 1 \in 0 .. last
    BY <1>1, <1>3
  <2>. QED  BY <2>4, <2>5
<1>4. last \in Good
  <2>. HIDE DEF Good
  <2>1. Good \in SUBSET (0 .. last)
    BY DEF Good
  <2>. QED  BY <1>1, <1>2, <1>3, <2>1, Induction
<1>5. Collected(q) = [i \in 0 .. last |-> Next0(Collected(q), i)]
  <2>1. \E f : f = [i \in 0 .. last |-> Next0(f, i)]
    BY <1>4
  <2>2. Collected(q) = CHOOSE f : f = [i \in 0 .. last |-> Next0(f, i)]
    BY DEF Collected, last, Start
  <2>. HIDE DEF Next0
  <2>. QED  BY <2>1, <2>2
<1>6. ASSUME NEW i \in 0 .. last
      PROVE  Collected(q)[i] = Next0(Collected(q), i)
  <2>. HIDE DEF Next0
  <2>. QED  BY <1>5
<1>. QED  BY <1>1, <1>6 DEF last

\* Headers other than the request id and the pseudo headers.
Copied(n) == n # "x-request-id" /\ n \notin PseudoNames

\* The parts that the headers do not change.
Shape(q, p) ==
  p \in [method : {q.method}, path : {q.path}, query : {Start(q).query},
         host : {q.host}, scheme : {q.scheme}, id : {p.id}, headers : {p.headers}, body : {q.body}]

\* The parts after i headers: of each copied name the last value so far.
LastKept(q, i) ==
  LET parts_i == Collected(q)[i]
  IN  /\ Shape(q, parts_i)
      /\ \A n : n \in DOMAIN parts_i.headers <=>
               (Copied(n) /\ \E j \in 1 .. i : NameAt(q, j) = n)
      /\ \A n \in DOMAIN parts_i.headers :
           \E j \in 1 .. i :
              /\ NameAt(q, j) = n /\ parts_i.headers[n] = q.headers[j][2]
              /\ \A k \in j + 1 .. i : NameAt(q, k) # n

LEMMA CollectedKeepsLast ==
  ASSUME NEW q, q.headers \in HeaderSeqs
  PROVE  LastKept(q, Len(q.headers))
<1>. DEFINE last == Len(q.headers)
            Good == {i \in 0 .. last : LastKept(q, i)}
<1>1. last \in Nat
  BY DEF HeaderSeqs
<1>2. LastKept(q, 0)
  <2>1. Collected(q)[0] = Start(q)
    BY CollectedStep
  <2>2. Shape(q, Start(q)) /\ Start(q).headers = << >>
    BY DEF Shape, Start
  <2>. QED  BY <2>1, <2>2 DEF LastKept
<1>3. ASSUME NEW i \in 0 .. last, i < last, LastKept(q, i)
      PROVE  LastKept(q, i + 1)
  <2>. DEFINE old == Collected(q)[i]
              new == Collected(q)[i + 1]
              name == NameAt(q, i + 1)
              value == q.headers[i + 1][2]
  <2>0. Shape(q, old)
    BY <1>3 DEF LastKept
  <2>1. i + 1 \in 1 .. last /\ (i + 1) - 1 = i
    BY <1>1, <1>3
  <2>2. new = CollectHeader(old, q.headers[i + 1])
    <3>1. new = CollectHeader(Collected(q)[(i + 1) - 1], q.headers[i + 1])
      BY <2>1, CollectedStep
    <3>. QED  BY <2>1, <3>1
  <2>3. q.headers[i + 1][1] \in DOMAIN lowercase
    BY <2>1 DEF HeaderSeqs
  <2>4. CASE name = "x-request-id"
    <3>1. new = [old EXCEPT !.id = value]
      BY <2>2, <2>4, Zenon DEF CollectHeader, IsRequestId, NameAt
    <3>2. new.headers = old.headers /\ Shape(q, new)
      <4>. HIDE DEF old, new, value
      <4>. QED  BY <3>1, <2>0 DEF Shape
    <3>3. ~Copied(name)
      BY <2>4 DEF Copied
    <3>. QED  BY <3>2, <3>3, <1>3, <2>1 DEF LastKept
  <2>5. CASE name # "x-request-id" /\ name \in PseudoNames
    <3>1. new = old
      BY <2>2, <2>3, <2>5, PseudoAssumption DEF CollectHeader, IsRequestId, NameAt
    <3>2. ~Copied(name)
      BY <2>5 DEF Copied
    <3>. QED  BY <3>1, <3>2, <1>3, <2>1 DEF LastKept
  <2>6. CASE Copied(name)
    <3>1. new = [old EXCEPT !.headers = Put(@, name, value)]
      BY <2>2, <2>3, <2>6, PseudoAssumption DEF CollectHeader, IsRequestId, NameAt, Copied
    <3>2. /\ new.headers = Put(old.headers, name, value)
          /\ Shape(q, new)
      <4>. HIDE DEF old, new, name, value
      <4>. QED  BY <3>1, <2>0 DEF Shape
    <3>3. /\ DOMAIN new.headers = DOMAIN old.headers \cup {name}
          /\ \A n \in DOMAIN old.headers : n # name => new.headers[n] = old.headers[n]
          /\ new.headers[name] = value
      BY <3>2 DEF Put
    <3>. HIDE DEF old, new, name, value
    <3>4. ASSUME NEW n
          PROVE  n \in DOMAIN new.headers <=> (Copied(n) /\ \E j \in 1 .. i + 1 : NameAt(q, j) = n)
      BY <3>3, <1>3, <2>1, <2>6 DEF LastKept, old, name
    <3>5. ASSUME NEW n \in DOMAIN new.headers
          PROVE  \E j \in 1 .. i + 1 :
                    /\ NameAt(q, j) = n /\ new.headers[n] = q.headers[j][2]
                    /\ \A k \in j + 1 .. i + 1 : NameAt(q, k) # n
      <4>1. CASE n = name
        BY <3>3, <4>1, <2>1 DEF name, value
      <4>2. CASE n # name
        <5>1. PICK j \in 1 .. i :
                /\ NameAt(q, j) = n /\ old.headers[n] = q.headers[j][2]
                /\ \A k \in j + 1 .. i : NameAt(q, k) # n
          BY <3>3, <3>5, <4>2, <1>3 DEF LastKept, old
        <5>2. \A k \in j + 1 .. i + 1 : NameAt(q, k) # n
          BY <5>1, <4>2, <2>1 DEF name
        <5>. QED  BY <3>3, <3>5, <4>2, <5>1, <5>2, <2>1
      <4>. QED  BY <4>1, <4>2
    <3>. QED  BY <3>2, <3>4, <3>5 DEF LastKept, new
  <2>. QED  BY <2>4, <2>5, <2>6 DEF Copied
<1>4. last \in Good
  <2>1. Good \in SUBSET (0 .. last) /\ 0 \in Good
    BY <1>1, <1>2
  <2>2. \A i \in Good : i < last => i + 1 \in Good
    BY <1>1, <1>3
  <2>. HIDE DEF last, Good
  <2>3. Good = 0 .. last
    BY <1>1, <2>1, <2>2, Induction
  <2>. QED  BY <1>1, <2>3
<1>. QED  BY <1>4

\* All that a key is made of but the headers.
SameParts(c, d) ==
  /\ c.method = d.method /\ c.path = d.path /\ c.query = d.query
  /\ c.host = d.host /\ c.scheme = d.scheme /\ c.body = d.body

\* The CheckRequest of a request: what it says of each copied name, and no other
\* header (lib.rs:245-271, request.rs:15-41).
LEMMA CheckRequestSays ==
  ASSUME NEW q, q.headers \in HeaderSeqs
  PROVE  LET c == check_request(q)
         IN  /\ SameParts(c, Start(q))
             /\ DOMAIN c.headers \subseteq {n \in LowerNames : Copied(n)}
             /\ \A n : Copied(n) => Said(q, n) = IF n \in DOMAIN c.headers THEN {c.headers[n]} ELSE {}
<1>. DEFINE c == check_request(q)
            last == Len(q.headers)
<1>1. last \in Nat /\ DOMAIN q.headers = 1 .. last
  BY DEF HeaderSeqs
<1>2. /\ Shape(q, c)
      /\ \A n : n \in DOMAIN c.headers <=>
               (Copied(n) /\ \E j \in 1 .. last : NameAt(q, j) = n)
      /\ \A n \in DOMAIN c.headers :
           \E j \in 1 .. last :
              /\ NameAt(q, j) = n /\ c.headers[n] = q.headers[j][2]
              /\ \A k \in j + 1 .. last : NameAt(q, k) # n
  BY CollectedKeepsLast DEF LastKept, check_request
<1>. HIDE DEF c, last
<1>3. SameParts(c, Start(q))
  BY <1>2 DEF Shape, SameParts, Start
<1>4. DOMAIN c.headers \subseteq {n \in LowerNames : Copied(n)}
  <2>1. \A j \in 1 .. last : q.headers[j][1] \in DOMAIN lowercase
    BY <1>1 DEF HeaderSeqs
  <2>. QED  BY <1>2, <2>1 DEF NameAt, LowerNames
<1>5. ASSUME NEW n, Copied(n), n \in DOMAIN c.headers
      PROVE  Said(q, n) = {c.headers[n]}
  <2>1. PICK j \in 1 .. last :
          /\ NameAt(q, j) = n /\ c.headers[n] = q.headers[j][2]
          /\ \A k \in j + 1 .. last : NameAt(q, k) # n
    BY <1>2, <1>5
  <2>. DEFINE at == {i \in DOMAIN q.headers : lowercase[q.headers[i][1]] = n}
  <2>2. j \in at /\ \A k \in at : k <= j
    BY <1>1, <2>1 DEF NameAt
  <2>3. {i \in at : \A k \in at : k <= i} = {j}
    BY <1>1, <2>2
  <2>. HIDE DEF at
  <2>4. Said(q, n) = {q.headers[i][2] : i \in {i \in at : \A k \in at : k <= i}}
    BY DEF Said, at
  <2>. QED  BY <2>1, <2>3, <2>4
<1>6. ASSUME NEW n, Copied(n), n \notin DOMAIN c.headers
      PROVE  Said(q, n) = {}
  BY <1>1, <1>2, <1>6 DEF Said, NameAt
<1>. QED  BY <1>3, <1>4, <1>5, <1>6 DEF c
-----------------------------------------------------------------------------
(* The invalidation endpoint.                                               *)

\* The secret is found in the parts exactly when the request shows it
\* (lib.rs:545-553).
LEMMA AuthorizedShowsSecret ==
  ASSUME NEW q, q.headers \in HeaderSeqs, NEW s
  PROVE  invalidation_authorized(check_request(q), s) <=>
           (s # "" /\ Said(q, INVALIDATION_SECRET_HEADER) = {s})
<1>1. Copied(INVALIDATION_SECRET_HEADER)
  BY SecretHeaderAssumption DEF Copied, INVALIDATION_SECRET_HEADER
<1>. DEFINE c == check_request(q)
<1>2. Said(q, INVALIDATION_SECRET_HEADER)
        = IF INVALIDATION_SECRET_HEADER \in DOMAIN c.headers
          THEN {c.headers[INVALIDATION_SECRET_HEADER]} ELSE {}
  BY <1>1, CheckRequestSays
<1>. HIDE DEF c
<1>. QED  BY <1>2 DEF invalidation_authorized, c

\* validate accepts the messages that make sense (invalidation.rs:23-47).
LEMMA ParseMakesSense ==
  ASSUME NEW m, m = NotJson \/ m \in InvalidationRequest
  PROVE  /\ parse(m) <=> MakesSense(m)
         /\ (parse(m) /\ m.op = "purge_key") => m.key = <<m.key[1]>>
<1>1. CASE m = NotJson
  BY <1>1 DEF parse, MakesSense
<1>2. CASE m # NotJson /\ m.op = "purge_all" /\ m \in InvalidationRequest
  BY <1>2 DEF parse, MakesSense, validate
<1>3. CASE m # NotJson /\ m.op = "purge_key" /\ m.key = <<>> /\ m \in InvalidationRequest
  BY <1>3 DEF parse, MakesSense, validate
<1>4. CASE m # NotJson /\ m.op = "purge_key" /\ m.key # <<>> /\ m \in InvalidationRequest
  <2>1. PICK t \in KeyTexts : m.key = <<t>>
    BY <1>4 DEF InvalidationRequest
  <2>. QED  BY <1>4, <2>1 DEF parse, MakesSense, validate
<1>. QED  BY <1>1, <1>2, <1>3, <1>4 DEF InvalidationRequest

\* What the callbacks have of a request is the CheckRequest of what was sent, and
\* nobody is answered before it has been collected.
Collecting ==
  /\ parts \in [Streams -> {<<>>} \cup {<<check_request(q)>> : q \in Requests}]
  /\ \A r \in Streams : /\ parts[r] # <<>> => parts[r] = <<check_request(sent[r])>>
                        /\ reply[r] # "none" => parts[r] # <<>>

\* The keys of decisions and the shards they live in.
LEMMA EntryShard ==
  ASSUME NEW key \in EntryTexts
  PROVE  shard_id_from_key(key) \in ShardIds
<1>1. \A n \in Hashes : n % NumShards \in 0 .. NumShards - 1
  BY HashesAssumption, NumShardsAssumption
<1>2. key.hash \in Hashes
  BY DEF EntryTexts
<1>3. key.hash % NumShards \in 0 .. NumShards - 1 /\ 0 \in 0 .. NumShards - 1
  BY <1>1, <1>2, NumShardsAssumption
<1>. QED  BY <1>3 DEF shard_id_from_key, ShardIds

LEMMA KeyOfShard ==
  ASSUME NEW hash \in Hashes
  PROVE  KeyOf(hash) \in EntryTexts /\ shard_id_from_key(KeyOf(hash)) \in ShardIds
<1>1. KeyOf(hash) \in EntryTexts
  BY DEF KeyOf, EntryTexts
<1>. QED  BY <1>1, EntryShard

\* A request that waits for its answer, and what is known of it.
LEMMA PendingFacts ==
  ASSUME TypeOK, Collecting, NEW r \in Streams, Pending(r)
  PROVE  /\ sent[r] \in Requests /\ sent[r].headers \in HeaderSeqs
         /\ sent[r].body = NotJson \/ sent[r].body \in InvalidationRequest
         /\ parts[r][1].body = sent[r].body
         /\ is_invalidation_request(parts[r][1]) <=>
              (sent[r].method = "POST" /\ sent[r].path = INVALIDATION_PATH)
         /\ invalidation_authorized(parts[r][1], secret[r]) <=> ShowsSecret(r)
<1>1. sent[r] \in Requests
  BY DEF TypeOK
<1>2. parts[r][1] = check_request(sent[r])
  <2>1. parts[r] = <<check_request(sent[r])>>
    BY DEF Collecting, Pending
  <2>. QED  BY <2>1
<1>3. /\ sent[r].headers \in HeaderSeqs
      /\ sent[r].body = NotJson \/ sent[r].body \in InvalidationRequest
  BY <1>1, RequestsAssumption
<1>4. /\ check_request(sent[r]).body = sent[r].body
      /\ check_request(sent[r]).method = sent[r].method
      /\ check_request(sent[r]).path = sent[r].path
  BY <1>3, CheckRequestSays DEF SameParts, Start
<1>5. invalidation_authorized(check_request(sent[r]), secret[r]) <=> ShowsSecret(r)
  BY <1>3, AuthorizedShowsSecret DEF ShowsSecret
<1>. QED  BY <1>1, <1>2, <1>3, <1>4, <1>5 DEF is_invalidation_request

EndpointInv == TypeOK /\ Collecting /\ OnlyAuthorizedPurges /\ RepliesAsDocumented

LEMMA EndpointInit == Init => EndpointInv
BY DEF Init, EndpointInv, TypeOK, Collecting, OnlyAuthorizedPurges, RepliesAsDocumented

\* The header callback touches neither answers nor shards.
LEMMA HeadersStep ==
  ASSUME EndpointInv, NEW r \in Streams, OnHttpRequestHeaders(r)
  PROVE  EndpointInv'
<1>1. sent[r] \in Requests
  BY DEF EndpointInv, TypeOK
<1>2. TypeOK'
  BY DEF EndpointInv, TypeOK, OnHttpRequestHeaders, ShardIds, EntryTexts
<1>3. Collecting'
  BY <1>1 DEF EndpointInv, Collecting, OnHttpRequestHeaders
<1>4. OnlyAuthorizedPurges' /\ RepliesAsDocumented'
  BY DEF EndpointInv, OnlyAuthorizedPurges, RepliesAsDocumented, OnHttpRequestHeaders,
         ShowsSecret, AsksToPurge, Documented
<1>. QED  BY <1>2, <1>3, <1>4 DEF EndpointInv

\* An answer that is the documented one keeps the documentation true, whatever
\* else the step does.
LEMMA AnswerStep ==
  ASSUME EndpointInv, NEW r \in Streams, Pending(r),
         NEW status \in {"checked", "204", "400", "401"}, status = Documented(r),
         reply' = [reply EXCEPT ![r] = status], UNCHANGED <<secret, sent, parts>>
  PROVE  Collecting' /\ RepliesAsDocumented'
<1>1. \A q \in Streams : Documented(q)' = Documented(q)
  BY DEF Documented, ShowsSecret
<1>2. RepliesAsDocumented'
  <2>. SUFFICES ASSUME NEW q \in Streams PROVE reply'[q] \in {"none", Documented(q)'}
    BY DEF RepliesAsDocumented
  <2>. HIDE DEF Documented
  <2>. QED  BY <1>1 DEF EndpointInv, TypeOK, RepliesAsDocumented
<1>3. Collecting'
  BY DEF EndpointInv, TypeOK, Collecting, Pending
<1>. QED  BY <1>2, <1>3

\* A key that has left its shard was named by a request answered now, or had left
\* before.
LEMMA PurgeStep ==
  ASSUME EndpointInv, NEW r \in Streams, reply[r] = "none", NEW status,
         reply' = [reply EXCEPT ![r] = status], UNCHANGED <<secret, sent>>,
         \A key \in known' :
            \/ key \in shards'[shard_id_from_key(key)]
            \/ key \in known /\ key \notin shards[shard_id_from_key(key)]
            \/ status = "204" /\ ShowsSecret(r) /\ AsksToPurge(r, key)
  PROVE  OnlyAuthorizedPurges'
<1>. SUFFICES ASSUME NEW key \in known', key \notin shards'[shard_id_from_key(key)]
              PROVE  \E q \in Streams : /\ reply'[q] = "204" /\ ShowsSecret(q)'
                                        /\ AsksToPurge(q, key)'
  BY DEF OnlyAuthorizedPurges
<1>1. CASE key \in known /\ key \notin shards[shard_id_from_key(key)]
  <2>1. PICK q \in Streams : reply[q] = "204" /\ ShowsSecret(q) /\ AsksToPurge(q, key)
    BY <1>1 DEF EndpointInv, OnlyAuthorizedPurges
  <2>2. reply'[q] = "204"
    BY <2>1 DEF EndpointInv, TypeOK
  <2>. QED  BY <2>1, <2>2 DEF ShowsSecret, AsksToPurge
<1>2. CASE status = "204" /\ ShowsSecret(r) /\ AsksToPurge(r, key)
  <2>1. reply'[r] = "204"
    BY <1>2 DEF EndpointInv, TypeOK
  <2>. QED  BY <1>2, <2>1 DEF ShowsSecret, AsksToPurge
<1>. QED  BY <1>1, <1>2

LEMMA CheckStep ==
  ASSUME EndpointInv, NEW r \in Streams, NEW hash \in Hashes, Check(r, hash)
  PROVE  EndpointInv'
<1>. DEFINE key == KeyOf(hash)
            home == shard_id_from_key(key)
<1>0. Pending(r) /\ reply[r] = "none" /\ TypeOK /\ Collecting
  BY DEF Check, Pending, EndpointInv
<1>1. key \in EntryTexts /\ home \in ShardIds
  BY KeyOfShard
<1>2. Collecting' /\ RepliesAsDocumented'
  <2>1. Documented(r) = "checked"
    BY <1>0, PendingFacts DEF Check, Documented
  <2>. QED  BY <1>0, <2>1, AnswerStep DEF Check
<1>3. CASE shards' = [shards EXCEPT ![home] = @ \cup {key}] /\ known' = known \cup {key}
  <2>1. TypeOK'
    BY <1>1, <1>3 DEF EndpointInv, TypeOK, Check, EntryTexts, ShardIds
  <2>2. \A k \in known' : \/ k \in shards'[shard_id_from_key(k)]
                          \/ k \in known /\ k \notin shards[shard_id_from_key(k)]
    <3>. HIDE DEF key, home
    <3>1. key \in shards'[home] /\ \A s \in ShardIds : shards[s] \subseteq shards'[s]
      BY <1>0, <1>1, <1>3 DEF TypeOK
    <3>2. \A k \in known : shard_id_from_key(k) \in ShardIds
      BY <1>0, EntryShard DEF TypeOK
    <3>. QED  BY <1>3, <3>1, <3>2 DEF home
  <2>3. OnlyAuthorizedPurges'
    BY <1>0, <2>2, PurgeStep DEF Check
  <2>. QED  BY <2>1, <2>3, <1>2 DEF EndpointInv
<1>4. CASE UNCHANGED <<shards, known>>
  <2>1. TypeOK'
    BY <1>4 DEF EndpointInv, TypeOK, Check, EntryTexts, ShardIds
  <2>2. OnlyAuthorizedPurges'
    BY <1>0, <1>4, PurgeStep DEF Check
  <2>. QED  BY <2>1, <2>2, <1>2 DEF EndpointInv
<1>. QED  BY <1>3, <1>4 DEF Check

\* 401 and 400 leave the shards alone.
LEMMA RefusalStep ==
  ASSUME EndpointInv, NEW r \in Streams, Unauthorized(r) \/ Malformed(r)
  PROVE  EndpointInv'
<1>1. /\ Pending(r) /\ reply[r] = "none" /\ TypeOK /\ Collecting
      /\ UNCHANGED <<secret, sent, parts, shards, known>>
  BY DEF Unauthorized, Malformed, Accepted, Answer, Pending, EndpointInv
<1>2. PICK status \in {"400", "401"} :
        status = Documented(r) /\ reply' = [reply EXCEPT ![r] = status]
  <2>1. CASE Unauthorized(r)
    <3>1. Documented(r) = "401"
      BY <1>1, <2>1, PendingFacts DEF Unauthorized, Documented
    <3>. QED  BY <2>1, <3>1 DEF Unauthorized, Answer
  <2>2. CASE Malformed(r)
    <3>1. ~MakesSense(sent[r].body)
      BY <1>1, <2>2, PendingFacts, ParseMakesSense DEF Malformed
    <3>2. Documented(r) = "400"
      BY <1>1, <2>2, <3>1, PendingFacts DEF Malformed, Accepted, Documented
    <3>. QED  BY <2>2, <3>2 DEF Malformed, Answer
  <2>. QED  BY <2>1, <2>2
<1>3. TypeOK'
  BY <1>1, <1>2 DEF TypeOK, EntryTexts, ShardIds
<1>4. Collecting' /\ RepliesAsDocumented'
  BY <1>1, <1>2, AnswerStep
<1>5. OnlyAuthorizedPurges'
  BY <1>1, <1>2, PurgeStep
<1>. QED  BY <1>3, <1>4, <1>5 DEF EndpointInv

\* 204 is for those who show the secret; only what they name may go.
LEMMA AcceptedStep ==
  ASSUME EndpointInv, NEW r \in Streams,
         PurgeKey(r) \/ PurgeAll(r) \/ PurgeKeyRefused(r)
  PROVE  EndpointInv'
<1>. DEFINE message == sent[r].body
<1>1. /\ Pending(r) /\ reply[r] = "none" /\ TypeOK /\ Collecting
      /\ reply' = [reply EXCEPT ![r] = "204"]
      /\ UNCHANGED <<secret, sent, parts, known>>
  BY DEF PurgeKey, PurgeAll, PurgeKeyRefused, Accepted, Answer, Pending, EndpointInv
<1>2. /\ ShowsSecret(r) /\ sent[r].method = "POST" /\ sent[r].path = INVALIDATION_PATH
      /\ parts[r][1].body = message /\ parse(message)
  BY <1>1, PendingFacts DEF PurgeKey, PurgeAll, PurgeKeyRefused, Accepted
<1>3. MakesSense(message) /\ (message.op = "purge_key" => message.key = <<message.key[1]>>)
  BY <1>1, <1>2, PendingFacts, ParseMakesSense
<1>4. Documented(r) = "204"
  BY <1>2, <1>3 DEF Documented
<1>5. Collecting' /\ RepliesAsDocumented'
  BY <1>1, <1>4, AnswerStep
<1>6. TypeOK' /\ \A key \in known' : \/ key \in shards'[shard_id_from_key(key)]
                                     \/ key \in known /\ key \notin shards[shard_id_from_key(key)]
                                     \/ AsksToPurge(r, key)
  <2>1. CASE PurgeKey(r)
    <3>. DEFINE named == message.key[1]
    <3>1. /\ message.op = "purge_key"
          /\ shards' = [shards EXCEPT ![shard_id_from_key(named)] = @ \ {named}]
      BY <1>2, <2>1 DEF PurgeKey, Remaining
    <3>2. AsksToPurge(r, named)
      BY <1>2, <1>3, <3>1 DEF AsksToPurge, MakesSense
    <3>3. TypeOK'
      BY <1>1, <3>1 DEF TypeOK, EntryTexts, ShardIds
    <3>. HIDE DEF named
    <3>4. \A s \in ShardIds : shards'[s] = shards[s] \/ shards'[s] = shards[s] \ {named}
      BY <1>1, <3>1 DEF TypeOK
    <3>5. \A key \in known : shard_id_from_key(key) \in ShardIds
      BY <1>1, EntryShard DEF TypeOK
    <3>. QED  BY <1>1, <3>2, <3>3, <3>4, <3>5
  <2>2. CASE PurgeAll(r)
    <3>1. message.op = "purge_all"
      BY <1>2, <2>2 DEF PurgeAll
    <3>2. \A key : AsksToPurge(r, key)
      BY <1>2, <1>3, <3>1 DEF AsksToPurge, MakesSense
    <3>3. TypeOK'
      BY <1>1, <2>2 DEF TypeOK, PurgeAll, EntryTexts, ShardIds
    <3>. QED  BY <3>2, <3>3
  <2>3. CASE PurgeKeyRefused(r)
    <3>1. UNCHANGED <<shards, known>>
      BY <1>1, <2>3 DEF PurgeKeyRefused
    <3>. QED  BY <1>1, <3>1 DEF TypeOK, EntryTexts, ShardIds
  <2>. QED  BY <2>1, <2>2, <2>3
<1>7. OnlyAuthorizedPurges'
  BY <1>1, <1>2, <1>6, PurgeStep
<1>. QED  BY <1>5, <1>6, <1>7 DEF EndpointInv

LEMMA EndpointStep == EndpointInv /\ [Next]_vars => EndpointInv'
<1>1. ASSUME EndpointInv, UNCHANGED vars PROVE EndpointInv'
  BY <1>1 DEF vars, EndpointInv, TypeOK, Collecting, OnlyAuthorizedPurges,
              RepliesAsDocumented, ShowsSecret, AsksToPurge, Documented, EntryTexts, ShardIds
<1>. QED
  BY <1>1, HeadersStep, CheckStep, RefusalStep, AcceptedStep DEF Next

LEMMA EndpointAlways == Spec => []EndpointInv
BY EndpointInit, EndpointStep, PTL DEF Spec

\* Type correctness of the endpoint: whatever texts purges name, the shards hold
\* entries under the keys of hashes, each formatted in full (cache.rs:156-158).
THEOREM TypeCorrect == Spec => []TypeOK
<1>1. EndpointInv => TypeOK
  BY DEF EndpointInv
<1>. QED  BY <1>1, EndpointAlways, PTL

\* Whatever is sent to the filter by however many clients, in whatever spelling
\* and with headers repeated, a stored decision only goes when a request that
\* shows the secret has named it, or all (lib.rs:536-591, invalidation.rs:23-47).
THEOREM PurgesAuthorized == Spec => []OnlyAuthorizedPurges
<1>1. EndpointInv => OnlyAuthorizedPurges
  BY DEF EndpointInv
<1>. QED  BY <1>1, EndpointAlways, PTL

\* Each request gets the answer README.md:118-120 gives for it, or is put before
\* the authorization service, and nothing of a request without the secret but its
\* address has a part in that (lib.rs:280-288, 545-589).
THEOREM RepliesDocumented == Spec => []RepliesAsDocumented
<1>1. EndpointInv => RepliesAsDocumented
  BY DEF EndpointInv
<1>. QED  BY <1>1, EndpointAlways, PTL
-----------------------------------------------------------------------------
(* The cache key.                                                           *)

\* The headers of a CheckRequest are finitely many.
LEMMA FiniteHeaders ==
  ASSUME NEW q, q.headers \in HeaderSeqs
  PROVE  IsFiniteSet(DOMAIN check_request(q).headers)
<1>. DEFINE last == Len(q.headers)
            f == [j \in 1 .. last |-> NameAt(q, j)]
            T == {NameAt(q, j) : j \in 1 .. last}
<1>1. last \in Nat
  BY DEF HeaderSeqs
<1>2. f \in Surjection(1 .. last, T)
  BY DEF Surjection
<1>3. IsFiniteSet(1 .. last)
  BY <1>1, FS_Interval
<1>4. IsFiniteSet(T)
  <2>. HIDE DEF f, T
  <2>. QED  BY <1>2, <1>3, FS_Surjection
<1>5. DOMAIN check_request(q).headers \in SUBSET T
  <2>1. \A n \in DOMAIN check_request(q).headers : \E j \in 1 .. last : NameAt(q, j) = n
    <3>. HIDE DEF f, T
    <3>. QED  BY CollectedKeepsLast DEF LastKept, check_request
  <2>. QED  BY <2>1
<1>. QED  BY <1>4, <1>5, FS_Subset

\* The place of a name among others.
Position(N, x) == Cardinality({y \in N : rank[y] <= rank[x]})

LEMMA PositionGrows ==
  ASSUME NEW N \in SUBSET LowerNames, IsFiniteSet(N), NEW x \in N, NEW y \in N
  PROVE  /\ Position(N, x) \in 1 .. Cardinality(N)
         /\ rank[x] < rank[y] => Position(N, x) < Position(N, y)
         /\ Position(N, x) = Position(N, y) => x = y
<1>. DEFINE Upto(z) == {u \in N : rank[u] <= rank[z]}
<1>1. \A u \in N : rank[u] \in Nat
  BY RankAssumption
<1>2. ASSUME NEW z \in N
      PROVE  /\ IsFiniteSet(Upto(z)) /\ Cardinality(Upto(z)) \in Nat
             /\ 1 <= Cardinality(Upto(z)) /\ Cardinality(Upto(z)) <= Cardinality(N)
             /\ z \in Upto(z)
  <2>1. Upto(z) \in SUBSET N /\ z \in Upto(z)
    BY <1>1, <1>2
  <2>. HIDE DEF Upto
  <2>2. IsFiniteSet(Upto(z)) /\ Cardinality(Upto(z)) <= Cardinality(N)
    BY <2>1, FS_Subset
  <2>3. Cardinality(Upto(z)) \in Nat
    BY <2>2, FS_CardinalityType
  <2>4. Cardinality(Upto(z)) # 0
    BY <2>1, <2>2, FS_EmptySet
  <2>. QED  BY <2>1, <2>2, <2>3, <2>4
<1>3. ASSUME NEW u \in N, NEW v \in N, rank[u] < rank[v]
      PROVE  Cardinality(Upto(u)) < Cardinality(Upto(v))
  <2>1. Upto(u) \in SUBSET Upto(v) /\ Upto(u) # Upto(v)
    BY <1>1, <1>3
  <2>2. Cardinality(Upto(u)) <= Cardinality(Upto(v))
        /\ Cardinality(Upto(v)) # Cardinality(Upto(u))
    <3>1. IsFiniteSet(Upto(v))
      BY <1>2
    <3>. HIDE DEF Upto
    <3>. QED  BY <2>1, <3>1, FS_Subset
  <2>. HIDE DEF Upto
  <2>. QED  BY <1>2, <2>2
<1>4. rank[x] = rank[y] => x = y
  BY RankAssumption
<1>5. Cardinality(N) \in Nat
  BY FS_CardinalityType
<1>6. \A z : Position(N, z) = Cardinality(Upto(z))
  BY DEF Position
<1>. HIDE DEF Upto
<1>7. Cardinality(Upto(x)) = Cardinality(Upto(y)) => x = y
  BY <1>1, <1>2, <1>3, <1>4
<1>. QED  BY <1>2, <1>3, <1>5, <1>6, <1>7

\* The names of a finite set can be put in ascending order: each at its place.
LEMMA SortExists ==
  ASSUME NEW N \in SUBSET LowerNames, IsFiniteSet(N)
  PROVE  \E s \in [1 .. Cardinality(N) -> N] : Ascending(s)
<1>. DEFINE n == Cardinality(N)
            pos == [x \in N |-> Position(N, x)]
            s == [i \in 1 .. n |-> CHOOSE x \in N : pos[x] = i]
<1>1. n \in Nat /\ IsFiniteSet(1 .. n) /\ Cardinality(1 .. n) = n
  BY FS_CardinalityType, FS_Interval
<1>2. pos \in Injection(N, 1 .. n)
  <2>1. pos \in [N -> 1 .. n]
    BY PositionGrows
  <2>2. \A x, y \in N : pos[x] = pos[y] => x = y
    BY PositionGrows
  <2>. HIDE DEF pos, n
  <2>. QED  BY <2>1, <2>2 DEF Injection, IsInjective
<1>3. pos \in Surjection(N, 1 .. n)
  <2>. HIDE DEF pos
  <2>1. Cardinality(N) = Cardinality(1 .. n)
    BY <1>1
  <2>. HIDE DEF n
  <2>. QED  BY <1>1, <1>2, <2>1, FS_Injection
<1>4. ASSUME NEW i \in 1 .. n
      PROVE  s[i] \in N /\ pos[s[i]] = i
  <2>1. \E x \in N : pos[x] = i
    <3>. HIDE DEF pos, n
    <3>. QED  BY <1>3 DEF Surjection
  <2>2. s[i] = CHOOSE x \in N : pos[x] = i
    OBVIOUS
  <2>. HIDE DEF pos, s
  <2>. QED  BY <2>1, <2>2
<1>5. ASSUME NEW i \in 1 .. n, NEW j \in 1 .. n, i < j
      PROVE  rank[s[i]] < rank[s[j]]
  <2>1. s[i] \in N /\ s[j] \in N /\ Position(N, s[i]) = i /\ Position(N, s[j]) = j
    BY <1>4
  <2>. HIDE DEF s, n
  <2>2. rank[s[j]] < rank[s[i]] => Position(N, s[j]) < Position(N, s[i])
    BY <2>1, PositionGrows
  <2>3. rank[s[i]] \in Nat /\ rank[s[j]] \in Nat
    BY <2>1, RankAssumption
  <2>4. rank[s[i]] # rank[s[j]]
    BY <1>5, <2>1, RankAssumption
  <2>. QED  BY <1>1, <1>5, <2>1, <2>2, <2>3, <2>4
<1>6. s \in [1 .. n -> N] /\ DOMAIN s = 1 .. n
  BY <1>4
<1>. HIDE DEF s, n
<1>7. Ascending(s)
  BY <1>5, <1>6 DEF Ascending
<1>. QED  BY <1>6, <1>7 DEF n

\* In an ascending sequence of all names, every name is at its place: there is no
\* other one.
LEMMA AscendingPlaces ==
  ASSUME NEW N \in SUBSET LowerNames, IsFiniteSet(N),
         NEW s \in [1 .. Cardinality(N) -> N], Ascending(s)
  PROVE  /\ \A x \in N : \E i \in 1 .. Cardinality(N) : s[i] = x
         /\ \A i \in 1 .. Cardinality(N) : Position(N, s[i]) = i
<1>. DEFINE n == Cardinality(N)
<1>1. n \in Nat /\ IsFiniteSet(1 .. n) /\ Cardinality(1 .. n) = n
  BY FS_CardinalityType, FS_Interval
<1>. HIDE DEF n
<1>2. s \in [1 .. n -> N]
  BY DEF n
<1>3. \A i \in 1 .. n : rank[s[i]] \in Nat
  BY <1>2, RankAssumption
<1>4. \A i, j \in 1 .. n : i < j => rank[s[i]] < rank[s[j]]
  BY <1>2 DEF Ascending
<1>5. \A i, j \in 1 .. n : s[i] = s[j] => i = j
  BY <1>1, <1>3, <1>4
<1>6. s \in Injection(1 .. n, N)
  BY <1>2, <1>5 DEF Injection, IsInjective
<1>7. s \in Surjection(1 .. n, N)
  BY <1>1, <1>6, FS_Injection DEF n
<1>8. ASSUME NEW i \in 1 .. n
      PROVE  Position(N, s[i]) = i
  <2>. DEFINE T == {y \in N : rank[y] <= rank[s[i]]}
              g == [j \in 1 .. i |-> s[j]]
  <2>1. \A j \in 1 .. i : j \in 1 .. n /\ g[j] = s[j] /\ s[j] \in T
    <3>1. \A j \in 1 .. i : j \in 1 .. n /\ (j = i \/ j < i)
      BY <1>1
    <3>2. ASSUME NEW j \in 1 .. i
          PROVE  s[j] \in N /\ rank[s[j]] <= rank[s[i]]
      <4>1. j \in 1 .. n /\ (j = i \/ rank[s[j]] < rank[s[i]])
        BY <3>1, <1>4
      <4>2. s[j] \in N /\ rank[s[j]] \in Nat /\ rank[s[i]] \in Nat
        BY <4>1, <1>2, <1>3
      <4>. HIDE DEF T, g
      <4>. QED  BY <4>1, <4>2
    <3>. QED  BY <3>1, <3>2
  <2>2. \A y \in T : \E j \in 1 .. i : s[j] = y
    <3>1. ASSUME NEW y \in T
          PROVE  \E j \in 1 .. i : s[j] = y
      <4>1. PICK j \in 1 .. n : s[j] = y
        BY <1>7 DEF Surjection
      <4>2. ~(i < j)
        BY <4>1, <1>3, <1>4
      <4>. QED  BY <1>1, <4>1, <4>2
    <3>. QED  BY <3>1
  <2>. HIDE DEF T
  <2>3. g \in [1 .. i -> T]
    BY <2>1
  <2>4. \A j, k \in 1 .. i : g[j] = g[k] => j = k
    BY <2>1, <1>5
  <2>5. \A y \in T : \E j \in 1 .. i : g[j] = y
    BY <2>1, <2>2
  <2>. HIDE DEF g
  <2>6. g \in Bijection(1 .. i, T)
    BY <2>3, <2>4, <2>5 DEF Bijection, Injection, Surjection, IsInjective
  <2>7. ExistsBijection(1 .. i, T)
    BY <2>6 DEF ExistsBijection
  <2>8. Cardinality(T) = i
    BY <2>7, <1>1, FS_CountingElements
  <2>. QED  BY <2>8 DEF Position, T
<1>. QED  BY <1>7, <1>8 DEF n, Surjection

\* What sorting makes of the names of a map (cache.rs:128): all of them in
\* ascending order, and nothing else is that, whatever order they came in.
LEMMA CanonicalSorts ==
  ASSUME NEW N \in SUBSET LowerNames, IsFiniteSet(N), NEW names \in SetToSeqs(N)
  PROVE  /\ DOMAIN names = 1 .. Cardinality(N)
         /\ Canonical(names) \in [1 .. Cardinality(N) -> N]
         /\ Ascending(Canonical(names))
         /\ \A x \in N : \E i \in 1 .. Cardinality(N) : Canonical(names)[i] = x
         /\ \A s \in [1 .. Cardinality(N) -> N] : Ascending(s) => s = Canonical(names)
<1>. DEFINE n == Cardinality(N)
            c == Canonical(names)
<1>1. n \in Nat /\ IsFiniteSet(1 .. n) /\ Cardinality(1 .. n) = n
  BY FS_CardinalityType, FS_Interval
<1>2. names \in [1 .. n -> N] /\ \A i, j \in 1 .. n : i # j => names[i] # names[j]
  BY DEF SetToSeqs, Cardinality
<1>3. Range(names) = N
  <2>. HIDE DEF n
  <2>1. names \in Injection(1 .. n, N)
    BY <1>2 DEF Injection, IsInjective
  <2>2. names \in Surjection(1 .. n, N)
    BY <1>1, <2>1, FS_Injection DEF n
  <2>. QED  BY <1>2, <2>2 DEF Range, Surjection
<1>4. c = CHOOSE sorted \in [1 .. n -> N] : Ascending(sorted)
  <2>. HIDE DEF n
  <2>. QED  BY <1>2, <1>3 DEF Canonical
<1>5. c \in [1 .. n -> N] /\ Ascending(c)
  <2>. HIDE DEF c
  <2>. QED  BY <1>4, SortExists
<1>. HIDE DEF c
<1>6. /\ \A x \in N : \E i \in 1 .. n : c[i] = x
      /\ \A i \in 1 .. n : Position(N, c[i]) = i
  BY <1>5, AscendingPlaces
<1>7. ASSUME NEW s \in [1 .. n -> N], Ascending(s)
      PROVE  s = c
  <2>1. \A i \in 1 .. n : Position(N, s[i]) = i
    BY <1>7, AscendingPlaces
  <2>2. ASSUME NEW i \in 1 .. n
        PROVE  s[i] = c[i]
    <3>1. s[i] \in N /\ c[i] \in N /\ Position(N, s[i]) = Position(N, c[i])
      BY <1>5, <1>6, <2>1
    <3>. QED  BY <3>1, PositionGrows
  <2>3. s \in [1 .. n -> N] /\ c \in [1 .. n -> N]
    BY <1>5, <1>7
  <2>. HIDE DEF n
  <2>4. s = [i \in 1 .. n |-> s[i]] /\ c = [i \in 1 .. n |-> c[i]]
    BY <2>3
  <2>5. [i \in 1 .. n |-> s[i]] = [i \in 1 .. n |-> c[i]]
    BY <2>2, Zenon
  <2>. QED  BY <2>4, <2>5, Zenon
<1>. QED  BY <1>2, <1>5, <1>6, <1>7 DEF c

\* A CheckRequest is that of the request sent, and a key that of the CheckRequest,
\* for one order of iteration.
KeyInv ==
  /\ asked \in [Both -> Candidates]
  /\ DOMAIN check = Both /\ DOMAIN keys = Both
  /\ \A s \in Both :
       /\ check[s] # <<>> => check[s] = <<check_request(asked[s])>>
       /\ keys[s] # <<>> =>
            /\ check[s] # <<>>
            /\ \E names \in SetToSeqs(Included(check[s][1], policy[s])) :
                 keys[s] = <<compute_cache_key(check[s][1], names)>>

LEMMA KeyInit == PairInit => KeyInv
BY DEF PairInit, KeyInv

LEMMA KeyStep == KeyInv /\ [PairNext]_pairVars => KeyInv'
<1>. SUFFICES ASSUME KeyInv, [PairNext]_pairVars PROVE KeyInv'
  OBVIOUS
<1>1. ASSUME NEW s \in Both, Collect(s) PROVE KeyInv'
  <2>1. /\ check[s] = <<>> /\ UNCHANGED <<policy, asked, keys>>
        /\ check' = [check EXCEPT ![s] = <<check_request(asked[s])>>]
    BY <1>1 DEF Collect
  <2>2. ASSUME NEW r \in Both
        PROVE  /\ check'[r] # <<>> => check'[r] = <<check_request(asked'[r])>>
               /\ keys'[r] # <<>> =>
                    /\ check'[r] # <<>>
                    /\ \E names \in SetToSeqs(Included(check'[r][1], policy'[r])) :
                         keys'[r] = <<compute_cache_key(check'[r][1], names)>>
    <3>1. CASE r = s
      <4>1. check'[r] = <<check_request(asked'[r])>> /\ keys'[r] = <<>>
        BY <2>1, <3>1 DEF KeyInv
      <4>. QED  BY <4>1
    <3>2. CASE r # s
      <4>1. check'[r] = check[r] /\ keys'[r] = keys[r]
        BY <2>1, <3>2 DEF KeyInv
      <4>. QED  BY <2>1, <4>1 DEF KeyInv
    <3>. QED  BY <3>1, <3>2
  <2>3. /\ asked' \in [Both -> Candidates]
        /\ DOMAIN check' = Both /\ DOMAIN keys' = Both
    BY <2>1 DEF KeyInv
  <2>. QED  BY <2>2, <2>3 DEF KeyInv
<1>2. ASSUME NEW s \in Both, ComputeKey(s) PROVE KeyInv'
  <2>1. PICK names \in SetToSeqs(Included(check[s][1], policy[s])) :
          keys' = [keys EXCEPT ![s] = <<compute_cache_key(check[s][1], names)>>]
    BY <1>2 DEF ComputeKey
  <2>2. check[s] # <<>> /\ UNCHANGED <<policy, asked, check>>
    BY <1>2 DEF ComputeKey
  <2>3. ASSUME NEW r \in Both
        PROVE  /\ check'[r] # <<>> => check'[r] = <<check_request(asked'[r])>>
               /\ keys'[r] # <<>> =>
                    /\ check'[r] # <<>>
                    /\ \E ns \in SetToSeqs(Included(check'[r][1], policy'[r])) :
                         keys'[r] = <<compute_cache_key(check'[r][1], ns)>>
    <3>1. CASE r = s
      <4>1. keys'[r] = <<compute_cache_key(check[r][1], names)>>
        BY <2>1, <3>1 DEF KeyInv
      <4>. QED  BY <2>1, <2>2, <3>1, <4>1 DEF KeyInv
    <3>2. CASE r # s
      <4>1. keys'[r] = keys[r]
        BY <2>1, <3>2 DEF KeyInv
      <4>. QED  BY <2>2, <4>1 DEF KeyInv
    <3>. QED  BY <3>1, <3>2
  <2>4. /\ asked' \in [Both -> Candidates]
        /\ DOMAIN check' = Both /\ DOMAIN keys' = Both
    BY <2>1, <2>2 DEF KeyInv
  <2>. QED  BY <2>3, <2>4 DEF KeyInv
<1>3. CASE UNCHANGED pairVars
  BY <1>3 DEF pairVars, KeyInv
<1>. QED  BY <1>1, <1>2, <1>3 DEF PairNext

LEMMA KeyAlways == PairSpec => []KeyInv
BY KeyInit, KeyStep, PTL DEF PairSpec

\* What the key of a stream is made of.
Names(s) == Included(check_request(asked[s]), policy[s])

LEMMA KeyFacts ==
  ASSUME KeyInv, NEW s \in Both, keys[s] # <<>>
  PROVE  /\ asked[s].headers \in HeaderSeqs
         /\ check[s][1] = check_request(asked[s])
         /\ Names(s) \in SUBSET LowerNames /\ IsFiniteSet(Names(s))
         /\ \E names \in SetToSeqs(Names(s)) :
              keys[s] = <<compute_cache_key(check_request(asked[s]), names)>>
<1>. DEFINE c == check_request(asked[s])
<1>1. asked[s].headers \in HeaderSeqs
  BY CandidatesAssumption DEF KeyInv
<1>2. check[s] = <<c>>
  BY DEF KeyInv
<1>3. check[s][1] = c
  BY <1>2
<1>4. DOMAIN c.headers \subseteq LowerNames /\ IsFiniteSet(DOMAIN c.headers)
  BY <1>1, CheckRequestSays, FiniteHeaders
<1>5. Names(s) \in SUBSET DOMAIN c.headers
  BY DEF Names, Included
<1>6. \E names \in SetToSeqs(Names(s)) : keys[s] = <<compute_cache_key(c, names)>>
  <2>. HIDE DEF c
  <2>. QED  BY <1>3 DEF KeyInv, Names, c
<1>. HIDE DEF c
<1>7. IsFiniteSet(Names(s))
  BY <1>4, <1>5, FS_Subset
<1>. QED  BY <1>1, <1>3, <1>4, <1>5, <1>6, <1>7 DEF c

\* The key for an iteration that yields names is made of these pairs, those of N.
HashedAs(c, names, N, pairs) ==
  /\ compute_cache_key(c, names) = KeyInput(c, pairs)
  /\ {pairs[i] : i \in DOMAIN pairs} = {<<x, c.headers[x]>> : x \in N}

\* The pairs hashed for the names of a map are its pairs, each name once.
LEMMA HashedPairs ==
  ASSUME NEW N \in SUBSET LowerNames, IsFiniteSet(N), NEW names \in SetToSeqs(N), NEW c
  PROVE  \E pairs : HashedAs(c, names, N, pairs)
<1>. DEFINE sorted == Canonical(names)
            pairs == [i \in DOMAIN names |-> <<sorted[i], c.headers[sorted[i]]>>]
<1>1. compute_cache_key(c, names) = KeyInput(c, pairs)
  BY DEF compute_cache_key
<1>2. /\ \A i \in DOMAIN names : sorted[i] \in N
      /\ \A x \in N : \E i \in DOMAIN names : sorted[i] = x
  <2>1. DOMAIN names = 1 .. Cardinality(N) /\ sorted \in [1 .. Cardinality(N) -> N]
    BY CanonicalSorts
  <2>2. \A x \in N : \E i \in 1 .. Cardinality(N) : sorted[i] = x
    BY CanonicalSorts
  <2>. HIDE DEF sorted
  <2>. QED  BY <2>1, <2>2
<1>3. {pairs[i] : i \in DOMAIN pairs} = {<<x, c.headers[x]>> : x \in N}
  <2>. HIDE DEF sorted
  <2>1. \A i \in DOMAIN names : pairs[i] = <<sorted[i], c.headers[sorted[i]]>>
    OBVIOUS
  <2>2. DOMAIN pairs = DOMAIN names
    OBVIOUS
  <2>. HIDE DEF pairs
  <2>. QED  BY <1>2, <2>1, <2>2
<1>. HIDE DEF pairs
<1>. QED  BY <1>1, <1>3 DEF HashedAs

\* Two inputs of the hash are equal when all their parts are.
LEMMA InputsTell ==
  ASSUME NEW c, NEW d, NEW p, NEW q
  PROVE  KeyInput(c, p) = KeyInput(d, q) <=> SameParts(c, d) /\ p = q
BY DEF KeyInput, SameParts

\* What a configuration looks at in a CheckRequest, given the headers it includes.
Looked(c, headers) ==
  [method |-> c.method, path |-> c.path, host |-> c.host, scheme |-> c.scheme,
   query |-> c.query, body |-> c.body, headers |-> headers]

LEMMA EqualKeysAgree ==
  ASSUME KeyInv
  PROVE  EqualKeysEqualChecks
<1>. SUFFICES ASSUME Keyed, keys["first"] = keys["second"]
              PROVE  Relevant("first") = Relevant("second")
  BY DEF EqualKeysEqualChecks
<1>. DEFINE c(s) == check_request(asked[s])
            said(s) == {<<x, c(s).headers[x]>> : x \in Names(s)}
<1>1. ASSUME NEW s \in Both
      PROVE  /\ Relevant(s) = Looked(c(s), said(s))
             /\ \E pairs :
                  /\ keys[s] = <<KeyInput(c(s), pairs)>>
                  /\ {pairs[i] : i \in DOMAIN pairs} = said(s)
  <2>1. keys[s] # <<>>
    BY DEF Keyed
  <2>2. /\ check[s][1] = c(s)
        /\ Names(s) \in SUBSET LowerNames /\ IsFiniteSet(Names(s))
    BY <2>1, KeyFacts
  <2>3. PICK names \in SetToSeqs(Names(s)) : keys[s] = <<compute_cache_key(c(s), names)>>
    BY <2>1, KeyFacts
  <2>4. Relevant(s) = Looked(c(s), said(s))
    <3>. HIDE DEF c
    <3>. QED  BY <2>2 DEF Relevant, Looked, Names, c
  <2>. HIDE DEF c
  <2>5. PICK pairs : HashedAs(c(s), names, Names(s), pairs)
    BY <2>2, HashedPairs
  <2>6. /\ compute_cache_key(c(s), names) = KeyInput(c(s), pairs)
        /\ {pairs[i] : i \in DOMAIN pairs} = said(s)
    BY <2>5 DEF HashedAs
  <2>. QED  BY <2>3, <2>4, <2>6
<1>2. "first" \in Both /\ "second" \in Both
  BY DEF Both
<1>. HIDE DEF c, said
<1>3. PICK pairs :
        /\ keys["first"] = <<KeyInput(c("first"), pairs)>>
        /\ {pairs[i] : i \in DOMAIN pairs} = said("first")
  BY <1>1, <1>2
<1>4. PICK others :
        /\ keys["second"] = <<KeyInput(c("second"), others)>>
        /\ {others[i] : i \in DOMAIN others} = said("second")
  BY <1>1, <1>2
<1>5. SameParts(c("first"), c("second")) /\ pairs = others
  <2>. DEFINE input == KeyInput(c("first"), pairs)
              other == KeyInput(c("second"), others)
  <2>1. input = other
    <3>1. <<input>> = <<other>>
      BY <1>3, <1>4, Zenon
    <3>. HIDE DEF input, other
    <3>. QED  BY <3>1
  <2>. QED  BY <2>1, InputsTell
<1>6. said("first") = said("second")
  BY <1>3, <1>4, <1>5
<1>. QED  BY <1>1, <1>2, <1>5, <1>6 DEF Looked, SameParts

\* For any requests, spellings and policies: equal keys are made of equal checks, so
\* but for a collision of the hash no decision about another request is replayed
\* (cache.rs:104-159).
THEOREM KeysIdentifyChecks == PairSpec => []EqualKeysEqualChecks
<1>1. KeyInv => EqualKeysEqualChecks
  BY EqualKeysAgree
<1>. QED  BY <1>1, KeyAlways, PTL

\* Requests that say the same but for their ids have the same CheckRequest headers.
LEMMA SameButIdSameHeaders ==
  ASSUME NEW a, NEW b, a.headers \in HeaderSeqs, b.headers \in HeaderSeqs, SameButId(a, b)
  PROVE  LET c == check_request(a)
             d == check_request(b)
         IN  /\ SameParts(c, d)
             /\ DOMAIN c.headers = DOMAIN d.headers
             /\ \A n \in DOMAIN c.headers : c.headers[n] = d.headers[n]
<1>. DEFINE c == check_request(a)
            d == check_request(b)
<1>1. /\ a.method = b.method /\ a.path = b.path /\ a.query = b.query /\ a.body = b.body
      /\ a.host = b.host /\ a.scheme = b.scheme
      /\ \A n \in LowerNames \ {"x-request-id"} : Said(a, n) = Said(b, n)
  BY DEF SameButId
<1>2. SameParts(Start(a), Start(b))
  BY <1>1 DEF Start, SameParts
<1>3. /\ DOMAIN c.headers \subseteq {n \in LowerNames : Copied(n)}
      /\ \A n : Copied(n) => Said(a, n) = IF n \in DOMAIN c.headers THEN {c.headers[n]} ELSE {}
      /\ SameParts(c, Start(a))
  BY CheckRequestSays
<1>4. /\ DOMAIN d.headers \subseteq {n \in LowerNames : Copied(n)}
      /\ \A n : Copied(n) => Said(b, n) = IF n \in DOMAIN d.headers THEN {d.headers[n]} ELSE {}
      /\ SameParts(d, Start(b))
  BY CheckRequestSays
<1>. HIDE DEF c, d
<1>5. \A n \in LowerNames : Copied(n) =>
        /\ n \in DOMAIN c.headers <=> n \in DOMAIN d.headers
        /\ n \in DOMAIN c.headers => c.headers[n] = d.headers[n]
  <2>. SUFFICES ASSUME NEW n \in LowerNames, Copied(n)
                PROVE  /\ n \in DOMAIN c.headers <=> n \in DOMAIN d.headers
                       /\ n \in DOMAIN c.headers => c.headers[n] = d.headers[n]
    OBVIOUS
  <2>1. Said(a, n) = Said(b, n)
    BY <1>1 DEF Copied
  <2>. QED  BY <2>1, <1>3, <1>4
<1>6. SameParts(c, d)
  BY <1>2, <1>3, <1>4 DEF SameParts
<1>. QED  BY <1>3, <1>4, <1>5, <1>6 DEF c, d

LEMMA SameButIdShares ==
  ASSUME KeyInv
  PROVE  RequestIdSharesDecision
<1>. SUFFICES ASSUME Keyed, policy["first"] = policy["second"],
                     SameButId(asked["first"], asked["second"])
              PROVE  keys["first"] = keys["second"]
  BY DEF RequestIdSharesDecision
<1>. DEFINE c == check_request(asked["first"])
            d == check_request(asked["second"])
            N == Names("first")
<1>1. /\ "first" \in Both /\ "second" \in Both
      /\ keys["first"] # <<>> /\ keys["second"] # <<>>
  BY DEF Both, Keyed
<1>2. /\ asked["first"].headers \in HeaderSeqs /\ N \in SUBSET LowerNames /\ IsFiniteSet(N)
      /\ \E names \in SetToSeqs(N) : keys["first"] = <<compute_cache_key(c, names)>>
  BY <1>1, KeyFacts
<1>3. /\ asked["second"].headers \in HeaderSeqs
      /\ \E names \in SetToSeqs(Names("second")) :
           keys["second"] = <<compute_cache_key(d, names)>>
  BY <1>1, KeyFacts
<1>4. /\ SameParts(c, d)
      /\ DOMAIN c.headers = DOMAIN d.headers
      /\ \A n \in DOMAIN c.headers : c.headers[n] = d.headers[n]
  BY <1>2, <1>3, SameButIdSameHeaders
<1>5. N \subseteq DOMAIN c.headers /\ Names("second") = N
  <2>1. /\ N = {n \in DOMAIN c.headers : include_header(n, policy["first"])}
        /\ Names("second") = {n \in DOMAIN d.headers : include_header(n, policy["second"])}
    BY DEF Names, Included
  <2>. HIDE DEF c, d, N
  <2>. QED  BY <2>1, <1>4
<1>6. PICK names \in SetToSeqs(N) : keys["first"] = <<compute_cache_key(c, names)>>
  BY <1>2
<1>7. PICK others \in SetToSeqs(N) : keys["second"] = <<compute_cache_key(d, others)>>
  BY <1>3, <1>5
<1>. DEFINE sorted == Canonical(names)
<1>. HIDE DEF c, d, N, sorted
<1>8. /\ DOMAIN others = DOMAIN names /\ Canonical(others) = sorted
      /\ \A i \in DOMAIN names : sorted[i] \in N
  <2>1. /\ DOMAIN names = 1 .. Cardinality(N) /\ DOMAIN others = 1 .. Cardinality(N)
        /\ sorted \in [1 .. Cardinality(N) -> N]
    BY <1>2, CanonicalSorts DEF sorted
  <2>2. Canonical(others) \in [1 .. Cardinality(N) -> N] /\ Ascending(Canonical(others))
    BY <1>2, CanonicalSorts
  <2>3. Canonical(others) = sorted
    BY <2>2, <1>2, CanonicalSorts DEF sorted
  <2>. QED  BY <2>1, <2>3
<1>. DEFINE pairs(e) == [i \in DOMAIN names |-> <<sorted[i], e.headers[sorted[i]]>>]
<1>9. pairs(c) = pairs(d)
  <2>1. \A i \in DOMAIN names : <<sorted[i], c.headers[sorted[i]]>> = <<sorted[i], d.headers[sorted[i]]>>
    BY <1>4, <1>5, <1>8
  <2>. QED  BY <2>1, Zenon
<1>10. compute_cache_key(c, names) = KeyInput(c, pairs(c))
  BY DEF compute_cache_key, sorted
<1>11. compute_cache_key(d, others) = KeyInput(d, pairs(d))
  BY <1>8 DEF compute_cache_key
<1>. HIDE DEF pairs
<1>. QED  BY <1>4, <1>6, <1>7, <1>9, <1>10, <1>11, InputsTell

\* For any requests, spellings and policies: requests that say the same but for
\* their ids share a key (README.md:75, cache.rs:113-128).
THEOREM RequestIdIgnored == PairSpec => []RequestIdSharesDecision
<1>1. KeyInv => RequestIdSharesDecision
  BY SameButIdShares
<1>. QED  BY <1>1, KeyAlways, PTL
=============================================================================
