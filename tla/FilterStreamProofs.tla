------------------------- MODULE FilterStreamProofs -------------------------
(***************************************************************************)
(* Theorems about FilterStream, for any streams on any workers, any        *)
(* requests, any limit per stream, with the cache on or off for each.      *)
(***************************************************************************)
EXTENDS FilterStream, SequenceTheorems, TLAPS

Conclusions == Replies \cup {"forward"}

LEMMA BytesType ==
  \A n \in Nat : Bytes(n) \in Seq(Nat) /\ Len(Bytes(n)) = n
BY DEF Bytes

LEMMA SliceType ==
  ASSUME NEW n \in Nat, NEW k \in Nat \ {0}
  PROVE  /\ SubSeq(Bytes(n), k, n) = [i \in 1 .. (n + 1 - k) |-> i + k - 1]
         /\ SubSeq(Bytes(n), k, n) \in Seq(Nat)
<1>1. SubSeq(Bytes(n), k, n) = [i \in 1 .. (n + 1 - k) |-> Bytes(n)[i + k - 1]]
  BY BytesType
<1>2. \A i \in 1 .. (n + 1 - k) : Bytes(n)[i + k - 1] = i + k - 1
  BY DEF Bytes
<1>3. SubSeq(Bytes(n), k, n) = [i \in 1 .. (n + 1 - k) |-> i + k - 1]
  BY <1>1, <1>2
<1>4. CASE k <= n
  <2>1. n + 1 - k \in Nat
    BY <1>4
  <2>2. \A i \in 1 .. (n + 1 - k) : i + k - 1 \in Nat
    OBVIOUS
  <2>. QED  BY <1>3, <2>1, <2>2
<1>5. CASE k > n
  <2>1. 1 .. (n + 1 - k) = {}
    BY <1>5
  <2>. QED  BY <1>3, <2>1
<1>. QED  BY <1>3, <1>4, <1>5

LEMMA EmptyType == <<>> \in Seq(Nat)
OBVIOUS

LEMMA ConcludeType ==
  ASSUME TypeOK, NEW r \in Streams, NEW c \in Conclusions, Conclude(r, c)
  PROVE  outcome' \in [Streams -> Seq(Conclusions)]
<1>1. outcome \in [Streams -> Seq(Conclusions)]
  BY DEF TypeOK, Conclusions
<1>2. Append(outcome[r], c) \in Seq(Conclusions)
  BY <1>1
<1>. QED  BY <1>1, <1>2 DEF Conclude

\* What the callbacks that are cut into pieces share.
LEMMA SendCallType ==
  ASSUME TypeOK, NEW r \in Streams, NEW c \in AuthzHttp, SendCall(r, c)
  PROVE  /\ ctx' \in [Streams -> AuthzHttp]
         /\ call' \in [Streams -> {"none", "open", "answered"}]
         /\ passed' = passed
         /\ outcome' \in [Streams -> Seq(Conclusions)]
<1>1. [c EXCEPT !.grpc_token = r] \in AuthzHttp
  BY DEF AuthzHttp
<1>2. ctx' \in [Streams -> AuthzHttp]
  BY <1>1 DEF SendCall, TypeOK
<1>3. call' \in [Streams -> {"none", "open", "answered"}]
  BY DEF SendCall, TypeOK
<1>4. "503" \in Conclusions
  BY DEF Conclusions, Replies
<1>5. outcome' \in [Streams -> Seq(Conclusions)]
  BY <1>4, ConcludeType DEF SendCall, Reply, TypeOK, Conclusions
<1>. QED  BY <1>2, <1>3, <1>5 DEF SendCall, Reply

LEMMA HandleInvalidationRequestType ==
  ASSUME TypeOK, NEW r \in Streams, NEW c \in AuthzHttp, HandleInvalidationRequest(r, c)
  PROVE  /\ ctx' \in [Streams -> AuthzHttp]
         /\ inside' \in [Streams -> {"none", "lookup", "store", "purge"}]
         /\ outcome' \in [Streams -> Seq(Conclusions)]
         /\ UNCHANGED <<checked, call, verdict, passed>>
<1>1. [c EXCEPT !.dispatched = TRUE] \in AuthzHttp
  BY DEF AuthzHttp
<1>2. ctx' \in [Streams -> AuthzHttp]
  BY <1>1 DEF HandleInvalidationRequest, TypeOK
<1>3. inside' \in [Streams -> {"none", "lookup", "store", "purge"}]
  BY DEF HandleInvalidationRequest, TypeOK
<1>4. {"400", "401"} \subseteq Conclusions
  BY DEF Conclusions, Replies
<1>5. outcome' \in [Streams -> Seq(Conclusions)]
  BY <1>4, ConcludeType DEF HandleInvalidationRequest, Reply, TypeOK, Conclusions
<1>. QED  BY <1>2, <1>3, <1>5 DEF HandleInvalidationRequest, Reply

LEMMA DispatchCheckRequestType ==
  ASSUME TypeOK, NEW r \in Streams, NEW c \in AuthzHttp, DispatchCheckRequest(r, c)
  PROVE  /\ ctx' \in [Streams -> AuthzHttp]
         /\ inside' \in [Streams -> {"none", "lookup", "store", "purge"}]
         /\ checked' \in [Streams -> Seq(Seq(Nat))]
         /\ call' \in [Streams -> {"none", "open", "answered"}]
         /\ outcome' \in [Streams -> Seq(Conclusions)]
         /\ UNCHANGED <<verdict, passed>>
<1>. DEFINE taken == [c EXCEPT !.dispatched = TRUE, !.body_buf = <<>>]
<1>1. taken \in AuthzHttp
  BY EmptyType DEF AuthzHttp
<1>2. checked' \in [Streams -> Seq(Seq(Nat))]
  <2>1. Append(checked[r], c.body_buf) \in Seq(Seq(Nat))
    BY DEF TypeOK, AuthzHttp
  <2>. QED  BY <2>1 DEF DispatchCheckRequest, TypeOK
<1>3. CASE r \in CacheEnabled
  BY <1>1, <1>2, <1>3, ZenonT(60) DEF DispatchCheckRequest, TypeOK, Conclusions
<1>4. CASE r \notin CacheEnabled
  <2>1. SendCall(r, taken) /\ UNCHANGED <<inside, verdict>>
    BY <1>4 DEF DispatchCheckRequest
  <2>. QED  BY <1>1, <1>2, <2>1, SendCallType DEF TypeOK
<1>. QED  BY <1>3, <1>4

LEMMA CompleteType ==
  ASSUME TypeOK, NEW r \in Streams, NEW c \in AuthzHttp, Complete(r, c)
  PROVE  /\ ctx' \in [Streams -> AuthzHttp]
         /\ inside' \in [Streams -> {"none", "lookup", "store", "purge"}]
         /\ checked' \in [Streams -> Seq(Seq(Nat))]
         /\ call' \in [Streams -> {"none", "open", "answered"}]
         /\ outcome' \in [Streams -> Seq(Conclusions)]
         /\ UNCHANGED <<verdict, passed>>
<1>1. CASE c.is_invalidation_request
  BY <1>1, HandleInvalidationRequestType DEF Complete, TypeOK
<1>2. CASE ~c.is_invalidation_request
  BY <1>2, DispatchCheckRequestType DEF Complete
<1>. QED  BY <1>1, <1>2

LEMMA RejectPayloadTooLargeType ==
  ASSUME TypeOK, NEW r \in Streams, RejectPayloadTooLarge(r)
  PROVE  /\ ctx' \in [Streams -> AuthzHttp]
         /\ outcome' \in [Streams -> Seq(Conclusions)]
         /\ UNCHANGED <<inside, lost, checked, call, verdict, passed>>
<1>1. [ctx[r] EXCEPT !.dispatched = TRUE] \in AuthzHttp
  <2>1. ctx[r] \in AuthzHttp
    BY DEF TypeOK
  <2>. QED  BY <2>1 DEF AuthzHttp
<1>2. "413" \in Conclusions
  BY DEF Conclusions, Replies
<1>3. outcome' \in [Streams -> Seq(Conclusions)]
  BY <1>2, ConcludeType DEF RejectPayloadTooLarge, Reply
<1>. QED  BY <1>1, <1>3 DEF RejectPayloadTooLarge, Reply, TypeOK

LEMMA ForwardType ==
  ASSUME TypeOK, NEW r \in Streams, Forward(r)
  PROVE  /\ outcome' \in [Streams -> Seq(Conclusions)]
         /\ passed' \in [Streams -> BOOLEAN]
<1>1. "forward" \in Conclusions
  BY DEF Conclusions
<1>. QED  BY <1>1, ConcludeType DEF Forward, TypeOK

LEMMA ReplyType ==
  ASSUME TypeOK, NEW r \in Streams, NEW status \in Replies, Reply(r, status)
  PROVE  /\ outcome' \in [Streams -> Seq(Conclusions)]
         /\ passed' = passed
BY ConcludeType DEF Reply, Conclusions

\* A verdict is acted on.
LEMMA ActType ==
  ASSUME TypeOK, NEW r \in Streams, NEW v,
         IF v = "allow" THEN Forward(r) ELSE Reply(r, "denied")
  PROVE  /\ outcome' \in [Streams -> Seq(Conclusions)]
         /\ passed' \in [Streams -> BOOLEAN]
<1>1. "denied" \in Replies
  BY DEF Replies
<1>. QED  BY <1>1, ForwardType, ReplyType DEF TypeOK

LEMMA HeadersType ==
  ASSUME TypeOK, NEW r \in Streams, NEW end_of_stream \in BOOLEAN,
         OnHttpRequestHeaders(r, end_of_stream)
  PROVE  TypeOK'
<1>. DEFINE c == [ctx[r] EXCEPT !.is_invalidation_request = req[r].op # "check"]
            exceeded == req[r].declared /\ req[r].len > MaxBody[r]
<1>1. c \in AuthzHttp
  <2>1. ctx[r] \in AuthzHttp
    BY DEF TypeOK
  <2>. QED  BY <2>1 DEF AuthzHttp
<1>2. /\ opened' \in [Streams -> BOOLEAN] /\ ended' \in [Streams -> BOOLEAN]
      /\ UNCHANGED <<req, arrived, alive>>
  BY DEF OnHttpRequestHeaders, TypeOK
<1>3. CASE RejectPayloadTooLarge(r)
  BY <1>2, <1>3, RejectPayloadTooLargeType DEF TypeOK, Conclusions
<1>4. CASE Complete(r, c) /\ UNCHANGED lost
  BY <1>1, <1>2, <1>4, CompleteType DEF TypeOK, Conclusions
<1>5. CASE /\ ctx' = [ctx EXCEPT ![r] = c]
           /\ passed' = [passed EXCEPT ![r] = c.is_invalidation_request]
           /\ UNCHANGED <<inside, lost, checked, call, verdict, outcome>>
  <2>1. ctx' \in [Streams -> AuthzHttp]
    BY <1>1, <1>5 DEF TypeOK
  <2>2. passed' \in [Streams -> BOOLEAN]
    BY <1>1, <1>5 DEF TypeOK, AuthzHttp
  <2>. QED  BY <1>2, <1>5, <2>1, <2>2 DEF TypeOK
<1>6. CASE Settled(r) /\ UNCHANGED <<ctx, inside, lost, checked, call, verdict, passed, outcome>>
  BY <1>2, <1>6 DEF TypeOK
<1>. QED  BY <1>3, <1>4, <1>5, <1>6 DEF OnHttpRequestHeaders, ReadHeaders

\* What a body callback adds to the context: c, for one of the two chunks.
LEMMA ChunkType ==
  ASSUME TypeOK, NEW r \in Streams, NEW body_size \in Nat,
         NEW chunk \in {SubSeq(Bytes(body_size), ChunkStart(r), body_size), <<>>}
  PROVE  [ctx[r] EXCEPT !.body_buf = @ \o chunk, !.body_seen = body_size] \in AuthzHttp
<1>1. ctx[r] \in AuthzHttp
  BY DEF TypeOK
<1>2. ChunkStart(r) \in Nat \ {0}
  BY <1>1 DEF ChunkStart, AuthzHttp
<1>3. SubSeq(Bytes(body_size), ChunkStart(r), body_size) \in Seq(Nat)
  BY <1>2, SliceType
<1>4. chunk \in Seq(Nat)
  BY <1>3, EmptyType
<1>5. ctx[r].body_buf \o chunk \in Seq(Nat)
  BY <1>1, <1>4 DEF AuthzHttp
<1>. QED  BY <1>1, <1>5 DEF AuthzHttp

LEMMA BodyType ==
  ASSUME TypeOK, NEW r \in Streams, NEW body_size \in 0 .. req[r].len,
         NEW end_of_stream \in BOOLEAN,
         OnHttpRequestBody(r, body_size, end_of_stream)
  PROVE  TypeOK'
<1>1. req[r].len \in Nat /\ body_size \in Nat
  BY RequestsAssumption DEF TypeOK
<1>2. /\ arrived' \in [Streams -> Nat] /\ ended' \in [Streams -> BOOLEAN]
      /\ UNCHANGED <<req, opened, alive>>
  BY <1>1 DEF OnHttpRequestBody, TypeOK
<1>3. CASE UNCHANGED <<ctx, inside, lost, checked, call, verdict, passed, outcome>>
  BY <1>2, <1>3 DEF TypeOK
<1>4. CASE RejectPayloadTooLarge(r)
  BY <1>2, <1>4, RejectPayloadTooLargeType DEF TypeOK, Conclusions
<1>5. ASSUME NEW chunk \in {SubSeq(Bytes(body_size), ChunkStart(r), body_size), <<>>},
             NEW c, c = [ctx[r] EXCEPT !.body_buf = @ \o chunk, !.body_seen = body_size],
             lost' = [lost EXCEPT ![r] = @ \/ (chunk = <<>> /\ body_size > ctx[r].body_seen)],
             IF end_of_stream
             THEN Complete(r, c)
             ELSE /\ ctx' = [ctx EXCEPT ![r] = c]
                  /\ UNCHANGED <<inside, checked, call, verdict, passed, outcome>>
      PROVE  TypeOK'
  <2>1. c \in AuthzHttp
    BY <1>1, <1>5, ChunkType
  <2>2. lost' \in [Streams -> BOOLEAN]
    BY <1>5 DEF TypeOK
  <2>3. CASE Complete(r, c)
    BY <1>2, <2>1, <2>2, <2>3, CompleteType DEF TypeOK, Conclusions
  <2>4. CASE /\ ctx' = [ctx EXCEPT ![r] = c]
             /\ UNCHANGED <<inside, checked, call, verdict, passed, outcome>>
    <3>1. ctx' \in [Streams -> AuthzHttp]
      BY <2>1, <2>4 DEF TypeOK
    <3>. QED  BY <1>2, <2>2, <2>4, <3>1 DEF TypeOK
  <2>. QED  BY <1>5, <2>3, <2>4
<1>. QED  BY <1>3, <1>4, <1>5 DEF OnHttpRequestBody

LEMMA CacheReturnsType ==
  ASSUME TypeOK, NEW r \in Streams, CacheReturns(r)
  PROVE  TypeOK'
<1>1. ASSUME NEW v \in Verdicts, LookupHit(r, v)
      PROVE  TypeOK'
  <2>1. /\ inside' \in [Streams -> {"none", "lookup", "store", "purge"}]
        /\ verdict' \in [Streams -> Answers \cup {"none"}]
    BY <1>1 DEF LookupHit, TypeOK, Answers
  <2>. QED  BY <1>1, <2>1, ActType DEF LookupHit, host, TypeOK, Conclusions
<1>2. ASSUME LookupMiss(r)
      PROVE  TypeOK'
  <2>1. inside' \in [Streams -> {"none", "lookup", "store", "purge"}]
    BY <1>2 DEF LookupMiss, TypeOK
  <2>2. ctx[r] \in AuthzHttp
    BY DEF TypeOK
  <2>. QED  BY <1>2, <2>1, <2>2, SendCallType DEF LookupMiss, host, TypeOK, Conclusions
<1>3. ASSUME StoreReturns(r)
      PROVE  TypeOK'
  <2>1. inside' \in [Streams -> {"none", "lookup", "store", "purge"}]
    BY <1>3 DEF StoreReturns, TypeOK
  <2>. QED  BY <1>3, <2>1, ActType DEF StoreReturns, host, TypeOK, Conclusions
<1>4. ASSUME PurgeReturns(r)
      PROVE  TypeOK'
  <2>1. inside' \in [Streams -> {"none", "lookup", "store", "purge"}]
    BY <1>4 DEF PurgeReturns, TypeOK
  <2>2. "204" \in Replies
    BY DEF Replies
  <2>. QED  BY <1>4, <2>1, <2>2, ReplyType DEF PurgeReturns, host, TypeOK, Conclusions
<1>. QED  BY <1>1, <1>2, <1>3, <1>4 DEF CacheReturns

LEMMA ResponseType ==
  ASSUME TypeOK, NEW r \in Streams, NEW answer \in Answers,
         OnGrpcCallResponse(r, answer)
  PROVE  TypeOK'
<1>1. call' \in [Streams -> {"none", "open", "answered"}]
  BY DEF OnGrpcCallResponse, TypeOK
<1>2. CASE UNCHANGED <<ctx, verdict, inside, passed, outcome>>
  BY <1>1, <1>2 DEF OnGrpcCallResponse, host, TypeOK
<1>3. CASE Awaited(r)
  <2>1. [ctx[r] EXCEPT !.grpc_token = NoToken] \in AuthzHttp
    <3>1. ctx[r] \in AuthzHttp
      BY DEF TypeOK
    <3>. QED  BY <3>1 DEF AuthzHttp
  <2>2. /\ ctx' \in [Streams -> AuthzHttp]
        /\ verdict' \in [Streams -> Answers \cup {"none"}]
    BY <1>3, <2>1 DEF OnGrpcCallResponse, TypeOK
  <2>3. CASE FailureReply(r, answer) /\ UNCHANGED inside
    <3>1. {"503", "500"} \subseteq Replies
      BY DEF Replies
    <3>. QED  BY <1>1, <2>2, <2>3, <3>1, ReplyType
              DEF OnGrpcCallResponse, FailureReply, host, TypeOK, Conclusions
  <2>4. CASE /\ inside' = [inside EXCEPT ![r] = "store"]
             /\ UNCHANGED <<passed, outcome>>
    BY <1>1, <2>2, <2>4 DEF OnGrpcCallResponse, host, TypeOK
  <2>5. CASE /\ IF answer = "allow" THEN Forward(r) ELSE Reply(r, "denied")
             /\ UNCHANGED inside
    BY <1>1, <2>2, <2>5, ActType DEF OnGrpcCallResponse, host, TypeOK, Conclusions
  <2>. QED  BY <1>3, <2>3, <2>4, <2>5 DEF OnGrpcCallResponse
<1>. QED  BY <1>2, <1>3 DEF OnGrpcCallResponse

LEMMA TypeInit == Init => TypeOK
<1>. SUFFICES ASSUME Init PROVE TypeOK
  OBVIOUS
<1>1. ctx \in [Streams -> AuthzHttp]
  BY EmptyType DEF Init, AuthzHttp
<1>2. /\ checked \in [Streams -> Seq(Seq(Nat))]
      /\ outcome \in [Streams -> Seq(Conclusions)]
  BY DEF Init
<1>. QED  BY <1>1, <1>2 DEF Init, TypeOK, Conclusions

LEMMA TypeStep == TypeOK /\ [Next]_vars => TypeOK'
<1>. SUFFICES ASSUME TypeOK, [Next]_vars PROVE TypeOK'
  OBVIOUS
<1>1. ASSUME NEW r \in Streams, Received(r)
      PROVE  TypeOK'
  BY <1>1, HeadersType, BodyType DEF Received
<1>2. ASSUME NEW r \in Streams, Answered(r)
      PROVE  TypeOK'
  BY <1>2, ResponseType DEF Answered
<1>3. ASSUME NEW r \in Streams, Abort(r)
      PROVE  TypeOK'
  BY <1>3 DEF Abort, TypeOK
<1>4. CASE UNCHANGED vars
  BY <1>4 DEF vars, host, TypeOK
<1>. QED  BY <1>1, <1>2, <1>3, <1>4, CacheReturnsType DEF Next

\* The fields of every stream's context keep their types, over every path of every
\* callback.
THEOREM TypeCorrect == Spec => []TypeOK
<1>. QED  BY TypeInit, TypeStep, PTL DEF Spec
-----------------------------------------------------------------------------
(* A step is a step of one stream. *)

StreamStep(r) == Received(r) \/ CacheReturns(r) \/ Answered(r) \/ Abort(r)

Untouched(q) ==
  /\ req'[q] = req[q] /\ opened'[q] = opened[q] /\ alive'[q] = alive[q]
  /\ ctx'[q] = ctx[q] /\ inside'[q] = inside[q] /\ lost'[q] = lost[q]
  /\ arrived'[q] = arrived[q] /\ checked'[q] = checked[q] /\ call'[q] = call[q]
  /\ verdict'[q] = verdict[q] /\ passed'[q] = passed[q] /\ outcome'[q] = outcome[q]

LEMMA CompleteLeavesOthers ==
  ASSUME TypeOK, NEW r \in Streams, NEW c \in AuthzHttp, Complete(r, c),
         NEW q \in Streams \ {r}
  PROVE  /\ ctx'[q] = ctx[q] /\ inside'[q] = inside[q]
         /\ checked'[q] = checked[q] /\ call'[q] = call[q]
         /\ outcome'[q] = outcome[q]
         /\ UNCHANGED <<verdict, passed>>
<1>1. CASE c.is_invalidation_request
  <2>1. HandleInvalidationRequest(r, c)
    BY <1>1 DEF Complete
  <2>. QED  BY <2>1 DEF HandleInvalidationRequest, Reply, Conclude, TypeOK
<1>2. CASE ~c.is_invalidation_request
  <2>1. DispatchCheckRequest(r, c)
    BY <1>2 DEF Complete
  <2>. QED  BY <2>1 DEF DispatchCheckRequest, SendCall, Reply, Conclude, TypeOK
<1>. QED  BY <1>1, <1>2

LEMMA StepLeavesOthers ==
  ASSUME TypeOK, NEW r \in Streams, StreamStep(r), NEW q \in Streams \ {r}
  PROVE  Untouched(q)
<1>1. ASSUME NEW end_of_stream \in BOOLEAN, OnHttpRequestHeaders(r, end_of_stream)
      PROVE  Untouched(q)
  <2>. DEFINE c == [ctx[r] EXCEPT !.is_invalidation_request = req[r].op # "check"]
  <2>1. c \in AuthzHttp
    <3>1. ctx[r] \in AuthzHttp
      BY DEF TypeOK
    <3>. QED  BY <3>1 DEF AuthzHttp
  <2>2. /\ opened'[q] = opened[q]
        /\ UNCHANGED <<req, arrived, alive>>
    BY <1>1 DEF OnHttpRequestHeaders, TypeOK
  <2>3. CASE RejectPayloadTooLarge(r)
    BY <2>2, <2>3 DEF RejectPayloadTooLarge, Reply, Conclude, TypeOK, Untouched
  <2>4. CASE Complete(r, c) /\ UNCHANGED lost
    BY <2>1, <2>2, <2>4, CompleteLeavesOthers DEF Untouched
  <2>5. CASE /\ ctx' = [ctx EXCEPT ![r] = c]
             /\ passed' = [passed EXCEPT ![r] = c.is_invalidation_request]
             /\ UNCHANGED <<inside, lost, checked, call, verdict, outcome>>
    BY <2>2, <2>5 DEF TypeOK, Untouched
  <2>6. CASE Settled(r) /\ UNCHANGED <<ctx, inside, lost, checked, call, verdict, passed, outcome>>
    BY <2>2, <2>6 DEF Untouched
  <2>. QED  BY <1>1, <2>3, <2>4, <2>5, <2>6 DEF OnHttpRequestHeaders, ReadHeaders
<1>2. ASSUME NEW body_size \in 0 .. req[r].len, NEW end_of_stream \in BOOLEAN,
             OnHttpRequestBody(r, body_size, end_of_stream)
      PROVE  Untouched(q)
  <2>1. body_size \in Nat
    BY RequestsAssumption DEF TypeOK
  <2>2. /\ arrived'[q] = arrived[q]
        /\ UNCHANGED <<req, opened, alive>>
    BY <1>2 DEF OnHttpRequestBody, TypeOK
  <2>3. CASE UNCHANGED <<ctx, inside, lost, checked, call, verdict, passed, outcome>>
    BY <2>2, <2>3 DEF Untouched
  <2>4. CASE RejectPayloadTooLarge(r)
    BY <2>2, <2>4 DEF RejectPayloadTooLarge, Reply, Conclude, TypeOK, Untouched
  <2>5. ASSUME NEW chunk \in {SubSeq(Bytes(body_size), ChunkStart(r), body_size), <<>>},
               NEW c, c = [ctx[r] EXCEPT !.body_buf = @ \o chunk, !.body_seen = body_size],
               lost' = [lost EXCEPT ![r] = @ \/ (chunk = <<>> /\ body_size > ctx[r].body_seen)],
               IF end_of_stream
               THEN Complete(r, c)
               ELSE /\ ctx' = [ctx EXCEPT ![r] = c]
                    /\ UNCHANGED <<inside, checked, call, verdict, passed, outcome>>
        PROVE  Untouched(q)
    <3>1. c \in AuthzHttp
      BY <2>1, <2>5, ChunkType
    <3>2. lost'[q] = lost[q]
      BY <2>5 DEF TypeOK
    <3>3. CASE Complete(r, c)
      BY <2>2, <3>1, <3>2, <3>3, CompleteLeavesOthers DEF Untouched
    <3>4. CASE /\ ctx' = [ctx EXCEPT ![r] = c]
               /\ UNCHANGED <<inside, checked, call, verdict, passed, outcome>>
      BY <2>2, <3>2, <3>4 DEF TypeOK, Untouched
    <3>. QED  BY <2>5, <3>3, <3>4
  <2>. QED  BY <1>2, <2>3, <2>4, <2>5 DEF OnHttpRequestBody
<1>3. CASE CacheReturns(r)
  BY <1>3 DEF CacheReturns, LookupHit, LookupMiss, StoreReturns, PurgeReturns, SendCall,
       Forward, Reply, Conclude, host, TypeOK, Untouched
<1>4. ASSUME NEW answer \in Answers, OnGrpcCallResponse(r, answer)
      PROVE  Untouched(q)
  BY <1>4 DEF OnGrpcCallResponse, FailureReply, Forward, Reply, Conclude, host, TypeOK,
       Untouched
<1>5. CASE Abort(r)
  BY <1>5 DEF Abort, TypeOK, Untouched
<1>. QED  BY <1>1, <1>2, <1>3, <1>4, <1>5 DEF StreamStep, Received, Answered
-----------------------------------------------------------------------------
(* Where a stream can be.  Every stream is in one of six phases; its verdict, its
   token, its call and the function its callback is in follow from the phase. *)

Undispatched(r) ==
  /\ ~ctx[r].dispatched /\ ctx[r].grpc_token = NoToken
  /\ inside[r] = "none" /\ call[r] = "none"
  /\ verdict[r] = "none" /\ outcome[r] = <<>> /\ checked[r] = <<>>
  /\ opened[r] => ctx[r].is_invalidation_request = (req[r].op # "check")

LookingUp(r) ==
  /\ ctx[r].dispatched /\ ctx[r].grpc_token = NoToken /\ req[r].op = "check"
  /\ inside[r] = "lookup" /\ call[r] = "none"
  /\ verdict[r] = "none" /\ outcome[r] = <<>>

Waiting(r) ==
  /\ ctx[r].dispatched /\ ctx[r].grpc_token = r /\ req[r].op = "check"
  /\ inside[r] = "none" /\ (alive[r] => call[r] = "open")
  /\ verdict[r] = "none" /\ outcome[r] = <<>>

Storing(r) ==
  /\ ctx[r].dispatched /\ ctx[r].grpc_token = NoToken /\ req[r].op = "check"
  /\ inside[r] = "store"
  /\ verdict[r] \in Verdicts /\ outcome[r] = <<>>

Purging(r) ==
  /\ ctx[r].dispatched /\ ctx[r].grpc_token = NoToken /\ req[r].op = "purge"
  /\ inside[r] = "purge" /\ call[r] = "none"
  /\ verdict[r] = "none" /\ outcome[r] = <<>>

Concluded(r) ==
  /\ ctx[r].dispatched /\ ctx[r].grpc_token = NoToken
  /\ inside[r] = "none"
  /\ outcome[r] # <<>>

Phase(r) ==
  \/ Undispatched(r) \/ LookingUp(r) \/ Waiting(r) \/ Storing(r) \/ Purging(r)
  \/ Concluded(r)

\* What FailsClosed and OversizedFailsClosed say of one stream, the latter with
\* what makes it last: nobody will ever answer an oversized request.
Passing(r) == (req[r].op = "check" /\ passed[r]) => verdict[r] = "allow"

Sized(r) == req[r].len > MaxBody[r] =>
  /\ checked[r] = <<>> /\ inside[r] = "none" /\ outcome[r] \in {<<>>, <<"413">>}
  /\ call[r] = "none" /\ ctx[r].grpc_token = NoToken

LifeOf(r) == Phase(r) /\ Passing(r) /\ Sized(r) /\ (~opened[r] => Undispatched(r))

LifeInv == \A r \in Streams : LifeOf(r)

LEMMA LifeInit == Init => LifeInv
<1>. SUFFICES ASSUME Init, NEW r \in Streams PROVE LifeOf(r)
  BY DEF LifeInv
<1>1. Undispatched(r)
  BY DEF Init, Undispatched
<1>2. Passing(r)
  BY DEF Init, Passing
<1>3. Sized(r)
  BY DEF Init, Sized
<1>. QED  BY <1>1, <1>2, <1>3 DEF LifeOf, Phase

LEMMA UntouchedLife ==
  ASSUME NEW q \in Streams, Untouched(q), LifeOf(q)
  PROVE  LifeOf(q)'
BY DEF Untouched, LifeOf, Phase, Undispatched, LookingUp, Waiting, Storing, Purging,
   Concluded, Passing, Sized

\* What a step does to the stream whose step it is, as Gate sees it.
Moves(r) ==
  \/ verdict'[r] = verdict[r] /\ outcome'[r] = outcome[r]
  \/ /\ outcome[r] = <<>> /\ verdict'[r] = verdict[r]
     /\ \E c \in IF req[r].op # "check" THEN {"204", "400", "401", "413"}
                 ELSE G!Ending[verdict[r]] : outcome'[r] = <<c>>
  \/ /\ outcome[r] = <<>> /\ req[r].op = "check"
     /\ verdict[r] = "none" /\ verdict'[r] \in Answers
     /\ outcome'[r] = <<>> \/ \E c \in G!Ending[verdict'[r]] : outcome'[r] = <<c>>

\* The end of the request, in a context that has not been dispatched.
LEMMA CompleteMoves ==
  ASSUME TypeOK, NEW r \in Streams, NEW c \in AuthzHttp, Complete(r, c),
         Undispatched(r), Passing(r), req'[r] = req[r], opened'[r], alive'[r] = alive[r],
         c.grpc_token = NoToken,
         c.is_invalidation_request = (req[r].op # "check"),
         ~(req[r].len > MaxBody[r])
  PROVE  LifeOf(r)' /\ Moves(r)
<1>1. Passing(r)' /\ Sized(r)'
  <2>1. verdict' = verdict /\ passed' = passed
    BY CompleteType
  <2>. QED  BY <2>1 DEF Passing, Sized
<1>2. CASE c.is_invalidation_request
  <2>1. HandleInvalidationRequest(r, c)
    BY <1>2 DEF Complete
  <2>2. ctx'[r].dispatched /\ ctx'[r].grpc_token = NoToken
    BY <2>1 DEF HandleInvalidationRequest, TypeOK, AuthzHttp
  <2>3. verdict'[r] = "none" /\ call'[r] = "none" /\ req[r].op # "check"
    BY <1>2, <2>1 DEF HandleInvalidationRequest, Undispatched
  <2>4. CASE /\ inside' = [inside EXCEPT ![r] = "purge"]
             /\ req[r].op = "purge" /\ outcome' = outcome
    <3>1. Purging(r)'
      BY <2>2, <2>3, <2>4 DEF Purging, Undispatched, TypeOK
    <3>. QED  BY <1>1, <2>3, <2>4, <3>1 DEF LifeOf, Phase, Moves, Undispatched
  <2>5. ASSUME NEW status \in {"400", "401"}, Reply(r, status), UNCHANGED inside
        PROVE  LifeOf(r)' /\ Moves(r)
    <3>1. outcome'[r] = <<status>>
      BY <2>5 DEF Reply, Conclude, Undispatched, TypeOK
    <3>2. Concluded(r)'
      BY <2>2, <2>5, <3>1 DEF Concluded, Undispatched
    <3>. QED  BY <1>1, <2>3, <3>1, <3>2 DEF LifeOf, Phase, Moves, Undispatched
  <2>. QED  BY <2>1, <2>4, <2>5 DEF HandleInvalidationRequest
<1>3. CASE ~c.is_invalidation_request
  <2>. DEFINE taken == [c EXCEPT !.dispatched = TRUE, !.body_buf = <<>>]
  <2>1. DispatchCheckRequest(r, c)
    BY <1>3 DEF Complete
  <2>2. taken.dispatched /\ taken.grpc_token = NoToken
    BY DEF AuthzHttp
  <2>3. verdict'[r] = "none" /\ req[r].op = "check"
    BY <1>3, <2>1, RequestsAssumption DEF DispatchCheckRequest, Undispatched
  <2>4. CASE r \in CacheEnabled
    <3>1. LookingUp(r)'
      BY <2>1, <2>2, <2>3, <2>4 DEF DispatchCheckRequest, LookingUp, Undispatched, TypeOK
    <3>2. outcome'[r] = outcome[r] /\ verdict'[r] = verdict[r]
      BY <2>1, <2>4 DEF DispatchCheckRequest
    <3>. QED  BY <1>1, <3>1, <3>2 DEF LifeOf, Phase, Moves
  <2>5. CASE r \notin CacheEnabled
    <3>1. SendCall(r, taken) /\ UNCHANGED <<inside, verdict>>
      BY <2>1, <2>5 DEF DispatchCheckRequest
    <3>2. CASE /\ ctx' = [ctx EXCEPT ![r] = [taken EXCEPT !.grpc_token = r]]
               /\ call' = [call EXCEPT ![r] = "open"]
               /\ UNCHANGED <<passed, outcome>>
      <4>1. ctx'[r].dispatched /\ ctx'[r].grpc_token = r
        BY <3>2 DEF TypeOK, AuthzHttp
      <4>2. Waiting(r)'
        BY <2>3, <3>1, <3>2, <4>1 DEF Waiting, Undispatched, TypeOK
      <4>. QED  BY <1>1, <3>1, <3>2, <4>2 DEF LifeOf, Phase, Moves
    <3>3. CASE /\ ctx' = [ctx EXCEPT ![r] = taken]
               /\ Reply(r, "503")
               /\ UNCHANGED call
      <4>1. ctx'[r] = taken /\ outcome'[r] = <<"503">>
        BY <3>3 DEF Reply, Conclude, Undispatched, TypeOK
      <4>2. Concluded(r)'
        BY <2>2, <3>1, <4>1 DEF Concluded, Undispatched
      <4>3. Moves(r)
        BY <2>3, <3>1, <4>1 DEF Moves, G!Ending, Undispatched
      <4>. QED  BY <1>1, <4>2, <4>3 DEF LifeOf, Phase
    <3>. QED  BY <3>1, <3>2, <3>3 DEF SendCall
  <2>. QED  BY <2>4, <2>5
<1>. QED  BY <1>2, <1>3

LEMMA RejectMoves ==
  ASSUME TypeOK, NEW r \in Streams, RejectPayloadTooLarge(r),
         Undispatched(r), Passing(r), req'[r] = req[r], opened'[r]
  PROVE  LifeOf(r)' /\ Moves(r)
<1>1. /\ outcome'[r] = <<"413">> /\ verdict'[r] = "none"
      /\ UNCHANGED <<inside, checked, call, passed, verdict>>
  BY DEF RejectPayloadTooLarge, Reply, Conclude, Undispatched, TypeOK
<1>2. ctx'[r].dispatched /\ ctx'[r].grpc_token = NoToken
  <2>1. ctx[r] \in AuthzHttp
    BY DEF TypeOK
  <2>. QED  BY <2>1 DEF RejectPayloadTooLarge, Undispatched, TypeOK, AuthzHttp
<1>3. Concluded(r)' /\ Sized(r)' /\ Passing(r)'
  BY <1>1, <1>2 DEF Concluded, Undispatched, Sized, Passing
<1>4. Moves(r)
  BY <1>1 DEF Moves, G!Ending, Undispatched
<1>. QED  BY <1>3, <1>4 DEF LifeOf, Phase

LEMMA HeadersMoves ==
  ASSUME TypeOK, NEW r \in Streams, LifeOf(r),
         NEW end_of_stream \in BOOLEAN, OnHttpRequestHeaders(r, end_of_stream)
  PROVE  LifeOf(r)' /\ Moves(r)
<1>. DEFINE c == [ctx[r] EXCEPT !.is_invalidation_request = req[r].op # "check"]
            exceeded == req[r].declared /\ req[r].len > MaxBody[r]
<1>1. Undispatched(r) /\ Passing(r) /\ Sized(r)
  BY DEF OnHttpRequestHeaders, LifeOf
<1>1a. ReadHeaders(r, end_of_stream)
  BY <1>1 DEF OnHttpRequestHeaders, Undispatched, Settled
<1>2. req'[r] = req[r] /\ alive'[r] = alive[r] /\ opened'[r]
  BY DEF OnHttpRequestHeaders, TypeOK
<1>3. /\ c \in AuthzHttp /\ c.grpc_token = NoToken /\ ~c.dispatched
      /\ c.is_invalidation_request = (req[r].op # "check")
  <2>1. ctx[r] \in AuthzHttp
    BY DEF TypeOK
  <2>. QED  BY <1>1, <2>1 DEF AuthzHttp, Undispatched
<1>4. CASE RejectPayloadTooLarge(r)
  BY <1>1, <1>2, <1>4, RejectMoves
<1>5. CASE end_of_stream /\ Complete(r, c)
  <2>1. ~(req[r].len > MaxBody[r])
    BY <1>1a, <1>5, MaxBodyAssumption DEF OnHttpRequestHeaders, ReadHeaders
  <2>. QED  BY <1>1, <1>2, <1>3, <1>5, <2>1, CompleteMoves
<1>6. CASE /\ ctx' = [ctx EXCEPT ![r] = c]
           /\ passed' = [passed EXCEPT ![r] = c.is_invalidation_request]
           /\ UNCHANGED <<inside, lost, checked, call, verdict, outcome>>
  <2>1. ctx'[r] = c
    BY <1>6 DEF TypeOK
  <2>2. passed'[r] = c.is_invalidation_request
    BY <1>6, Zenon DEF TypeOK
  <2>3. req[r].op # "check" \/ ~passed'[r]
    BY <1>3, <2>2, Zenon
  <2>4. /\ ~ctx'[r].dispatched /\ ctx'[r].grpc_token = NoToken
        /\ ctx'[r].is_invalidation_request = (req'[r].op # "check")
    BY <1>2, <1>3, <2>1, Zenon
  <2>5. Undispatched(r)'
    BY <1>1, <1>6, <2>4 DEF Undispatched
  <2>6. Passing(r)' /\ Sized(r)'
    BY <1>1, <1>2, <1>6, <2>3, <2>4 DEF Passing, Sized
  <2>. QED  BY <1>2, <1>6, <2>5, <2>6 DEF LifeOf, Phase, Moves
<1>. QED  BY <1>1a, <1>4, <1>5, <1>6 DEF ReadHeaders

LEMMA BodyMoves ==
  ASSUME TypeOK, NEW r \in Streams, LifeOf(r),
         NEW body_size \in 0 .. req[r].len, NEW end_of_stream \in BOOLEAN,
         OnHttpRequestBody(r, body_size, end_of_stream)
  PROVE  LifeOf(r)' /\ Moves(r)
<1>1. body_size \in Nat
  BY RequestsAssumption DEF TypeOK
<1>2. UNCHANGED <<req, opened, alive>> /\ opened[r] /\ opened'[r]
  BY DEF OnHttpRequestBody
<1>3. CASE UNCHANGED <<ctx, inside, lost, checked, call, verdict, passed, outcome>>
  <2>1. LifeOf(r)'
    BY <1>2, <1>3 DEF LifeOf, Phase, Undispatched, LookingUp, Waiting, Storing, Purging,
         Concluded, Passing, Sized
  <2>. QED  BY <1>3, <2>1 DEF Moves
<1>4. ASSUME ~Settled(r)
      PROVE  Undispatched(r) /\ Passing(r) /\ Sized(r)
  BY <1>4 DEF Settled, LifeOf, Phase, LookingUp, Waiting, Storing, Purging, Concluded
<1>5. CASE ~Settled(r) /\ RejectPayloadTooLarge(r)
  BY <1>2, <1>4, <1>5, RejectMoves
<1>6. ASSUME ~Settled(r), ~TooLarge(r, body_size),
             NEW chunk \in {SubSeq(Bytes(body_size), ChunkStart(r), body_size), <<>>},
             NEW c, c = [ctx[r] EXCEPT !.body_buf = @ \o chunk, !.body_seen = body_size],
             IF end_of_stream
             THEN Complete(r, c)
             ELSE /\ ctx' = [ctx EXCEPT ![r] = c]
                  /\ UNCHANGED <<inside, checked, call, verdict, passed, outcome>>
      PROVE  LifeOf(r)' /\ Moves(r)
  <2>1. c \in AuthzHttp
    BY <1>1, <1>6, ChunkType
  <2>2. /\ ~c.dispatched /\ c.grpc_token = NoToken
        /\ c.is_invalidation_request = (req[r].op # "check")
    <3>1. ctx[r] \in AuthzHttp
      BY DEF TypeOK
    <3>. QED  BY <1>2, <1>4, <1>6, <3>1 DEF AuthzHttp, Undispatched
  <2>3. CASE end_of_stream /\ Complete(r, c)
    <3>1. ~(req[r].len > MaxBody[r])
      BY <1>6, <2>3 DEF OnHttpRequestBody, TooLarge
    <3>. QED  BY <1>2, <1>4, <1>6, <2>1, <2>2, <2>3, <3>1, CompleteMoves
  <2>4. CASE /\ ctx' = [ctx EXCEPT ![r] = c]
             /\ UNCHANGED <<inside, checked, call, verdict, passed, outcome>>
    <3>1. ctx'[r] = c
      BY <2>4 DEF TypeOK
    <3>2. Undispatched(r)'
      BY <1>2, <1>4, <1>6, <2>2, <2>4, <3>1 DEF Undispatched
    <3>3. Passing(r)' /\ Sized(r)'
      BY <1>2, <1>4, <1>6, <2>2, <2>4, <3>1 DEF Passing, Sized
    <3>. QED  BY <2>4, <3>2, <3>3 DEF LifeOf, Phase, Moves
  <2>. QED  BY <1>6, <2>3, <2>4
<1>. QED  BY <1>3, <1>5, <1>6 DEF OnHttpRequestBody

\* A verdict is acted on, in a stream that was looking up, storing or waiting.
LEMMA ActMoves ==
  ASSUME TypeOK, NEW r \in Streams, NEW v \in Verdicts,
         outcome[r] = <<>>, passed[r] => req[r].op # "check",
         IF v = "allow" THEN Forward(r) ELSE Reply(r, "denied")
  PROVE  /\ \E c \in G!Ending[v] : outcome'[r] = <<c>>
         /\ passed'[r] => (v = "allow" \/ req[r].op # "check")
<1>1. CASE v = "allow"
  <2>1. outcome'[r] = <<"forward">>
    BY <1>1 DEF Forward, Conclude, TypeOK
  <2>. QED  BY <1>1, <2>1 DEF G!Ending
<1>2. CASE v = "deny"
  <2>1. outcome'[r] = <<"denied">> /\ passed' = passed
    BY <1>2 DEF Reply, Conclude, TypeOK
  <2>. QED  BY <1>2, <2>1 DEF G!Ending
<1>. QED  BY <1>1, <1>2 DEF Verdicts

LEMMA CacheReturnsMoves ==
  ASSUME TypeOK, NEW r \in Streams, LifeOf(r), CacheReturns(r)
  PROVE  LifeOf(r)' /\ Moves(r)
<1>1. UNCHANGED host /\ inside'[r] = "none" /\ checked' = checked
  BY DEF CacheReturns, LookupHit, LookupMiss, StoreReturns, PurgeReturns, TypeOK
<1>2. Sized(r)' /\ inside[r] # "none" /\ Passing(r) /\ ~(req[r].len > MaxBody[r])
  BY <1>1 DEF CacheReturns, LookupHit, LookupMiss, StoreReturns, PurgeReturns, LifeOf, Sized,
       host
<1>3. opened'[r]
  BY <1>1, <1>2 DEF LifeOf, Undispatched, host
<1>4. ASSUME NEW v \in Verdicts, LookupHit(r, v)
      PROVE  LifeOf(r)' /\ Moves(r)
  <2>1. LookingUp(r)
    BY <1>2, <1>4 DEF LookupHit, LifeOf, Phase, Undispatched, Waiting, Storing, Purging,
         Concluded
  <2>2. ~passed[r]
    BY <1>2, <2>1 DEF LookingUp, Passing
  <2>3. verdict'[r] = v /\ ctx' = ctx
    BY <1>4 DEF LookupHit, TypeOK
  <2>4. /\ \E c \in G!Ending[v] : outcome'[r] = <<c>>
        /\ passed'[r] => v = "allow"
    BY <1>4, <2>1, <2>2, ActMoves DEF LookupHit, LookingUp
  <2>5. Concluded(r)' /\ Passing(r)'
    BY <1>1, <2>1, <2>3, <2>4 DEF LookingUp, Concluded, Passing
  <2>. QED  BY <1>2, <1>3, <2>1, <2>3, <2>4, <2>5
            DEF LifeOf, Phase, Moves, LookingUp, Answers
<1>5. ASSUME LookupMiss(r)
      PROVE  LifeOf(r)' /\ Moves(r)
  <2>1. LookingUp(r)
    BY <1>2, <1>5 DEF LookupMiss, LifeOf, Phase, Undispatched, Waiting, Storing, Purging,
         Concluded
  <2>2. SendCall(r, ctx[r]) /\ UNCHANGED <<host, verdict>> /\ passed' = passed
    BY <1>5 DEF LookupMiss, SendCall, Reply
  <2>3. Passing(r)'
    BY <1>2, <2>2 DEF Passing, host
  <2>4. CASE /\ ctx' = [ctx EXCEPT ![r] = [ctx[r] EXCEPT !.grpc_token = r]]
             /\ call' = [call EXCEPT ![r] = "open"]
             /\ UNCHANGED <<passed, outcome>>
    <3>1. ctx[r] \in AuthzHttp
      BY DEF TypeOK
    <3>2. ctx'[r].dispatched /\ ctx'[r].grpc_token = r
      BY <2>1, <2>4, <3>1 DEF LookingUp, TypeOK, AuthzHttp
    <3>3. Waiting(r)'
      BY <1>1, <2>1, <2>2, <2>4, <3>2 DEF LookingUp, Waiting, host, TypeOK
    <3>. QED  BY <1>2, <1>3, <2>2, <2>3, <2>4, <3>3 DEF LifeOf, Phase, Moves
  <2>5. CASE /\ ctx' = [ctx EXCEPT ![r] = ctx[r]]
             /\ Reply(r, "503")
             /\ UNCHANGED call
    <3>1. ctx'[r] = ctx[r] /\ outcome'[r] = <<"503">>
      BY <2>1, <2>5 DEF Reply, Conclude, LookingUp, TypeOK
    <3>2. Concluded(r)'
      BY <1>1, <2>1, <3>1 DEF LookingUp, Concluded
    <3>3. Moves(r)
      BY <2>1, <2>2, <3>1 DEF Moves, G!Ending, LookingUp
    <3>. QED  BY <1>2, <1>3, <2>3, <3>2, <3>3 DEF LifeOf, Phase
  <2>. QED  BY <2>2, <2>4, <2>5 DEF SendCall
<1>6. ASSUME StoreReturns(r)
      PROVE  LifeOf(r)' /\ Moves(r)
  <2>1. Storing(r)
    BY <1>2, <1>6 DEF StoreReturns, LifeOf, Phase, Undispatched, LookingUp, Waiting, Purging,
         Concluded
  <2>2. UNCHANGED <<host, ctx, verdict>>
    BY <1>6 DEF StoreReturns
  <2>3. passed[r] => verdict[r] = "allow"
    BY <1>2, <2>1 DEF Storing, Passing
  <2>4. /\ \E c \in G!Ending[verdict[r]] : outcome'[r] = <<c>>
        /\ passed'[r] => verdict[r] = "allow"
    <3>1. CASE verdict[r] = "allow"
      <4>1. outcome'[r] = <<"forward">>
        BY <1>6, <2>1, <3>1 DEF StoreReturns, Storing, Forward, Conclude, TypeOK
      <4>. QED  BY <3>1, <4>1 DEF G!Ending
    <3>2. CASE verdict[r] # "allow"
      <4>1. verdict[r] = "deny"
        BY <2>1, <3>2 DEF Storing, Verdicts
      <4>2. ~passed[r]
        BY <2>3, <3>2
      <4>. QED  BY <1>6, <2>1, <4>1, <4>2, ActMoves DEF StoreReturns, Storing
    <3>. QED  BY <3>1, <3>2
  <2>5. Concluded(r)' /\ Passing(r)'
    BY <1>1, <2>1, <2>2, <2>4 DEF Storing, Concluded, Passing, host
  <2>. QED  BY <1>2, <1>3, <2>1, <2>2, <2>4, <2>5 DEF LifeOf, Phase, Moves, Storing
<1>7. ASSUME PurgeReturns(r)
      PROVE  LifeOf(r)' /\ Moves(r)
  <2>1. Purging(r)
    BY <1>2, <1>7 DEF PurgeReturns, LifeOf, Phase, Undispatched, LookingUp, Waiting, Storing,
         Concluded
  <2>2. UNCHANGED <<host, ctx, verdict, passed>> /\ outcome'[r] = <<"204">>
    BY <1>7, <2>1 DEF PurgeReturns, Reply, Conclude, Purging, TypeOK
  <2>3. Concluded(r)' /\ Passing(r)'
    BY <1>1, <1>2, <2>1, <2>2 DEF Purging, Concluded, Passing, host
  <2>. QED  BY <1>2, <1>3, <2>1, <2>2, <2>3 DEF LifeOf, Phase, Moves, Purging
<1>. QED  BY <1>4, <1>5, <1>6, <1>7 DEF CacheReturns

LEMMA ResponseMoves ==
  ASSUME TypeOK, NEW r \in Streams, LifeOf(r),
         NEW answer \in Answers, OnGrpcCallResponse(r, answer)
  PROVE  LifeOf(r)' /\ Moves(r)
<1>1. /\ UNCHANGED <<host, checked>> /\ inside[r] = "none" /\ call[r] # "none"
      /\ ~(req[r].len > MaxBody[r]) /\ alive[r]
  BY DEF OnGrpcCallResponse, Deliverable, LifeOf, Sized
<1>2. Sized(r)' /\ opened'[r] /\ Passing(r)
  BY <1>1 DEF LifeOf, Sized, Undispatched, host
<1>3. CASE ~Awaited(r)
  <2>1. Concluded(r)
    BY <1>1, <1>3 DEF Awaited, LifeOf, Phase, Undispatched, LookingUp, Waiting, Storing,
         Purging
  <2>2. UNCHANGED <<ctx, verdict, inside, passed, outcome>>
    BY <1>3 DEF OnGrpcCallResponse
  <2>3. Concluded(r)' /\ Passing(r)'
    BY <1>1, <1>2, <2>1, <2>2 DEF Concluded, Passing, host
  <2>. QED  BY <1>2, <2>2, <2>3 DEF LifeOf, Phase, Moves
<1>4. CASE Awaited(r)
  <2>1. Waiting(r)
    BY <1>1, <1>4, NoTokenAssumption DEF Awaited, LifeOf, Phase, Undispatched, LookingUp,
         Storing, Purging, Concluded
  <2>2. verdict'[r] = answer /\ ~passed[r]
    BY <1>2, <1>4, <2>1 DEF OnGrpcCallResponse, Waiting, Passing, TypeOK
  <2>3. ctx'[r].dispatched /\ ctx'[r].grpc_token = NoToken
    <3>1. ctx[r] \in AuthzHttp
      BY DEF TypeOK
    <3>2. ctx'[r] = [ctx[r] EXCEPT !.grpc_token = NoToken]
      BY <1>4 DEF OnGrpcCallResponse, TypeOK
    <3>. QED  BY <2>1, <3>1, <3>2 DEF Waiting, AuthzHttp
  <2>4. CASE answer \notin Verdicts /\ FailureReply(r, answer) /\ UNCHANGED inside
    <3>1. outcome'[r] = <<IF answer = "grpc_error" THEN "503" ELSE "500">>
      BY <2>1, <2>4 DEF FailureReply, Reply, Conclude, Waiting, TypeOK
    <3>2. \E c \in G!Ending[answer] : outcome'[r] = <<c>>
      BY <2>4, <3>1 DEF G!Ending, Answers, Verdicts
    <3>3. Concluded(r)' /\ Passing(r)'
      BY <1>1, <2>2, <2>3, <2>4, <3>1 DEF Concluded, Passing, FailureReply, Reply, host
    <3>. QED  BY <1>2, <2>1, <2>2, <3>2, <3>3 DEF LifeOf, Phase, Moves, Waiting
  <2>5. CASE /\ answer \in Verdicts /\ inside' = [inside EXCEPT ![r] = "store"]
             /\ UNCHANGED <<passed, outcome>>
    <3>1. Storing(r)' /\ Passing(r)'
      BY <1>1, <2>1, <2>2, <2>3, <2>5 DEF Waiting, Storing, Passing, host, TypeOK
    <3>. QED  BY <1>2, <2>1, <2>2, <2>5, <3>1 DEF LifeOf, Phase, Moves, Waiting
  <2>6. CASE /\ answer \in Verdicts /\ UNCHANGED inside
             /\ IF answer = "allow" THEN Forward(r) ELSE Reply(r, "denied")
    <3>1. /\ \E c \in G!Ending[answer] : outcome'[r] = <<c>>
          /\ passed'[r] => answer = "allow"
      BY <2>1, <2>2, <2>6, ActMoves DEF Waiting
    <3>2. Concluded(r)' /\ Passing(r)'
      BY <1>1, <2>2, <2>3, <2>6, <3>1 DEF Concluded, Passing, host
    <3>. QED  BY <1>2, <2>1, <2>2, <3>1, <3>2 DEF LifeOf, Phase, Moves, Waiting
  <2>. QED  BY <1>4, <2>4, <2>5, <2>6 DEF OnGrpcCallResponse
<1>. QED  BY <1>3, <1>4

LEMMA AbortMoves ==
  ASSUME TypeOK, NEW r \in Streams, LifeOf(r), Abort(r)
  PROVE  LifeOf(r)' /\ Moves(r)
<1>1. ~alive'[r] /\ call'[r] = "none" /\ inside[r] = "none"
  BY DEF Abort, Deliverable, TypeOK
<1>2. UNCHANGED <<req, opened, ctx, inside, checked, verdict, passed, outcome>>
  BY DEF Abort
<1>3. Phase(r)'
  BY <1>1, <1>2 DEF LifeOf, Phase, Undispatched, LookingUp, Waiting, Storing, Purging,
     Concluded
<1>4. Passing(r)' /\ Sized(r)' /\ (~opened[r] => Undispatched(r))'
  BY <1>1, <1>2 DEF LifeOf, Undispatched, Passing, Sized
<1>. QED  BY <1>2, <1>3, <1>4 DEF LifeOf, Moves

LEMMA LifeStep ==
  TypeOK /\ LifeInv /\ [Next]_vars => LifeInv'
<1>. SUFFICES ASSUME TypeOK, LifeInv, [Next]_vars PROVE LifeInv'
  OBVIOUS
<1>1. ASSUME NEW r \in Streams, StreamStep(r), NEW q \in Streams
      PROVE  LifeOf(q)'
  <2>1. CASE q = r
    BY <1>1, <2>1, HeadersMoves, BodyMoves, CacheReturnsMoves, ResponseMoves, AbortMoves
    DEF StreamStep, Received, Answered, LifeInv
  <2>2. CASE q # r
    BY <1>1, <2>2, StepLeavesOthers, UntouchedLife DEF LifeInv
  <2>. QED  BY <2>1, <2>2
<1>2. CASE UNCHANGED vars
  BY <1>2 DEF vars, host, LifeInv, LifeOf, Phase, Undispatched, LookingUp, Waiting, Storing,
     Purging, Concluded, Passing, Sized
<1>. QED  BY <1>1, <1>2 DEF Next, StreamStep, LifeInv

LEMMA StepMoves ==
  ASSUME TypeOK, LifeInv, NEW r \in Streams, StreamStep(r)
  PROVE  Moves(r)
BY HeadersMoves, BodyMoves, CacheReturnsMoves, ResponseMoves, AbortMoves
DEF StreamStep, Received, Answered, LifeInv

LEMMA GateInit == Init => G!Init
BY DEF Init, G!Init

LEMMA GateStep == TypeOK /\ LifeInv /\ [Next]_vars => [G!Next]_(G!vars)
<1>. SUFFICES ASSUME TypeOK, LifeInv, [Next]_vars PROVE [G!Next]_(G!vars)
  OBVIOUS
<1>. DEFINE invalidation == {r \in Streams : req[r].op # "check"}
<1>1. ASSUME NEW r \in Streams, StreamStep(r)
      PROVE  [G!Next]_(G!vars)
  <2>1. req' = req
    BY <1>1 DEF StreamStep, Received, OnHttpRequestHeaders, OnHttpRequestBody, CacheReturns,
       LookupHit, LookupMiss, StoreReturns, PurgeReturns, Answered, OnGrpcCallResponse, Abort,
       host
  <2>2. /\ verdict' = [verdict EXCEPT ![r] = verdict'[r]]
        /\ outcome' = [outcome EXCEPT ![r] = outcome'[r]]
    <3>1. TypeOK'
      BY <1>1, TypeStep DEF StreamStep, Next
    <3>2. \A q \in Streams \ {r} : verdict'[q] = verdict[q] /\ outcome'[q] = outcome[q]
      BY <1>1, StepLeavesOthers DEF Untouched
    <3>. QED  BY <3>1, <3>2, SMTT(30) DEF TypeOK
  <2>2a. /\ verdict'[r] = verdict[r] => verdict' = verdict
         /\ outcome'[r] = outcome[r] => outcome' = outcome
    <3>1. \A q \in Streams \ {r} : verdict'[q] = verdict[q] /\ outcome'[q] = outcome[q]
      BY <1>1, StepLeavesOthers DEF Untouched
    <3>2. TypeOK'
      BY <1>1, TypeStep DEF StreamStep, Next
    <3>3. ASSUME verdict'[r] = verdict[r]
          PROVE  verdict' = verdict
      <4>1. \A q \in Streams : verdict'[q] = verdict[q]
        BY <3>1, <3>3
      <4>. QED  BY <3>2, <4>1 DEF TypeOK
    <3>4. ASSUME outcome'[r] = outcome[r]
          PROVE  outcome' = outcome
      <4>1. \A q \in Streams : outcome'[q] = outcome[q]
        BY <3>1, <3>4
      <4>. QED  BY <3>2, <4>1 DEF TypeOK
    <3>. QED  BY <3>3, <3>4
  <2>3. invalidation' = invalidation /\ (r \in invalidation <=> req[r].op # "check")
    BY <2>1
  <2>4. CASE verdict'[r] = verdict[r] /\ outcome'[r] = outcome[r]
    <3>1. verdict' = verdict /\ outcome' = outcome
      BY <2>2a, <2>4
    <3>. QED  BY <2>3, <3>1 DEF G!vars
  <2>5. CASE /\ outcome[r] = <<>> /\ verdict'[r] = verdict[r]
             /\ \E c \in IF req[r].op # "check" THEN {"204", "400", "401", "413"}
                         ELSE G!Ending[verdict[r]] : outcome'[r] = <<c>>
    <3>1. verdict' = verdict
      BY <2>2a, <2>5
    <3>2. G!Conclude(r)
      BY <2>2, <2>3, <2>5, <3>1 DEF G!Conclude
    <3>. QED  BY <2>5, <3>2 DEF G!Next
  <2>6. CASE /\ outcome[r] = <<>> /\ req[r].op = "check"
             /\ verdict[r] = "none" /\ verdict'[r] \in Answers
             /\ outcome'[r] = <<>> \/ \E c \in G!Ending[verdict'[r]] : outcome'[r] = <<c>>
    <3>1. verdict'[r] \in G!Judgements
      BY <2>6 DEF G!Judgements, G!Ending, Answers, Verdicts
    <3>2. CASE outcome'[r] = <<>>
      <4>1. outcome' = outcome
        BY <2>2a, <2>6, <3>2
      <4>2. G!Judge(r)
        BY <2>2, <2>3, <2>6, <3>1, <4>1 DEF G!Judge
      <4>. QED  BY <2>6, <4>2 DEF G!Next
    <3>3. CASE \E c \in G!Ending[verdict'[r]] : outcome'[r] = <<c>>
      <4>1. G!Settle(r)
        BY <2>2, <2>3, <2>6, <3>1, <3>3 DEF G!Settle
      <4>. QED  BY <2>6, <4>1 DEF G!Next
    <3>. QED  BY <2>6, <3>2, <3>3
  <2>. QED  BY <1>1, <2>4, <2>5, <2>6, StepMoves DEF Moves
<1>2. CASE UNCHANGED vars
  BY <1>2 DEF vars, host, G!vars
<1>. QED  BY <1>1, <1>2 DEF Next, StreamStep
-----------------------------------------------------------------------------
LEMMA LifeHolds == Spec => [](TypeOK /\ LifeInv)
<1>1. Init => TypeOK /\ LifeInv
  BY TypeInit, LifeInit
<1>2. TypeOK /\ LifeInv /\ [Next]_vars => (TypeOK /\ LifeInv)'
  BY TypeStep, LifeStep
<1>. QED  BY <1>1, <1>2, PTL DEF Spec

\* Every stream is judged at most once and concluded at most once, as its judgement
\* calls for: the callbacks of lib.rs implement Gate.
THEOREM ImplementsGate == Spec => ActsAsGate
<1>. QED  BY GateInit, GateStep, LifeHolds, PTL DEF Spec, ActsAsGate, G!Spec

\* A dispatched stream is held by a running cache function or by an open call whose
\* answer it awaits, until it is concluded or gone: no callback strands it.
THEOREM NobodyStranded == Spec => []NotStranded
<1>1. LifeInv => NotStranded
  BY DEF LifeInv, LifeOf, Phase, Undispatched, LookingUp, Waiting, Storing, Purging,
     Concluded, NotStranded, Awaited
<1>. QED  BY <1>1, LifeHolds, PTL

\* Nothing but an allowance, by the service or by the cache, lets a check go on.
THEOREM FailClosed == Spec => []FailsClosed
<1>1. LifeInv => FailsClosed
  BY DEF LifeInv, LifeOf, Passing, FailsClosed
<1>. QED  BY <1>1, LifeHolds, PTL

\* A request beyond the limit of its settings is neither checked nor purges, however
\* its body is cut and whatever length it declares.
THEOREM OversizedFailClosed == Spec => []OversizedFailsClosed
<1>1. LifeInv => OversizedFailsClosed
  BY DEF LifeInv, LifeOf, Sized, OversizedFailsClosed
<1>. QED  BY <1>1, LifeHolds, PTL
-----------------------------------------------------------------------------
(* The body.  Until the dispatch the buffer holds what has arrived, unless a chunk *)
(* was lost; what is checked is the buffer when all has arrived.                   *)

BodyOf(r) ==
  /\ arrived[r] <= req[r].len /\ (~opened[r] => arrived[r] = 0)
  /\ ~ctx[r].dispatched =>
       /\ ctx[r].body_seen = arrived[r]
       /\ ~lost[r] => ctx[r].body_buf = Bytes(arrived[r])
  /\ ~lost[r] => checked[r] \in {<<>>, <<Bytes(req[r].len)>>}

BodyInv == \A r \in Streams : BodyOf(r)

LEMMA BytesGrow ==
  ASSUME NEW n \in Nat, NEW m \in Nat, n <= m
  PROVE  Bytes(n) \o SubSeq(Bytes(m), n + 1, m) = Bytes(m)
<1>1. Bytes(m) \in Seq(Nat) /\ Len(Bytes(m)) = m
  BY BytesType
<1>2. SubSeq(Bytes(m), 1, n) = Bytes(n)
  <2>1. SubSeq(Bytes(m), 1, n) = [i \in 1 .. n |-> Bytes(m)[i]]
    BY <1>1
  <2>2. \A i \in 1 .. n : Bytes(m)[i] = i
    BY DEF Bytes
  <2>. QED  BY <2>1, <2>2 DEF Bytes
<1>3. SubSeq(Bytes(m), 1, m) = Bytes(m)
  BY <1>1, SubSeqFull
<1>4. SubSeq(Bytes(m), 1, n) \o SubSeq(Bytes(m), n + 1, m) = SubSeq(Bytes(m), 1, m)
  <2>1. /\ 1 \in 1 .. Len(Bytes(m)) + 1 /\ n \in 1 - 1 .. Len(Bytes(m))
        /\ m \in n .. Len(Bytes(m))
    BY <1>1
  <2>. QED  BY <1>1, <2>1, ConcatAdjacentSubSeq
<1>. QED  BY <1>2, <1>3, <1>4

LEMMA BodyInit == Init => BodyInv
<1>. SUFFICES ASSUME Init, NEW r \in Streams PROVE BodyOf(r)
  BY DEF BodyInv
<1>1. Bytes(0) = <<>>
  BY DEF Bytes
<1>2. req[r].len \in Nat
  BY RequestsAssumption DEF Init
<1>. QED  BY <1>1, <1>2 DEF Init, BodyOf

LEMMA UntouchedBody ==
  ASSUME NEW q \in Streams, Untouched(q), BodyOf(q)
  PROVE  BodyOf(q)'
BY DEF Untouched, BodyOf

LEMMA CompleteChecks ==
  ASSUME TypeOK, NEW r \in Streams, NEW c \in AuthzHttp, Complete(r, c),
         checked[r] = <<>>
  PROVE  /\ ctx'[r].dispatched
         /\ checked'[r] \in {<<>>, <<c.body_buf>>}
<1>1. CASE HandleInvalidationRequest(r, c)
  BY <1>1 DEF HandleInvalidationRequest, TypeOK, AuthzHttp
<1>2. CASE DispatchCheckRequest(r, c)
  <2>1. checked'[r] = <<c.body_buf>>
    BY <1>2 DEF DispatchCheckRequest, TypeOK
  <2>2. ctx'[r].dispatched
    <3>. DEFINE taken == [c EXCEPT !.dispatched = TRUE, !.body_buf = <<>>]
    <3>1. taken \in AuthzHttp /\ taken.dispatched
      BY EmptyType DEF AuthzHttp
    <3>2. [taken EXCEPT !.grpc_token = r].dispatched
      BY <3>1 DEF AuthzHttp
    <3>3. \/ ctx' = [ctx EXCEPT ![r] = taken]
          \/ ctx' = [ctx EXCEPT ![r] = [taken EXCEPT !.grpc_token = r]]
      BY <1>2 DEF DispatchCheckRequest, SendCall
    <3>. QED  BY <3>1, <3>2, <3>3 DEF TypeOK
  <2>. QED  BY <2>1, <2>2
<1>. QED  BY <1>1, <1>2 DEF Complete

LEMMA HeadersBody ==
  ASSUME TypeOK, NEW r \in Streams, LifeOf(r), BodyOf(r),
         NEW end_of_stream \in BOOLEAN, OnHttpRequestHeaders(r, end_of_stream)
  PROVE  BodyOf(r)'
<1>. DEFINE c == [ctx[r] EXCEPT !.is_invalidation_request = req[r].op # "check"]
<1>1. Undispatched(r) /\ arrived[r] = 0
  BY DEF OnHttpRequestHeaders, LifeOf, BodyOf
<1>1a. ReadHeaders(r, end_of_stream)
  BY <1>1 DEF OnHttpRequestHeaders, Undispatched, Settled
<1>2. UNCHANGED <<req, arrived, lost>>
  BY <1>1a DEF OnHttpRequestHeaders, ReadHeaders, RejectPayloadTooLarge
<1>3. ctx[r] \in AuthzHttp
  BY DEF TypeOK
<1>3a. c \in AuthzHttp /\ c.body_buf = ctx[r].body_buf /\ c.body_seen = ctx[r].body_seen
  BY <1>3 DEF AuthzHttp
<1>4. opened'[r]
  BY DEF OnHttpRequestHeaders, TypeOK
<1>5. CASE RejectPayloadTooLarge(r)
  <2>1. ctx'[r].dispatched /\ checked' = checked
    BY <1>3, <1>5 DEF RejectPayloadTooLarge, TypeOK, AuthzHttp
  <2>. QED  BY <1>2, <1>4, <2>1 DEF BodyOf
<1>6. CASE end_of_stream /\ Complete(r, c)
  <2>1. ctx'[r].dispatched /\ checked'[r] \in {<<>>, <<c.body_buf>>}
    BY <1>1, <1>3a, <1>6, CompleteChecks DEF Undispatched
  <2>2. req[r].len = 0
    BY <1>6 DEF OnHttpRequestHeaders
  <2>3. ~lost[r] => c.body_buf = Bytes(req[r].len)
    BY <1>1, <1>3a, <2>2 DEF BodyOf, Undispatched
  <2>. QED  BY <1>2, <1>4, <2>1, <2>3 DEF BodyOf
<1>7. CASE ctx' = [ctx EXCEPT ![r] = c] /\ UNCHANGED checked
  <2>1. ctx'[r] = c
    BY <1>7 DEF TypeOK
  <2>2. ctx'[r].body_buf = ctx[r].body_buf /\ ctx'[r].body_seen = ctx[r].body_seen
    BY <1>3a, <2>1
  <2>. QED  BY <1>1, <1>2, <1>4, <1>7, <2>2 DEF BodyOf, Undispatched
<1>. QED  BY <1>1a, <1>5, <1>6, <1>7 DEF ReadHeaders

LEMMA BodyBody ==
  ASSUME TypeOK, NEW r \in Streams, LifeOf(r), BodyOf(r),
         NEW body_size \in 0 .. req[r].len, NEW end_of_stream \in BOOLEAN,
         OnHttpRequestBody(r, body_size, end_of_stream)
  PROVE  BodyOf(r)'
<1>1. /\ body_size \in Nat /\ req[r].len \in Nat /\ arrived[r] \in Nat
      /\ arrived[r] <= body_size /\ body_size <= req[r].len
  BY RequestsAssumption DEF TypeOK, OnHttpRequestBody
<1>2. UNCHANGED <<req, opened>> /\ opened[r] /\ arrived'[r] = body_size
  BY DEF OnHttpRequestBody, TypeOK
<1>3. ctx[r] \in AuthzHttp
  BY DEF TypeOK
<1>4. CASE Settled(r) /\ UNCHANGED <<ctx, lost, checked>>
  BY <1>1, <1>2, <1>4 DEF Settled, BodyOf
<1>5. CASE RejectPayloadTooLarge(r)
  <2>1. ctx'[r].dispatched /\ checked' = checked /\ lost' = lost
    BY <1>3, <1>5 DEF RejectPayloadTooLarge, TypeOK, AuthzHttp
  <2>. QED  BY <1>1, <1>2, <2>1 DEF BodyOf
<1>6. ASSUME ~Settled(r),
             NEW chunk \in {SubSeq(Bytes(body_size), ChunkStart(r), body_size), <<>>},
             NEW c, c = [ctx[r] EXCEPT !.body_buf = @ \o chunk, !.body_seen = body_size],
             lost' = [lost EXCEPT ![r] = @ \/ (chunk = <<>> /\ body_size > ctx[r].body_seen)],
             IF end_of_stream
             THEN Complete(r, c)
             ELSE /\ ctx' = [ctx EXCEPT ![r] = c]
                  /\ UNCHANGED <<inside, checked, call, verdict, passed, outcome>>
      PROVE  BodyOf(r)'
  <2>1. c \in AuthzHttp
    BY <1>1, <1>6, ChunkType
  <2>2. c.body_buf = ctx[r].body_buf \o chunk /\ c.body_seen = body_size
    BY <1>3, <1>6 DEF AuthzHttp
  <2>3. checked[r] = <<>> /\ ctx[r].body_seen = arrived[r]
    BY <1>6 DEF Settled, LifeOf, Phase, Undispatched, LookingUp, Waiting, Storing, Purging,
       Concluded, BodyOf
  <2>4. ASSUME ~lost'[r]
        PROVE  c.body_buf = Bytes(body_size)
    <3>0. lost'[r] = (lost[r] \/ (chunk = <<>> /\ body_size > ctx[r].body_seen))
      BY <1>6, Zenon DEF TypeOK
    <3>0a. ~lost[r] /\ ~(chunk = <<>> /\ body_size > ctx[r].body_seen)
      BY <2>4, <3>0, Zenon
    <3>1. ~lost[r] /\ (chunk = <<>> => body_size <= arrived[r])
      BY <1>1, <2>3, <3>0a
    <3>2. ctx[r].body_buf = Bytes(arrived[r])
      BY <1>6, <3>1 DEF Settled, BodyOf
    <3>3. CASE chunk = <<>>
      <4>1. body_size = arrived[r]
        BY <1>1, <3>1, <3>3
      <4>2. Bytes(body_size) \in Seq(Nat)
        BY <1>1, BytesType
      <4>3. Bytes(body_size) \o <<>> = Bytes(body_size)
        BY <4>2
      <4>. QED  BY <2>2, <3>2, <3>3, <4>1, <4>3
    <3>4. CASE chunk = SubSeq(Bytes(body_size), arrived[r] + 1, body_size)
      BY <1>1, <2>2, <3>2, <3>4, BytesGrow
    <3>. QED  BY <2>3, <3>3, <3>4 DEF ChunkStart
  <2>5. CASE end_of_stream /\ Complete(r, c)
    <3>1. body_size = req[r].len
      BY <2>5 DEF OnHttpRequestBody
    <3>2. ctx'[r].dispatched /\ checked'[r] \in {<<>>, <<c.body_buf>>}
      BY <2>1, <2>3, <2>5, CompleteChecks
    <3>. QED  BY <1>1, <1>2, <2>4, <3>1, <3>2 DEF BodyOf
  <2>6. CASE ctx' = [ctx EXCEPT ![r] = c] /\ UNCHANGED checked
    <3>1. ctx'[r] = c
      BY <2>6 DEF TypeOK
    <3>. QED  BY <1>1, <1>2, <2>2, <2>3, <2>4, <2>6, <3>1 DEF BodyOf
  <2>. QED  BY <1>6, <2>5, <2>6
<1>. QED  BY <1>4, <1>5, <1>6 DEF OnHttpRequestBody

\* The other steps do not touch the body.
LEMMA OthersBody ==
  ASSUME TypeOK, NEW r \in Streams, BodyOf(r),
         CacheReturns(r) \/ Answered(r) \/ Abort(r)
  PROVE  BodyOf(r)'
<1>1. ctx[r] \in AuthzHttp
  BY DEF TypeOK
<1>2. UNCHANGED <<req, opened, arrived, lost, checked>>
  BY DEF CacheReturns, LookupHit, LookupMiss, StoreReturns, PurgeReturns, Answered,
     OnGrpcCallResponse, Abort, host
<1>3. \/ ctx' = ctx
      \/ ctx' = [ctx EXCEPT ![r] = ctx[r]]
      \/ \E t : ctx' = [ctx EXCEPT ![r] = [ctx[r] EXCEPT !.grpc_token = t]]
  BY DEF CacheReturns, LookupHit, LookupMiss, SendCall, StoreReturns, PurgeReturns, Answered,
     OnGrpcCallResponse, Abort
<1>4. \A t : LET d == [ctx[r] EXCEPT !.grpc_token = t]
            IN  /\ d.dispatched = ctx[r].dispatched /\ d.body_seen = ctx[r].body_seen
                /\ d.body_buf = ctx[r].body_buf
  BY <1>1 DEF AuthzHttp
<1>5. /\ ctx'[r].dispatched = ctx[r].dispatched /\ ctx'[r].body_seen = ctx[r].body_seen
      /\ ctx'[r].body_buf = ctx[r].body_buf
  <2>1. CASE ctx' = ctx \/ ctx' = [ctx EXCEPT ![r] = ctx[r]]
    BY <2>1 DEF TypeOK
  <2>2. ASSUME NEW t, ctx' = [ctx EXCEPT ![r] = [ctx[r] EXCEPT !.grpc_token = t]]
        PROVE  /\ ctx'[r].dispatched = ctx[r].dispatched
               /\ ctx'[r].body_seen = ctx[r].body_seen /\ ctx'[r].body_buf = ctx[r].body_buf
    <3>1. ctx'[r] = [ctx[r] EXCEPT !.grpc_token = t]
      BY <2>2 DEF TypeOK
    <3>. QED  BY <1>4, <3>1, Zenon
  <2>. QED  BY <1>3, <2>1, <2>2, Zenon
<1>. QED  BY <1>2, <1>5 DEF BodyOf

LEMMA BodyStep == TypeOK /\ LifeInv /\ BodyInv /\ [Next]_vars => BodyInv'
<1>. SUFFICES ASSUME TypeOK, LifeInv, BodyInv, [Next]_vars PROVE BodyInv'
  OBVIOUS
<1>1. ASSUME NEW r \in Streams, StreamStep(r), NEW q \in Streams
      PROVE  BodyOf(q)'
  <2>1. CASE q = r
    BY <1>1, <2>1, HeadersBody, BodyBody, OthersBody DEF StreamStep, Received, LifeInv, BodyInv
  <2>2. CASE q # r
    BY <1>1, <2>2, StepLeavesOthers, UntouchedBody DEF BodyInv
  <2>. QED  BY <2>1, <2>2
<1>2. CASE UNCHANGED vars
  BY <1>2 DEF vars, host, BodyInv, BodyOf
<1>. QED  BY <1>1, <1>2 DEF Next, StreamStep, BodyInv

\* The service is asked about the body the client sent, whole and in order, for any
\* length and however it is cut into callbacks.
THEOREM WholeBodyChecked == Spec => []ChecksTheWholeBody
<1>1. BodyInv => ChecksTheWholeBody
  BY DEF BodyInv, BodyOf, ChecksTheWholeBody
<1>. QED  BY <1>1, BodyInit, BodyStep, LifeHolds, PTL DEF Spec
-----------------------------------------------------------------------------
(* What a step needs and leaves, for the proofs about the whole filter. *)

\* A client that has gone leaves neither a callback nor a call behind.
GoneInv == \A r \in Streams : ~alive[r] => inside[r] = "none" /\ call[r] = "none"

LEMMA GoneInit == Init => GoneInv
BY DEF Init, GoneInv

LEMMA OnlyAliveStep ==
  ASSUME GoneInv, NEW r \in Streams, StreamStep(r)
  PROVE  alive[r]
BY DEF GoneInv, StreamStep, Received, OnHttpRequestHeaders, OnHttpRequestBody, CacheReturns,
   LookupHit, LookupMiss, StoreReturns, PurgeReturns, Answered, OnGrpcCallResponse, Abort,
   Deliverable

LEMMA GoneStep == TypeOK /\ GoneInv /\ [Next]_vars => GoneInv'
<1>. SUFFICES ASSUME TypeOK, GoneInv, [Next]_vars PROVE GoneInv'
  OBVIOUS
<1>1. ASSUME NEW r \in Streams, StreamStep(r), ~Abort(r)
      PROVE  alive' = alive /\ alive[r]
  BY <1>1, OnlyAliveStep DEF StreamStep, Received, OnHttpRequestHeaders, OnHttpRequestBody,
     CacheReturns, LookupHit, LookupMiss, StoreReturns, PurgeReturns, Answered,
     OnGrpcCallResponse, host
<1>2. ASSUME NEW r \in Streams, StreamStep(r), ~Abort(r), NEW q \in Streams, ~alive'[q]
      PROVE  inside'[q] = "none" /\ call'[q] = "none"
  <2>1. q # r /\ ~alive[q]
    BY <1>1, <1>2
  <2>. QED  BY <1>2, <2>1, StepLeavesOthers DEF Untouched, GoneInv
<1>3. ASSUME NEW r \in Streams, Abort(r)
      PROVE  GoneInv'
  BY <1>3 DEF Abort, Deliverable, GoneInv, TypeOK
<1>4. CASE UNCHANGED vars
  BY <1>4 DEF vars, host, GoneInv
<1>. QED  BY <1>2, <1>3, <1>4 DEF Next, StreamStep, GoneInv

\* A callback of the proxy finds no other running, and never enters the store.
LEMMA CompleteEnters ==
  ASSUME TypeOK, NEW r \in Streams, NEW c \in AuthzHttp, Complete(r, c), inside[r] = "none"
  PROVE  inside'[r] \in {"none", "lookup", "purge"}
<1>1. CASE HandleInvalidationRequest(r, c)
  BY <1>1 DEF HandleInvalidationRequest, TypeOK
<1>2. CASE DispatchCheckRequest(r, c)
  BY <1>2 DEF DispatchCheckRequest, TypeOK
<1>. QED  BY <1>1, <1>2 DEF Complete

LEMMA ReceivedEnters ==
  ASSUME TypeOK, NEW r \in Streams, Received(r)
  PROVE  inside[r] = "none" /\ inside'[r] \in {"none", "lookup", "purge"}
<1>1. inside[r] = "none"
  BY DEF Received, OnHttpRequestHeaders, OnHttpRequestBody, Deliverable
<1>2. ctx[r] \in AuthzHttp
  BY DEF TypeOK
<1>3. ASSUME NEW end_of_stream \in BOOLEAN, OnHttpRequestHeaders(r, end_of_stream)
      PROVE  inside'[r] \in {"none", "lookup", "purge"}
  <2>. DEFINE c == [ctx[r] EXCEPT !.is_invalidation_request = req[r].op # "check"]
  <2>1. c \in AuthzHttp
    BY <1>2 DEF AuthzHttp
  <2>2. inside' = inside \/ Complete(r, c)
    BY <1>3 DEF OnHttpRequestHeaders, ReadHeaders, RejectPayloadTooLarge
  <2>. QED  BY <1>1, <2>1, <2>2, CompleteEnters
<1>4. ASSUME NEW body_size \in 0 .. req[r].len, NEW end_of_stream \in BOOLEAN,
             OnHttpRequestBody(r, body_size, end_of_stream)
      PROVE  inside'[r] \in {"none", "lookup", "purge"}
  <2>1. body_size \in Nat
    BY RequestsAssumption DEF TypeOK
  <2>2. \/ inside' = inside
        \/ \E chunk \in {SubSeq(Bytes(body_size), ChunkStart(r), body_size), <<>>} :
             Complete(r, [ctx[r] EXCEPT !.body_buf = @ \o chunk, !.body_seen = body_size])
    BY <1>4 DEF OnHttpRequestBody, RejectPayloadTooLarge
  <2>. QED  BY <1>1, <2>1, <2>2, ChunkType, CompleteEnters
<1>. QED  BY <1>1, <1>3, <1>4 DEF Received

\* A callback enters the store with a verdict the service has just answered, which
\* it was asked for by the call that is still open.
LEMMA ResponseEnters ==
  ASSUME TypeOK, LifeInv, NEW r \in Streams, NEW answer \in Answers,
         OnGrpcCallResponse(r, answer)
  PROVE  /\ inside[r] = "none" /\ inside'[r] \in {"none", "store"}
         /\ inside'[r] = "store" => answer \in Verdicts /\ call[r] = "open"
<1>1. inside[r] = "none" /\ alive[r]
  BY DEF OnGrpcCallResponse, Deliverable
<1>2. CASE ~Awaited(r)
  BY <1>1, <1>2 DEF OnGrpcCallResponse
<1>3. CASE Awaited(r)
  <2>1. call[r] = "open"
    BY <1>1, <1>3, NoTokenAssumption DEF Awaited, LifeInv, LifeOf, Phase, Undispatched,
       LookingUp, Waiting, Storing, Purging, Concluded
  <2>. QED  BY <1>1, <1>3, <2>1 DEF OnGrpcCallResponse, TypeOK
<1>. QED  BY <1>2, <1>3

\* Who has been concluded stays so, with the verdict it had.
LEMMA ConcludedStays ==
  ASSUME TypeOK, LifeInv, [Next]_vars, NEW q \in Streams, outcome[q] # <<>>
  PROVE  outcome'[q] = outcome[q] /\ verdict'[q] = verdict[q]
<1>1. ASSUME NEW r \in Streams, StreamStep(r)
      PROVE  outcome'[q] = outcome[q] /\ verdict'[q] = verdict[q]
  BY <1>1, StepMoves, StepLeavesOthers DEF Moves, Untouched
<1>2. CASE UNCHANGED vars
  BY <1>2 DEF vars
<1>. QED  BY <1>1, <1>2 DEF Next, StreamStep

\* A stream makes one call, and only its client's leaving forgets it.
CallMoves(r) ==
  \/ call'[r] = call[r]
  \/ /\ call[r] = "none" /\ call'[r] = "open"
     /\ Received(r) \/ LookupMiss(r)
  \/ call[r] # "none" /\ call'[r] = "answered"
  \/ Abort(r)

LEMMA SendCallCalls ==
  ASSUME TypeOK, NEW r \in Streams, NEW c, SendCall(r, c)
  PROVE  call'[r] \in {call[r], "open"}
BY DEF SendCall, TypeOK

LEMMA CompleteCalls ==
  ASSUME TypeOK, NEW r \in Streams, NEW c, Complete(r, c)
  PROVE  call'[r] \in {call[r], "open"}
BY SendCallCalls DEF Complete, HandleInvalidationRequest, DispatchCheckRequest

LEMMA CallStep ==
  ASSUME TypeOK, LifeInv, NEW r \in Streams, StreamStep(r)
  PROVE  CallMoves(r)
<1>1. CASE Received(r)
  <2>1. call'[r] \in {call[r], "open"}
    <3>1. ASSUME NEW end_of_stream \in BOOLEAN, OnHttpRequestHeaders(r, end_of_stream)
          PROVE  call'[r] \in {call[r], "open"}
      BY <3>1, CompleteCalls DEF OnHttpRequestHeaders, ReadHeaders, RejectPayloadTooLarge
    <3>2. ASSUME NEW body_size, NEW end_of_stream \in BOOLEAN,
                 OnHttpRequestBody(r, body_size, end_of_stream)
          PROVE  call'[r] \in {call[r], "open"}
      BY <3>2, CompleteCalls DEF OnHttpRequestBody, RejectPayloadTooLarge
    <3>. QED  BY <1>1, <3>1, <3>2 DEF Received
  <2>2. CASE Undispatched(r)
    BY <1>1, <2>1, <2>2 DEF Undispatched, CallMoves
  <2>3. CASE ~Undispatched(r)
    <3>1. opened[r] /\ ctx[r].dispatched
      BY <2>3 DEF LifeInv, LifeOf, Phase, LookingUp, Waiting, Storing, Purging, Concluded
    <3>2. call' = call
      BY <1>1, <3>1 DEF Received, OnHttpRequestHeaders, OnHttpRequestBody, Settled
    <3>. QED  BY <3>2 DEF CallMoves
  <2>. QED  BY <2>2, <2>3
<1>2. CASE LookupMiss(r)
  <2>1. call[r] = "none"
    BY <1>2 DEF LookupMiss, LifeInv, LifeOf, Phase, Undispatched, LookingUp, Waiting, Storing,
       Purging, Concluded
  <2>. QED  BY <1>2, <2>1, SendCallCalls DEF LookupMiss, CallMoves
<1>3. CASE CacheReturns(r) /\ ~LookupMiss(r)
  BY <1>3 DEF CacheReturns, LookupHit, StoreReturns, PurgeReturns, CallMoves
<1>4. CASE Answered(r)
  BY <1>4 DEF Answered, OnGrpcCallResponse, CallMoves, TypeOK
<1>5. CASE Abort(r)
  BY <1>5 DEF CallMoves
<1>. QED  BY <1>1, <1>2, <1>3, <1>4, <1>5 DEF StreamStep
=============================================================================
