---------------------------- MODULE FilterStream ----------------------------
(***************************************************************************)
(* The life of the filter's streams: one AuthzHttp context per request     *)
(* (src/lib.rs), driven by the callbacks of the proxy and by the answers   *)
(* of the authorization service.  A callback is one step, except where it  *)
(* enters the shared cache: there it is cut at the call and at the return, *)
(* because callbacks of other workers run meanwhile.  What the cache does  *)
(* in between is left open here; FilterSystem composes this module with    *)
(* SharedCache.                                                            *)
(*                                                                         *)
(* The proxy is modelled as the code takes it to be: a paused request goes *)
(* on delivering its body, body_size counts all the bytes so far, callbacks *)
(* of one worker do not overlap, an open call is answered (with a deadline  *)
(* status if need be), and an aborted stream ends between two callbacks,   *)
(* its call cancelled.  Requests have no trailers.                         *)
(***************************************************************************)
EXTENDS Naturals, Sequences

CONSTANTS
  Streams,
  WorkerOf,      \* the worker thread (and VM) of a stream
  Requests,      \* the requests a client may send
  MaxBody,       \* stream -> request_body.max_bytes of its settings
  CacheEnabled   \* the streams with cache.enabled in their settings

\* op: "check" is any request but the invalidation POST; an invalidation has a
\* good secret and a good body ("purge"), a wrong secret or a body that does not
\* parse.  declared: the request carries its content-length.
RequestOps == {"check", "purge", "unauthorized", "malformed"}
ASSUME RequestsAssumption ==
  /\ Requests \subseteq [op : RequestOps, len : Nat, declared : BOOLEAN]
  /\ \A q \in Requests : q.op = "purge" => q.len > 0   \* its body is some JSON
\* request_body.max_bytes = 0 is rejected by validate_request_body
ASSUME MaxBodyAssumption == MaxBody \in [Streams -> Nat \ {0}]
ASSUME CacheEnabledAssumption == CacheEnabled \subseteq Streams

VARIABLES
  req,      \* the request of each stream
  opened,   \* on_http_request_headers has been called
  arrived,  \* bytes of the body the proxy has buffered and announced
  ended,    \* a callback has said end_of_stream
  alive,    \* the context exists
  ctx,      \* the fields of AuthzHttp that steer it
  inside,   \* the cache function the running callback is in, or "none"
  lost,     \* history: get_http_request_body returned None for some chunk
  checked,  \* history: the bodies of the CheckRequests built
  call,     \* the gRPC call of the stream, as the proxy sees it
  verdict,  \* history: what the service, or the cache, said
  passed,   \* the request headers have gone on to the next filter
  outcome   \* how the stream was concluded: local replies and resumptions

host == <<req, opened, arrived, ended, alive>>
vars == <<host, ctx, inside, lost, checked, call, verdict, passed, outcome>>

NoToken  == "no token"
ASSUME NoTokenAssumption == NoToken \notin Streams
Verdicts == {"allow", "deny"}
\* What on_grpc_call_response can be called with: an OK status with a body that
\* decodes to a verdict, with one that does not decode, with none; or an error.
Answers  == Verdicts \cup {"undecodable", "no_body", "grpc_error"}
Replies  == {"204", "400", "401", "413", "500", "503", "denied"}

AuthzHttp ==
  [dispatched : BOOLEAN, is_invalidation_request : BOOLEAN, body_buf : Seq(Nat),
   body_seen : Nat, grpc_token : Streams \cup {NoToken}]

\* The body of a request: its bytes are told apart by their position.
Bytes(n) == [i \in 1 .. n |-> i]

TypeOK ==
  /\ req \in [Streams -> Requests]
  /\ opened \in [Streams -> BOOLEAN] /\ ended \in [Streams -> BOOLEAN]
  /\ alive \in [Streams -> BOOLEAN]
  /\ arrived \in [Streams -> Nat]
  /\ ctx \in [Streams -> AuthzHttp]
  /\ inside \in [Streams -> {"none", "lookup", "store", "purge"}]
  /\ lost \in [Streams -> BOOLEAN] /\ passed \in [Streams -> BOOLEAN]
  /\ checked \in [Streams -> Seq(Seq(Nat))]
  /\ call \in [Streams -> {"none", "open", "answered"}]
  /\ verdict \in [Streams -> Answers \cup {"none"}]
  /\ outcome \in [Streams -> Seq(Replies \cup {"forward"})]

Init ==
  /\ req \in [Streams -> Requests]
  /\ opened = [r \in Streams |-> FALSE] /\ ended = [r \in Streams |-> FALSE]
  /\ alive = [r \in Streams |-> TRUE]
  /\ arrived = [r \in Streams |-> 0]
  /\ ctx = [r \in Streams |->
       [dispatched |-> FALSE, is_invalidation_request |-> FALSE,
        body_buf |-> <<>>, body_seen |-> 0, grpc_token |-> NoToken]]
  /\ inside = [r \in Streams |-> "none"]
  /\ lost = [r \in Streams |-> FALSE] /\ passed = [r \in Streams |-> FALSE]
  /\ checked = [r \in Streams |-> <<>>]
  /\ call = [r \in Streams |-> "none"]
  /\ verdict = [r \in Streams |-> "none"]
  /\ outcome = [r \in Streams |-> <<>>]

\* A callback can be delivered to r: no callback is running on its worker.
Deliverable(r) ==
  alive[r] /\ \A q \in Streams : WorkerOf[q] = WorkerOf[r] => inside[q] = "none"

Conclude(r, c) == outcome' = [outcome EXCEPT ![r] = Append(@, c)]

\* resume_http_request, or Action::Continue: the request goes on.
Forward(r) == Conclude(r, "forward") /\ passed' = [passed EXCEPT ![r] = TRUE]
Reply(r, status) == Conclude(r, status) /\ UNCHANGED passed
-----------------------------------------------------------------------------
(* The request comes in. *)

RejectPayloadTooLarge(r) ==
  /\ ctx' = [ctx EXCEPT ![r].dispatched = TRUE]
  /\ Reply(r, "413")
  /\ UNCHANGED <<inside, lost, checked, call, verdict>>

\* In what follows c is the context r as the callback has edited it so far.

\* The body is read whole: what InvalidationRequest::parse needs to succeed.
IsWhole(r, c) == Len(c.body_buf) = req[r].len

\* handle_invalidation_request, up to the purge function.
HandleInvalidationRequest(r, c) ==
  /\ ctx' = [ctx EXCEPT ![r] = [c EXCEPT !.dispatched = TRUE]]
  /\ \/ /\ req[r].op = "unauthorized"
        /\ Reply(r, "401") /\ UNCHANGED inside
     \/ /\ req[r].op = "malformed" \/ (req[r].op = "purge" /\ ~IsWhole(r, c))
        /\ Reply(r, "400") /\ UNCHANGED inside
     \/ /\ req[r].op = "purge" /\ IsWhole(r, c)
        /\ inside' = [inside EXCEPT ![r] = "purge"]
        /\ UNCHANGED <<passed, outcome>>
  /\ UNCHANGED <<checked, call, verdict>>

\* Fault: the error of dispatch_grpc_call is logged and nothing else.
SendCall_SilentFailure(r, c) ==
  \/ /\ ctx' = [ctx EXCEPT ![r] = [c EXCEPT !.grpc_token = r]]
     /\ call' = [call EXCEPT ![r] = "open"]
     /\ UNCHANGED <<passed, outcome>>
  \/ ctx' = [ctx EXCEPT ![r] = c] /\ UNCHANGED <<call, passed, outcome>>

\* dispatch_grpc_call.
SendCall(r, c) ==
  \/ /\ ctx' = [ctx EXCEPT ![r] = [c EXCEPT !.grpc_token = r]]
     /\ call' = [call EXCEPT ![r] = "open"]
     /\ UNCHANGED <<passed, outcome>>
  \/ /\ ctx' = [ctx EXCEPT ![r] = c]
     /\ Reply(r, "503")
     /\ UNCHANGED call

\* dispatch_check_request, up to get_cache_entry when there is a cache.
DispatchCheckRequest(r, c) ==
  LET taken == [c EXCEPT !.dispatched = TRUE, !.body_buf = <<>>]
  IN  /\ checked' = [checked EXCEPT ![r] = Append(@, c.body_buf)]
      /\ IF r \in CacheEnabled
         THEN /\ inside' = [inside EXCEPT ![r] = "lookup"]
              /\ ctx' = [ctx EXCEPT ![r] = taken]
              /\ UNCHANGED <<call, passed, outcome>>
         ELSE SendCall(r, taken) /\ UNCHANGED inside
      /\ UNCHANGED verdict

\* end_of_stream: the request is complete.
Complete(r, c) ==
  IF c.is_invalidation_request THEN HandleInvalidationRequest(r, c)
  ELSE DispatchCheckRequest(r, c)

\* Fault: the size of the body is checked against the declared length only.
TooLarge_DeclaredOnly(r, size) == req[r].declared /\ req[r].len > MaxBody[r]

TooLarge(r, size) == size > MaxBody[r]

\* Fault: callbacks after the dispatch are handled like the first.
Settled_Ignored(r) == FALSE

Settled(r) == ctx[r].dispatched

\* on_http_request_headers past that test.
ReadHeaders(r, end_of_stream) ==
  LET c == [ctx[r] EXCEPT !.is_invalidation_request = req[r].op # "check"]
      content_length_exceeded == req[r].declared /\ req[r].len > MaxBody[r]
  IN  \/ /\ content_length_exceeded
         /\ RejectPayloadTooLarge(r)
      \/ /\ ~content_length_exceeded /\ end_of_stream
         /\ Complete(r, c) /\ UNCHANGED lost
      \/ /\ ~content_length_exceeded /\ ~end_of_stream
         /\ ctx' = [ctx EXCEPT ![r] = c]
         \* an invalidation continues: its headers go on, its body does not
         /\ passed' = [passed EXCEPT ![r] = c.is_invalidation_request]
         /\ UNCHANGED <<inside, lost, checked, call, verdict, outcome>>

\* The proxy delivers the headers once, before anything is dispatched: the code
\* tests all the same.
OnHttpRequestHeaders(r, end_of_stream) ==
  /\ Deliverable(r) /\ ~opened[r]
  /\ end_of_stream => req[r].len = 0
  /\ opened' = [opened EXCEPT ![r] = TRUE]
  /\ ended' = [ended EXCEPT ![r] = end_of_stream]
  /\ UNCHANGED <<req, arrived, alive>>
  /\ IF Settled(r)
     THEN UNCHANGED <<ctx, inside, lost, checked, call, verdict, passed, outcome>>
     ELSE ReadHeaders(r, end_of_stream)

\* Fault: every callback reads the body from its beginning.
ChunkStart_Zero(r) == 1

ChunkStart(r) == ctx[r].body_seen + 1

OnHttpRequestBody(r, body_size, end_of_stream) ==
  /\ Deliverable(r) /\ opened[r] /\ ~ended[r]
  /\ body_size \in arrived[r] .. req[r].len
  /\ end_of_stream => body_size = req[r].len
  /\ end_of_stream \/ body_size > arrived[r]
  /\ arrived' = [arrived EXCEPT ![r] = body_size]
  /\ ended' = [ended EXCEPT ![r] = end_of_stream]
  /\ UNCHANGED <<req, opened, alive>>
  /\ \/ /\ Settled(r)
        /\ UNCHANGED <<ctx, inside, lost, checked, call, verdict, passed, outcome>>
     \/ /\ ~Settled(r) /\ TooLarge(r, body_size)
        /\ RejectPayloadTooLarge(r)
     \/ /\ ~Settled(r) /\ ~TooLarge(r, body_size)
        /\ \E chunk \in {SubSeq(Bytes(body_size), ChunkStart(r), body_size), <<>>} :
             LET c == [ctx[r] EXCEPT !.body_buf = @ \o chunk, !.body_seen = body_size]
             IN  /\ lost' = [lost EXCEPT ![r] =
                              @ \/ (chunk = <<>> /\ body_size > ctx[r].body_seen)]
                 /\ IF end_of_stream
                    THEN Complete(r, c)
                    ELSE /\ ctx' = [ctx EXCEPT ![r] = c]
                         /\ UNCHANGED <<inside, checked, call, verdict, passed, outcome>>
-----------------------------------------------------------------------------
(* The cache functions return, in the callback that called them. *)

LookupHit(r, v) ==
  /\ inside[r] = "lookup"
  /\ inside' = [inside EXCEPT ![r] = "none"]
  /\ verdict' = [verdict EXCEPT ![r] = v]
  /\ IF v = "allow" THEN Forward(r) ELSE Reply(r, "denied")
  /\ UNCHANGED <<host, ctx, lost, checked, call>>

LookupMiss(r) ==
  /\ inside[r] = "lookup"
  /\ inside' = [inside EXCEPT ![r] = "none"]
  /\ SendCall(r, ctx[r])
  /\ UNCHANGED <<host, lost, checked, verdict>>

StoreReturns(r) ==
  /\ inside[r] = "store"
  /\ inside' = [inside EXCEPT ![r] = "none"]
  /\ IF verdict[r] = "allow" THEN Forward(r) ELSE Reply(r, "denied")
  /\ UNCHANGED <<host, ctx, lost, checked, call, verdict>>

PurgeReturns(r) ==
  /\ inside[r] = "purge"
  /\ inside' = [inside EXCEPT ![r] = "none"]
  /\ Reply(r, "204")
  /\ UNCHANGED <<host, ctx, lost, checked, call, verdict>>
-----------------------------------------------------------------------------
\* Fault: any answer is taken for the awaited one.
Awaited_Any(r) == TRUE

Awaited(r) == ctx[r].grpc_token = r

\* Fault: an error of the call lets the request go on.
FailureReply_FailOpen(r, answer) ==
  IF answer = "grpc_error" THEN Forward(r) ELSE Reply(r, "500")

\* Fault: the status of the call is sent to the client.
FailureReply_GrpcStatus(r, answer) == Reply(r, answer)

FailureReply(r, answer) ==
  Reply(r, IF answer = "grpc_error" THEN "503" ELSE "500")

\* An answer to the stream's call: the first one, or (the token check provides
\* for it) one that has been given already.
OnGrpcCallResponse(r, answer) ==
  /\ Deliverable(r) /\ call[r] # "none"
  /\ call' = [call EXCEPT ![r] = "answered"]
  /\ IF Awaited(r)
     THEN /\ ctx' = [ctx EXCEPT ![r].grpc_token = NoToken]
          /\ verdict' = [verdict EXCEPT ![r] = answer]
          /\ \/ /\ answer \notin Verdicts
                /\ FailureReply(r, answer) /\ UNCHANGED inside
             \/ /\ answer \in Verdicts /\ r \in CacheEnabled
                /\ inside' = [inside EXCEPT ![r] = "store"]
                /\ UNCHANGED <<passed, outcome>>
             \/ /\ answer \in Verdicts /\ r \notin CacheEnabled
                /\ IF answer = "allow" THEN Forward(r) ELSE Reply(r, "denied")
                /\ UNCHANGED inside
     ELSE UNCHANGED <<ctx, verdict, inside, passed, outcome>>
  /\ UNCHANGED <<host, lost, checked>>

\* The client goes away: the context is destroyed, its call cancelled.
Abort(r) ==
  /\ Deliverable(r)
  /\ alive' = [alive EXCEPT ![r] = FALSE]
  /\ call' = [call EXCEPT ![r] = "none"]
  /\ UNCHANGED <<req, opened, arrived, ended, ctx, inside, lost, checked,
                 verdict, passed, outcome>>

CacheReturns(r) ==
  \/ \E v \in Verdicts : LookupHit(r, v)
  \/ LookupMiss(r) \/ StoreReturns(r) \/ PurgeReturns(r)

Answered(r) == \E answer \in Answers : OnGrpcCallResponse(r, answer)

Received(r) ==
  \E end_of_stream \in BOOLEAN :
     \/ OnHttpRequestHeaders(r, end_of_stream)
     \/ \E body_size \in 0 .. req[r].len : OnHttpRequestBody(r, body_size, end_of_stream)

Next == \E r \in Streams : Received(r) \/ CacheReturns(r) \/ Answered(r) \/ Abort(r)

Spec == Init /\ [][Next]_vars

\* A callback that is inside the cache goes on to its end, and the proxy answers
\* every call that it does not cancel (timeout_ms at the latest).
Fairness ==
  \A r \in Streams : WF_vars(CacheReturns(r)) /\ WF_vars(call[r] = "open" /\ Answered(r))

FairSpec == Spec /\ Fairness
-----------------------------------------------------------------------------
\* Each stream is judged at most once and concluded at most once, as its judgement
\* calls for, whatever body callbacks and answers come when (the guards lib.rs:141
\* and 298; that of 238 is never met, as headers come once; the replies of 146-206,
\* 335, 372-386, 420, 553-589).
G == INSTANCE Gate WITH invalidation <- {r \in Streams : req[r].op # "check"}
ActsAsGate == G!Spec

\* A dispatched stream that has not been concluded is still held by something that
\* will conclude it: a cache function its callback is in, or an open call whose
\* answer it awaits (lib.rs:403-427: an error of the dispatch must reply).
NotStranded ==
  \A r \in Streams :
     (alive[r] /\ ctx[r].dispatched /\ outcome[r] = <<>>)
        => inside[r] # "none" \/ (call[r] = "open" /\ Awaited(r))

\* What the service is asked about is the request the client sent: its whole
\* body, no byte twice, none missing, unless the proxy would not hand a chunk
\* over (lib.rs:306-312).
ChecksTheWholeBody ==
  \A r \in Streams :
     ~lost[r] => checked[r] \in {<<>>, <<Bytes(req[r].len)>>}

\* README.md:88 "Request bodies larger than request_body.max_bytes fail closed
\* with 413": such a request is neither checked nor purges, however its length
\* is (not) declared and its body is cut into callbacks.
OversizedFailsClosed ==
  \A r \in Streams : req[r].len > MaxBody[r] =>
     /\ checked[r] = <<>> /\ inside[r] = "none"
     /\ outcome[r] \in {<<>>, <<"413">>}

\* README.md:26-29: a request goes on upstream only once the service, or a cached
\* decision, has allowed it; errors of every kind stop it.
FailsClosed ==
  \A r \in Streams :
     (req[r].op = "check" /\ passed[r]) => verdict[r] = "allow"

\* A request that has been received in full is concluded, unless the client goes
\* away first: no path leaves it paused for ever.
EndedIsConcluded ==
  \A r \in Streams : ended[r] ~> (outcome[r] # <<>> \/ ~alive[r])
=============================================================================
