------------------------------ MODULE Decision ------------------------------
(***************************************************************************)
(* What a CheckResponse does to a request: its classification              *)
(* (src/decision.rs), the effects of a decision on the request or as a     *)
(* local reply (src/lib.rs), and the same effects taken from the cache     *)
(* entry the decision was stored in (src/cache.rs, src/lib.rs).            *)
(*                                                                         *)
(* An optional value is a sequence of length at most one.  A header name   *)
(* is a spelling; lowercase gives the spelling that to_ascii_lowercase     *)
(* does.  The request headers of the proxy are a multimap, a function from *)
(* lower-case names to sequences of values, with the host calls add, set,  *)
(* remove and get as the code uses them.                                   *)
(***************************************************************************)
EXTENDS Integers, Sequences, SequencesExt

CONSTANTS
  lowercase,   \* spelling -> spelling
  PseudoNames, \* the names that start with ":"
  Values,      \* values of headers
  Responses,   \* the CheckResponses that may come
  HeaderMaps   \* the request headers a stream may have

Names      == DOMAIN lowercase
LowerNames == {lowercase[n] : n \in Names}

ASSUME LowercaseAssumption ==
  /\ LowerNames \subseteq Names
  /\ \A n \in LowerNames : lowercase[n] = n
  /\ {"", "host", "content-type"} \subseteq LowerNames
ASSUME HeaderMapsAssumption == HeaderMaps \subseteq [LowerNames -> Seq(Values)]

\* s with Op applied to each element.
MapSeq(s, Op(_)) == [i \in DOMAIN s |-> Op(s[i])]

\* The elements of s that are in keep, after each number of elements.
Filtered(s, keep) ==
  LET kept[i \in 0 .. Len(s)] ==
        IF i = 0 THEN << >>
        ELSE IF s[i] \in keep THEN Append(kept[i - 1], s[i]) ELSE kept[i - 1]
  IN  kept

Only(s, keep) == Filtered(s, keep)[Len(s)]
-----------------------------------------------------------------------------
(* pb.rs: the messages as the filter can decode them.  An absent or an     *)
(* unknown http_response is of kind "none"; tags the filter has no field   *)
(* for are skipped by the decoder and are not here.                        *)

Optional(S) == {s \in Seq(S) : Len(s) <= 1}

HeaderValue == [key : Names, value : Values]

\* append is a BoolValue, a message, so it may be absent; append_action may
\* hold any int32, whether or not the enumeration has it.
HeaderValueOption ==
  [header : Optional(HeaderValue), append : Optional(BOOLEAN),
   append_action : Int, keep_empty_value : BOOLEAN]

DeniedHttpResponse ==
  [kind : {"denied", "error"}, status : Optional(Int),
   headers : Seq(HeaderValueOption), body : STRING]

OkHttpResponse ==
  [kind : {"ok"}, headers : Seq(HeaderValueOption), headers_to_remove : Seq(Names)]

CheckResponse == OkHttpResponse \cup DeniedHttpResponse \cup [kind : {"none"}]

ASSUME ResponsesAssumption == Responses \subseteq CheckResponse
-----------------------------------------------------------------------------
(* decision.rs *)

\* HeaderAppendAction, the code i at position i + 1.
HeaderAppendActions ==
  <<"AppendIfExistsOrAdd", "AddIfAbsent", "OverwriteIfExistsOrAdd", "OverwriteIfExists">>

is_removable_header_name(name) ==
  name \notin PseudoNames \cup {""} /\ lowercase[name] # "host"

\* header_mutation returns None for an option that is not kept.
Kept(option) ==
  /\ option.header # <<>>
  /\ option.header[1].key # ""
  /\ option.header[1].value # "" \/ option.keep_empty_value

\* The deprecated append decides when it is there; an unknown code appends.
AppendAction(option) ==
  CASE option.append = <<TRUE>>  -> "AppendIfExistsOrAdd"
    [] option.append = <<FALSE>> -> "OverwriteIfExistsOrAdd"
    [] OTHER -> IF option.append_action + 1 \in DOMAIN HeaderAppendActions
                THEN HeaderAppendActions[option.append_action + 1]
                ELSE "AppendIfExistsOrAdd"

Mutation(action, name, value) == [action |-> action, name |-> name, value |-> value]

header_mutation(option) ==
  Mutation(AppendAction(option), lowercase[option.header[1].key], option.header[1].value)

Removals(ok) ==
  LET remove(name) == Mutation("Remove", name, "")
      lower(name)  == lowercase[name]
      removable    == {name \in LowerNames : is_removable_header_name(name)}
  IN  MapSeq(Only(MapSeq(ok.headers_to_remove, lower), removable), remove)

KeptOptions(options) == Only(options, {o \in ToSet(options) : Kept(o)})

Additions(ok) == MapSeq(KeptOptions(ok.headers), header_mutation)

\* Fault: the removals come last and take back what the response adds.
allow_mutations_RemovalsLast(ok) == Additions(ok) \o Removals(ok)

allow_mutations(ok) == Removals(ok) \o Additions(ok)

\* Fault: a status of 0, the default of the message, is taken for a status.
valid_http_status_or_forbidden_Zero(status) == IF status \in 0 .. 599 THEN status ELSE 403

valid_http_status_or_forbidden(status) == IF status \in 100 .. 599 THEN status ELSE 403

header_pairs(headers) ==
  LET named == {o \in ToSet(headers) : o.header # <<>> /\ o.header[1].key # ""}
      pair(option) == <<lowercase[option.header[1].key], option.header[1].value>>
  IN  MapSeq(Only(headers, named), pair)

Deny(status, body, headers) ==
  [allowed |-> FALSE, status |-> status, body |-> body, headers |-> headers]

from_check_response(response) ==
  CASE response.kind = "ok" -> [allowed |-> TRUE, mutations |-> allow_mutations(response)]
    [] response.kind \in {"denied", "error"} ->
         Deny(IF response.status = <<>> THEN 403
              ELSE valid_http_status_or_forbidden(response.status[1]),
              IF response.body = "" THEN "Forbidden" ELSE response.body,
              header_pairs(response.headers))
    [] response.kind = "none" -> Deny(403, "Forbidden", <<>>)
-----------------------------------------------------------------------------
(* lib.rs: the effects of a decision. *)

\* The test made again when a removal is applied, also one from the cache.
may_be_removed(name) == name \notin PseudoNames \cup {""} /\ lowercase[name] # "host"

\* Fault: a header to overwrite is taken away before it is looked for.
NewValues_RemovedFirst(old, m) ==
  CASE m.action = "AppendIfExistsOrAdd"    -> Append(old, m.value)
    [] m.action = "AddIfAbsent"            -> IF old = <<>> THEN <<m.value>> ELSE old
    [] m.action = "OverwriteIfExistsOrAdd" -> <<m.value>>
    [] m.action = "OverwriteIfExists"      -> <<>>
    [] m.action = "Remove"                 -> IF may_be_removed(m.name) THEN <<>> ELSE old

\* The values of the header m names, after m.
NewValues(old, m) ==
  CASE m.action = "AppendIfExistsOrAdd"    -> Append(old, m.value)
    [] m.action = "AddIfAbsent"            -> IF old = <<>> THEN <<m.value>> ELSE old
    [] m.action = "OverwriteIfExistsOrAdd" -> <<m.value>>
    [] m.action = "OverwriteIfExists"      -> IF old # <<>> THEN <<m.value>> ELSE old
    [] m.action = "Remove"                 -> IF may_be_removed(m.name) THEN <<>> ELSE old

Mutated(headers, m) == [headers EXCEPT ![m.name] = NewValues(@, m)]

\* The headers, after each number of mutations.
Applied(headers, mutations) ==
  LET after[i \in 0 .. Len(mutations)] ==
        IF i = 0 THEN headers ELSE Mutated(after[i - 1], mutations[i])
  IN  after

apply_request_header_mutations(headers, mutations) ==
  Applied(headers, mutations)[Len(mutations)]

local_reply_headers(headers) ==
  IF \E i \in DOMAIN headers : headers[i][1] = "content-type" THEN headers
  ELSE <<<<"content-type", "text/plain">>>> \o headers

Forwarded(headers) == [passed |-> TRUE, headers |-> headers]
LocalReply(status, headers, body) ==
  [passed |-> FALSE, status |-> status, headers |-> local_reply_headers(headers), body |-> body]

\* The two arms of on_grpc_call_response, after the store.
Effect(decision, headers) ==
  IF decision.allowed
  THEN Forwarded(apply_request_header_mutations(headers, decision.mutations))
  ELSE LocalReply(decision.status, decision.headers, decision.body)
-----------------------------------------------------------------------------
(* cache.rs and lib.rs: the decision as a cache entry. *)

\* HeaderMutationAction, the code i at position i + 1.
HeaderMutationActions == HeaderAppendActions \o <<"Remove">>

\* From<&RequestHeaderMutation>.
cached_mutation(m) ==
  [name |-> m.name, value |-> m.value,
   action |-> (CHOOSE i \in DOMAIN HeaderMutationActions : HeaderMutationActions[i] = m.action) - 1]

\* Fault: the conversion back has no arm for the removals, and drops them.
Known_AppendActions(c) == c.action + 1 \in DOMAIN HeaderAppendActions

\* TryFrom<&CachedRequestHeaderMutation>: an unknown code is an error ...
Known(c) == c.action + 1 \in DOMAIN HeaderMutationActions

mutation_of_cached(c) == Mutation(HeaderMutationActions[c.action + 1], c.name, c.value)

\* ... and what does not convert is dropped.
cached_to_mutations(cached) ==
  MapSeq(Only(cached, {c \in ToSet(cached) : Known(c)}), mutation_of_cached)

\* The fields store_cache_entry is called with, for an allowance and a denial.
Stored(decision) ==
  IF decision.allowed
  THEN [allowed |-> TRUE, denied_status |-> 0, denied_body |-> "", response_headers |-> <<>>,
        request_header_mutations |-> MapSeq(decision.mutations, cached_mutation)]
  ELSE [allowed |-> FALSE, denied_status |-> decision.status, denied_body |-> decision.body,
        response_headers |-> decision.headers, request_header_mutations |-> <<>>]

\* The cache branch of dispatch_check_request.
ReplayEffect(entry, headers) ==
  IF entry.allowed
  THEN Forwarded(apply_request_header_mutations(
                   headers, cached_to_mutations(entry.request_header_mutations)))
  ELSE LocalReply(entry.denied_status, entry.response_headers,
                  IF entry.denied_body = "" THEN "Forbidden" ELSE entry.denied_body)
-----------------------------------------------------------------------------
(* One stream gets the response and stores it; another one, with the same  *)
(* key and the same headers, finds the entry.                              *)

VARIABLES
  response,  \* what the service answers the first stream
  before,    \* the request headers of both
  entry,     \* the cache entry, once stored
  asked,     \* what became of the request of the first stream, in the end
  replayed   \* and of the second's

vars == <<response, before, entry, asked, replayed>>

Init ==
  /\ response \in Responses
  /\ before \in HeaderMaps
  /\ entry = <<>> /\ asked = <<>> /\ replayed = <<>>

\* on_grpc_call_response, when the response decodes.
Ask ==
  LET decision == from_check_response(response)
  IN  /\ asked = <<>>
      /\ entry' = <<Stored(decision)>>
      /\ asked' = <<Effect(decision, before)>>
      /\ UNCHANGED <<response, before, replayed>>

\* dispatch_check_request, when it finds the entry.
Replay ==
  /\ entry # <<>> /\ replayed = <<>>
  /\ replayed' = <<ReplayEffect(entry[1], before)>>
  /\ UNCHANGED <<response, before, entry, asked>>

Next == Ask \/ Replay

Spec == Init /\ [][Next]_vars
-----------------------------------------------------------------------------
\* A hit cannot be told from an answer: what a cached decision does to the
\* request, or sends as the reply, is what the decision itself did, through the
\* conversions of every mutation, header, status and body to the entry and back
\* (lib.rs:364-386, cache.rs:217-305).
ReplayMatchesAnswer == replayed # <<>> => replayed = asked

\* No response takes the authority or a pseudo header from the request it allows,
\* by a removal, however it spells the name, or by any sequence of other mutations
\* (decision.rs:103, lib.rs:508-541).
RoutingHeadersStay ==
  \A o \in {asked, replayed} : (o # <<>> /\ o[1].passed) =>
     \A n \in (PseudoNames \cap LowerNames) \cup {"host"} : before[n] # <<>> => o[1].headers[n] # <<>>

\* README.md:90-91 "Allowed ext_authz responses apply returned request-header
\* additions before forwarding upstream": a value that is to be appended or to
\* overwrite is there in the end, unless a later option overwrites the name; what
\* the response removes, it removes first.
AdditionsArrive ==
  (response.kind = "ok" /\ asked # <<>>) =>
     LET options == KeptOptions(response.headers)
         name(i) == lowercase[options[i].header[1].key]
     IN  \A i \in DOMAIN options :
           \/ AppendAction(options[i]) \in {"AddIfAbsent", "OverwriteIfExists"}
           \/ \E j \in i + 1 .. Len(options) :
                /\ name(j) = name(i)
                /\ AppendAction(options[j]) \in {"OverwriteIfExistsOrAdd", "OverwriteIfExists"}
           \/ Contains(asked[1].headers[name(i)], options[i].header[1].value)

\* Whatever code the service puts in a denial, and whatever is replayed of it,
\* the proxy is handed a status it can send (decision.rs:107).
ReplyStatusIsHttp ==
  \A o \in {asked, replayed} : o # <<>> => o[1].passed \/ o[1].status \in 100 .. 599
=============================================================================
