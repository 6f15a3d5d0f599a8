--------------------------- MODULE RequestHeaders ---------------------------
(***************************************************************************)
(* What the filter makes of the header map of a request                    *)
(* (src/lib.rs, on_http_request_headers): the parts from which the         *)
(* CheckRequest is built (src/request.rs), and by which the invalidation   *)
(* endpoint tells its requests and their secret.                           *)
(***************************************************************************)
EXTENDS Naturals, Sequences

CONSTANTS
  lowercase,    \* spelling of a header name -> its lower-case spelling
  PseudoNames,  \* the names that start with ":" besides the four that are read
  rank          \* the order of the lower-case names as strings

LowerNames == {lowercase[n] : n \in DOMAIN lowercase}

ASSUME LowercaseAssumption ==
  /\ LowerNames \subseteq DOMAIN lowercase
  /\ \A n \in LowerNames : lowercase[n] = n

\* The case of a name does not change what it starts with.
ASSUME PseudoAssumption ==
  \A n \in DOMAIN lowercase : n \in PseudoNames <=> lowercase[n] \in PseudoNames

ASSUME RankAssumption ==
  /\ rank \in [LowerNames -> Nat]
  /\ \A m, n \in LowerNames : rank[m] = rank[n] => m = n

\* A request is [method, path, query, host, scheme, headers, body]: query is what
\* follows the first "?" of :path, <<>> without one; host is the value of :authority;
\* headers is a sequence of <<spelling, value>>, where a name may come several times.

IsRequestId(name) == lowercase[name] = "x-request-id"

\* Fault: the first header of a name is kept.
Put_FirstWins(f, n, v) == [x \in DOMAIN f \cup {n} |-> IF x \in DOMAIN f THEN f[x] ELSE v]

\* HashMap::insert: the last header of a name is kept.
Put(f, n, v) == [x \in DOMAIN f \cup {n} |-> IF x = n THEN v ELSE f[x]]

\* The match arm for a header that is none of the four pseudo headers.
CollectHeader(parts, header) ==
  IF IsRequestId(header[1]) THEN [parts EXCEPT !.id = header[2]]
  ELSE IF header[1] \in PseudoNames THEN parts
  ELSE [parts EXCEPT !.headers = Put(@, lowercase[header[1]], header[2])]

\* The parts, after each number of the headers of a request.
Collected(request) ==
  LET parts[i \in 0 .. Len(request.headers)] ==
        IF i = 0
        THEN [method |-> request.method, path |-> request.path,
              query |-> IF request.query = <<>> THEN "" ELSE request.query[1],
              host |-> request.host, scheme |-> request.scheme,
              id |-> "", headers |-> << >>, body |-> request.body]
        ELSE CollectHeader(parts[i - 1], request.headers[i])
  IN  parts

\* The CheckRequest of a request: the loop over its headers, then
\* into_check_request, which copies the parts.
check_request(request) == Collected(request)[Len(request.headers)]
-----------------------------------------------------------------------------
\* For the properties of the modules that build on this one.

HeaderSeqs == Seq((DOMAIN lowercase) \X STRING)

\* What a request says of a name, in whatever spelling: the value of its last
\* header of that name, the empty set if it has none.
Said(request, name) ==
  LET at == {i \in DOMAIN request.headers : lowercase[request.headers[i][1]] = name}
  IN  {request.headers[i][2] : i \in {j \in at : \A k \in at : k <= j}}
=============================================================================
