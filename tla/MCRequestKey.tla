---------------------------- MODULE MCRequestKey ----------------------------
(* Values for TLC. *)
EXTENDS RequestKey

SpellingsToLower ==
  [n \in {"x-a", "X-A", "x-b", "x-request-id", "X-Request-Id", ":protocol"} |->
     CASE n = "X-A" -> "x-a" [] n = "X-Request-Id" -> "x-request-id" [] OTHER -> n]

NameRank == [n \in {"x-a", "x-b", "x-request-id", ":protocol"} |->
     CASE n = ":protocol" -> 0 [] n = "x-a" -> 1 [] n = "x-b" -> 2 [] n = "x-request-id" -> 3]

FewPseudoNames == {":protocol"}

\* One header, or two that may repeat a name, in either spelling.
HeaderLists ==
  LET all == {<<"x-a", "1">>, <<"X-A", "2">>, <<"x-b", "1">>, <<"x-request-id", "1">>,
              <<"X-Request-Id", "2">>, <<":protocol", "1">>}
  IN  {<<>>} \cup {<<h>> : h \in all} \cup (all \X all)

\* Headers vary under one method, path, host and body; these under none.
SmallRequests ==
  [method : {"GET"}, path : {"/p"}, query : {<<>>}, host : {"h"}, scheme : {"http"},
   headers : HeaderLists, body : {""}]
  \cup [method : {"GET", "POST"}, path : {"/p", "/q"}, query : {<<>>, <<"">>, <<"q">>},
        host : {"h"}, scheme : {"http"}, headers : {<<>>}, body : {"", "b"}]
  \cup [method : {"GET"}, path : {"/p"}, query : {<<>>, <<"q">>}, host : {"h", "http"},
        scheme : {"h", "http"}, headers : {<<>>}, body : {""}]

SmallPolicies ==
  {[mode |-> "all_except_request_id", names |-> {}]}
  \cup {[mode |-> "allowlist", names |-> {"x-a", "x-request-id"}],
        [mode |-> "denylist", names |-> {"x-a"}]}
=============================================================================
