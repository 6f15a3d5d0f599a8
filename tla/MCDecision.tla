----------------------------- MODULE MCDecision -----------------------------
(* Values for TLC. *)
EXTENDS Decision

\* Two spellings each of an ordinary name and of the authority.
SpellingsToLower ==
  [n \in {"", "x-a", "X-A", "host", "Host", ":path", "content-type"} |->
     CASE n = "X-A" -> "x-a" [] n = "Host" -> "host" [] OTHER -> n]

FewPseudoNames == {":path"}
FewValues == {"", "u", "v", "text/plain"}

SomeHeaderMaps ==
  {[n \in {"", "x-a", "host", ":path", "content-type"} |->
     CASE n \in {"host", ":path"} -> <<"v">> [] n = "x-a" -> xa [] OTHER -> <<>>] :
       xa \in {<<>>, <<"u">>, <<"u", "v">>}}

\* Every option on its own: no header, no key, no value, each way to say the
\* action, and a code that means none.
Options ==
  [header : {<<>>} \cup {<<[key |-> k, value |-> v]>> : k \in {"", "X-A", "Host", "content-type"},
                                                       v \in {"", "v"}},
   append : {<<>>, <<TRUE>>, <<FALSE>>}, append_action : 0 .. 4, keep_empty_value : BOOLEAN]

\* The options that do something, on one name in two spellings: all pairs.
Effective ==
  [header : {<<[key |-> k, value |-> v]>> : k \in {"x-a", "X-A"}, v \in {"u", "v"}},
   append : {<<>>}, append_action : 0 .. 3, keep_empty_value : {FALSE}]

OneOrTwoOptions == {<<o>> : o \in Options} \cup (Effective \X Effective) \cup {<<>>}

OkResponses ==
  [kind : {"ok"}, headers : OneOrTwoOptions,
   headers_to_remove : {<<>>, <<"X-A">>, <<"Host", "x-a">>, <<":path", "">>}]

Denials ==
  [kind : {"denied", "error"}, status : {<<>>} \cup {<<c>> : c \in {-1, 0, 99, 100, 401, 599, 600}},
   body : {"", "why"}, headers : {<<o>> : o \in Options} \cup {<<>>}]

SomeResponses == OkResponses \cup Denials \cup {[kind |-> "none"]}
=============================================================================
