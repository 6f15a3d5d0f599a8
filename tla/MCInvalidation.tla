--------------------------- MODULE MCInvalidation ---------------------------
(* Values for TLC. *)
EXTENDS Invalidation, TLC

Usual  == INVALIDATION_SECRET_HEADER
Capital == "X-Cextauthz-Invalidation-Secret"

SpellingsToLower ==
  [n \in {Usual, Capital, "x-request-id"} |-> IF n = Capital THEN Usual ELSE n]

NameRank == [n \in {Usual, "x-request-id"} |-> IF n = Usual THEN 0 ELSE 1]

NoPseudoNames == {}

Text(p, d, h) == [prefixed |-> p, digits |-> d, hash |-> h]

Messages ==
  {NotJson,
   [version |-> 1, op |-> "purge_all", key |-> <<>>],
   [version |-> 2, op |-> "purge_all", key |-> <<>>],
   [version |-> 1, op |-> "purge_key", key |-> <<>>]}
  \cup [version : {1}, op : {"purge_key"},
        key : {<<t>> : t \in {Text(TRUE, "exact", 1), Text(TRUE, "respelled", 1),
                              Text(TRUE, "junk", 1), Text(FALSE, "exact", 1)}}]

GoodSecret == <<Capital, "s">>

\* Requests that differ in their headers, in their message, in their address.
SmallRequests ==
  [method : {"POST"}, path : {INVALIDATION_PATH}, query : {<<>>},
   host : {"h"}, scheme : {"http"},
   headers : {<<>>, <<GoodSecret>>, <<<<Usual, "">>>>, <<<<Usual, "t">>, GoodSecret>>,
              <<GoodSecret, <<Usual, "t">>>>},
   body : {[version |-> 1, op |-> "purge_all", key |-> <<>>]}]
  \cup [method : {"POST"}, path : {INVALIDATION_PATH}, query : {<<"q">>},
        host : {"h"}, scheme : {"http"},
        headers : {<<GoodSecret>>}, body : Messages]
  \cup [method : {"GET", "POST"}, path : {INVALIDATION_PATH, "/other"}, query : {<<>>},
        host : {"h"}, scheme : {"http"},
        headers : {<<GoodSecret>>}, body : {NotJson}]

SmallSecrets == {"", "s"}

StreamSymmetry == Permutations(Streams)
=============================================================================
