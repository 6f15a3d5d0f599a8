--------------------------- MODULE DecisionCache ---------------------------
(***************************************************************************)
(* What the decision cache promises the streams that use it, with no       *)
(* shards, versions, copies or retries: a bag that forgets.  Each stream   *)
(* adds at most one entry, in one step; any step may lose entries (expiry, *)
(* quota, a purge, a race); a lookup answers with an entry that is in the  *)
(* bag at that moment, or with nothing.  What is lost never comes back.    *)
(***************************************************************************)
CONSTANTS
  Keys,        \* cache keys
  Streams,     \* those who store and look up
  CacheEntry,  \* entries, records with a field "by": the stream that stored it
  Absent       \* "no entry"

VARIABLES
  cached,  \* the pairs <<key, entry>> in the cache
  spent,   \* the streams whose entry has been added, or was lost at once
  hit      \* what each stream's last lookup answered

vars == <<cached, spent, hit>>

Init ==
  /\ cached = {}
  /\ spent = {}
  /\ hit = [r \in Streams |-> Absent]

Fill(r) ==
  /\ r \notin spent
  /\ spent' = spent \cup {r}
  /\ \A new, other \in cached' \ cached :
       /\ new \in Keys \X CacheEntry /\ new[2].by = r
       /\ new = other
  /\ UNCHANGED hit

Forget ==
  /\ cached' \subseteq cached
  /\ UNCHANGED <<spent, hit>>

Answer(r) ==
  /\ \E answer \in {Absent} \cup {ke[2] : ke \in cached} :
       hit' = [hit EXCEPT ![r] = answer]
  /\ UNCHANGED <<cached, spent>>

Next == Forget \/ \E r \in Streams : Fill(r) \/ Answer(r)

Spec == Init /\ [][Next]_vars
-----------------------------------------------------------------------------
\* A stream's entry has been in the cache, or was lost on arrival, and is not
\* there now.
Gone(r) == r \in spent /\ \A ke \in cached : ke[2].by # r

\* What is lost never comes back.
NoReturn == [][\A r \in Streams : Gone(r) => Gone(r)']_vars
=============================================================================
