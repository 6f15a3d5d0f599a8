--------------------------- MODULE MCSharedCache ---------------------------
(* Values for TLC. *)
EXTENDS SharedCache, TLC

CONSTANT Old   \* the streams of the earlier of two configurations

\* The later configuration allows fewer entries, and keeps them for less long.  Of
\* 3 and of 2 entries, a shard of two may hold 2 and 1.
TwoQuotas == [r \in Streams |-> IF r \in Old THEN 3 ELSE 2]
TwoTtls   == [r \in Streams |-> IF r \in Old THEN 2 ELSE 1]

OneEntry == [r \in Streams |-> 1]
TwoEntries == [r \in Streams |-> 2]
ShortTtl == [r \in Streams |-> 1]

\* Streams of one configuration are interchangeable; no safety property names one.
StreamSymmetry == Permutations(Old) \cup Permutations(Streams \ Old)

\* One purge against stores: no second stream purges.
OnePurge == Cardinality({r \in Streams : op[r] \in {"purge_key", "purge_all"}}) <= 1
OnePurgeSpec == Init /\ [][Next /\ OnePurge']_vars
=============================================================================
