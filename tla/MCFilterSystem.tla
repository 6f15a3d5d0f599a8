-------------------------- MODULE MCFilterSystem --------------------------
(* Values for TLC. *)
EXTENDS FilterSystem, TLC

CONSTANT Old   \* the streams of the earlier of two configurations

\* Every stream on a worker of its own: all callbacks overlap.
OwnWorkers == [r \in Streams |-> r]

OneByte   == [r \in Streams |-> 1]
ShortTime == [r \in Streams |-> 1]
Pair      == [r \in Streams |-> 2]

\* The later configuration waits and keeps for less long, and keeps fewer.
TwoTimes  == [r \in Streams |-> IF r \in Old THEN 2 ELSE 1]

\* Streams of one configuration are interchangeable.
StreamSymmetry == Permutations(Old) \cup Permutations(Streams \ Old)

JustChecks   == {[op |-> "check", len |-> 0, declared |-> TRUE]}
CheckOrPurge == JustChecks \cup {[op |-> "purge", len |-> 1, declared |-> TRUE]}

\* One purge among checks.
PurgeInit == Init /\ Cardinality({r \in Streams : req[r].op = "purge"}) = 1
PurgeSpec == PurgeInit /\ [][Next]_vars

\* The same with one stream chosen for it, as all have the same settings.
Purger       == CHOOSE r \in Streams : TRUE
PurgerInit   == Init /\ \A r \in Streams : req[r].op = "purge" <=> r = Purger
FairPurgeSpec == PurgerInit /\ [][Next]_vars /\ Fairness

\* The service allows whatever it is asked.
OnlyAllows == \A r \in Streams : decided[r] # Undecided => decided[r].verdict = "allow"
AllowSpec  == Init /\ [][Next /\ OnlyAllows']_vars
=============================================================================
