-------------------------------- MODULE Gate --------------------------------
(***************************************************************************)
(* What the filter promises of each request, without callbacks, bodies,    *)
(* calls or caches: it is judged at most once, by the service or by a      *)
(* cached decision, and concluded at most once, the way its judgement      *)
(* calls for.  An invalidation is never judged.  FilterStream implements   *)
(* this specification.                                                     *)
(***************************************************************************)
EXTENDS Sequences

CONSTANT Streams

VARIABLES
  invalidation,   \* the streams whose request is an invalidation
  verdict,        \* what each stream's request has been judged, or "none"
  outcome         \* how each stream has been concluded: nothing yet, or one thing

vars == <<invalidation, verdict, outcome>>

\* How a check may end.  Not judged: too large, or the call could not be made.
Ending == [
  none           |-> {"413", "503"},
  allow          |-> {"forward"},
  deny           |-> {"denied"},
  undecodable    |-> {"500"},
  no_body        |-> {"500"},
  grpc_error     |-> {"503"}]

Judgements == DOMAIN Ending \ {"none"}

Init ==
  /\ invalidation \in SUBSET Streams
  /\ verdict = [r \in Streams |-> "none"]
  /\ outcome = [r \in Streams |-> <<>>]

\* r is judged, and not concluded in the same step.
Judge(r) ==
  /\ r \notin invalidation /\ verdict[r] = "none"
  /\ \E j \in Judgements : verdict' = [verdict EXCEPT ![r] = j]
  /\ UNCHANGED <<invalidation, outcome>>

\* r is concluded, by the judgement it has.
Conclude(r) ==
  /\ \E c \in IF r \in invalidation THEN {"204", "400", "401", "413"}
              ELSE Ending[verdict[r]] :
       outcome' = [outcome EXCEPT ![r] = <<c>>]
  /\ UNCHANGED <<invalidation, verdict>>

\* r is judged and concluded at once.
Settle(r) ==
  /\ r \notin invalidation /\ verdict[r] = "none"
  /\ \E j \in Judgements : \E c \in Ending[j] :
       /\ verdict' = [verdict EXCEPT ![r] = j]
       /\ outcome' = [outcome EXCEPT ![r] = <<c>>]
  /\ UNCHANGED invalidation

Next ==
  \E r \in Streams : outcome[r] = <<>> /\ (Judge(r) \/ Conclude(r) \/ Settle(r))

Spec == Init /\ [][Next]_vars
=============================================================================
