-------------------------- MODULE MCFilterStream --------------------------
(* Values for TLC. *)
EXTENDS FilterStream

CONSTANTS r1, r2, w1

Both == {r1, r2}

\* Both streams on one worker, so that callbacks wait for one another.
OneWorker == [r \in Both |-> w1]

\* Streams of two configurations: the first has a cache, the second a higher limit.
Limits == [r \in Both |-> IF r = r1 THEN 2 ELSE 3]

\* Empty bodies, bodies at a limit and one byte beyond it, and one beyond both.
SmallRequests ==
  {q \in [op : RequestOps, len : {0, 2, 3, 4}, declared : BOOLEAN] :
     q.op = "purge" => q.len > 0}
=============================================================================
