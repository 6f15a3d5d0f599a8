---------------------------- MODULE MCQuotaLoop ----------------------------
(* Values for TLC. *)
EXTENDS QuotaLoop

CONSTANTS r1, d1

\* The loop sees expiries and keys only: one stream and one decision stand for
\* all.  Four expiries on four keys give every pattern of ties.
FourExpiries ==
  {[expires_at_ms |-> t, by |-> r1, decision |-> d1] : t \in 0 .. 3}
=============================================================================
