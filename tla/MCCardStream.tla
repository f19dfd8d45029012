---------------------------- MODULE MCCardStream -----------------------------
(* CardStream on a card with few runs, presentations and faults. *)
EXTENDS CardStream, TLC

MCSymmetry == Permutations(Streams)

\* States that differ in nothing that can have an effect any more count as one:
\* what an unused object holds is reset before its next use, the presentation of
\* a Send that has returned is not looked at again, and a request that Feishu
\* would refuse matters while a Send waits for it.
MCView ==
  <<last, uses, current, sendVars, since, begun, ended, done, late, card, faults,
    [s \in Streams |-> IF s \in Unused THEN <<>> ELSE <<next[s], end[s], stream[s], holder[s]>>],
    [r \in Runs |-> IF pc[r] = "none" THEN 0 ELSE reported[r]],
    {q \in requests : q.seq > card.seq \/ \E r \in Runs : seq[r] = q.seq}>>
=============================================================================
