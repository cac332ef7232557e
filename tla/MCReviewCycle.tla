---------------------------- MODULE MCReviewCycle ----------------------------
(***************************************************************************)
(* ReviewCycle for TLC, and what the repository says of the actions it     *)
(* recommends.                                                             *)
(***************************************************************************)
EXTENDS ReviewCycle

\* READY_TO_MERGE is noted as "termination condition met (unresolved=0, CI=OK)"
\* (cycle.go): no thread is unresolved then, unless a review came after the one
\* the handler judged.
ReadyHasNoUnresolved ==
  [][\A c \in Observers :
       /\ At(c, "decide") /\ action[c] = Nil /\ action'[c] = "READY_TO_MERGE"
       /\ call[c].data.review.id = Len(pr.reviews)
       => T!Unresolved = {}]_cycleVars
====
