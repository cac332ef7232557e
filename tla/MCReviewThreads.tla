--------------------------- MODULE MCReviewThreads ---------------------------
(* Instances of ReviewThreads for TLC. *)
EXTENDS ReviewThreads, TLC

\* Agents are interchangeable.
Symmetry == Permutations(Agents)
====
