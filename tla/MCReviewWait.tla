----------------------------- MODULE MCReviewWait -----------------------------
(***************************************************************************)
(* ReviewWait for TLC, with the limits of its arguments at their edges.    *)
(***************************************************************************)
EXTENDS ReviewWait

\* The defaults are admitted; one poll may have any interval; the ceiling is met
\* exactly by 900 seconds and three polls; the single limits hold for all.
ASSUME LimitsAtTheirEdges ==
  /\ Admitted(Interval(0), Polls(0))
  /\ Admitted(3600, 1) /\ ~Admitted(3601, 1)
  /\ Admitted(900, 3) /\ ~Admitted(901, 3)
  /\ Admitted(18, 100) /\ ~Admitted(1, 101)
====
