--------------------------- MODULE MCWatchManager ---------------------------
(* Instances of WatchManager for TLC. *)
EXTENDS WatchManager, TLC

\* Watch IDs, callers, tokens and logins are interchangeable.
Symmetry == Permutations(Ids) \union Permutations(Callers) \union Permutations(Tokens)
            \union Permutations(Logins)

(***************************************************************************)
(* What a document says, and the code does not keep.                       *)
(***************************************************************************)
\* When a login has no active watch on a PR, start_copilot_review_watch can
\* create one: no active row of that key is left for the unique index to see.
FinishedKeyIsFree ==
  \A k \in Keys : phase = "open" /\ active[k] = Nil =>
    \A w \in Ids : ~(ActiveRow(w) /\ rows[w].key = k)
====
