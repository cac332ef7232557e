--------------------------- MODULE MCReviewRequest ---------------------------
(***************************************************************************)
(* ReviewRequest for TLC: symmetry, and what a comment of the repository   *)
(* claims of the order of requests.                                        *)
(***************************************************************************)
EXTENDS ReviewRequest

\* The callers of request_copilot_review are alike.
Alike == Permutations(Requesters)

\* The row of a request is dated after the last review unless an older row is as
\* recent, "so that GetLatest() continues to return the most-recent row"
\* (request.go): the row that answers are matched with is the one recorded last.
GetLatestReturnsNewest == log # <<>> => GetLatest = Len(log)
====
