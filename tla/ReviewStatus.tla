---------------------------- MODULE ReviewStatus ----------------------------
(***************************************************************************)
(* How a review status is derived from what GitHub says of a pull request  *)
(* and from the newest trigger_log row (src/internal/github/client.go).    *)
(*                                                                         *)
(* Times are seconds, from 1 on: Go's zero time, and a missing one, is     *)
(* Nil.  What GetReviewData returns is a record                            *)
(*   listed       Copilot is in requested_reviewers                        *)
(*   review       the newest review of Copilot, or Nil                     *)
(*   requestedAt  the newest review_requested event, or Nil                *)
(*   startedAt    the newest copilot_work_started event, or Nil            *)
(***************************************************************************)
EXTENDS Integers, Sequences, SequencesExt

CONSTANT Nil

ReviewStates == {"COMMENTED", "APPROVED", "CHANGES_REQUESTED"}
Statuses     == {"NOT_REQUESTED", "PENDING", "IN_PROGRESS", "COMPLETED", "BLOCKED"}
Done         == {"COMPLETED", "BLOCKED"}

NoData == [listed |-> FALSE, review |-> Nil, requestedAt |-> Nil, startedAt |-> Nil]

\* t.After(u), where Go's zero time is before every other.
After(t, u) == t # Nil /\ (u = Nil \/ t > u)

(***************************************************************************)
(* Faulty variants, for the mutation of the definitions below: the first   *)
(* review of the list is kept; a request that names no review is answered  *)
(* by any, whatever the dates say.                                         *)
(***************************************************************************)
NewestReviewFirst(reviews) == IF reviews = <<>> THEN Nil ELSE Head(reviews)

RelevantUndated(data, requestedAt, prevReviewID) ==
  LET asked == IF data.requestedAt # Nil THEN data.requestedAt ELSE requestedAt
  IN asked = Nil \/ prevReviewID = Nil \/ data.review.id # prevReviewID

\* The review GetReviewData keeps of the list: a later one replaces it only if
\* it was submitted strictly later.
NewestReview(reviews) ==
  FoldLeft(LAMBDA kept, r : IF kept = Nil THEN r
                            ELSE IF After(r.at, kept.at) THEN r ELSE kept,
           Nil, reviews)

\* The list of reviewers says nothing of the timeline when Copilot is neither
\* listed nor the author of a review: it is not fetched then.
NeedsTimeline(data) == data.listed \/ data.review # Nil

\* Whether the review answers the request: by its ID if the request knew of an
\* earlier review, by its time otherwise (a review without time never does).
Relevant(data, requestedAt, prevReviewID) ==
  LET asked == IF data.requestedAt # Nil THEN data.requestedAt ELSE requestedAt
  IN CASE asked = Nil        -> TRUE
       [] prevReviewID # Nil -> data.review.id # prevReviewID
       [] OTHER              -> data.review.at # Nil /\ ~After(asked, data.review.at)

\* Copilot began to work on the newest request.
Started(data) == After(data.startedAt, data.requestedAt)

DeriveStatus(data, requestedAt, prevReviewID) ==
  IF data.review # Nil /\ Relevant(data, requestedAt, prevReviewID)
  THEN IF data.review.state = "CHANGES_REQUESTED" THEN "BLOCKED" ELSE "COMPLETED"
  ELSE IF ~data.listed THEN "NOT_REQUESTED"
  ELSE IF Started(data) THEN "IN_PROGRESS" ELSE "PENDING"
====
