---------------------------- MODULE ReviewRequest ----------------------------
(***************************************************************************)
(* Requesting a review of one pull request and finding out that it is      *)
(* done: the handlers of request_copilot_review and of                     *)
(* get_copilot_review_status (src/internal/tools/request.go, status.go),   *)
(* the trigger_log rows of that pull request (src/internal/store/db.go),   *)
(* and GitHub, as far as src/internal/github/client.go observes it.        *)
(*                                                                         *)
(* The poll of a watch and of wait_for_copilot_review (ReviewWait) settle  *)
(* a request as get_copilot_review_status does: for the state of this      *)
(* module they are further calls of it.  A handler makes three GitHub      *)
(* calls and one to three SQLite statements; each is an action, so that    *)
(* handlers interleave between them.  GitHub's clock and the host's differ *)
(* by Skew seconds, and GitHub lists a review up to Lag seconds after it   *)
(* was submitted.                                                          *)
(***************************************************************************)
EXTENDS ReviewStatus, FiniteSets

CONSTANTS
  Requesters,    \* concurrent calls of request_copilot_review
  Observers,     \* concurrent calls of get_copilot_review_status
  States,        \* the review states Copilot submits
  Skew,          \* host clock minus GitHub clock
  Lag,           \* seconds GitHub may take to list a review
  Automatic,     \* whether GitHub also requests Copilot by itself (AUTO)
  CallTime,      \* most seconds a handler takes
  ReviewTime,    \* least seconds Copilot takes to review, at least one
  MaxTime,       \* bound on time
  MaxReviews,    \* bound on the reviews submitted
  MaxRows        \* bound on the rows of trigger_log

Callers == Requesters \union Observers

ASSUME Parameters ==
  /\ States \subseteq ReviewStates
  /\ Skew \in Int /\ Lag \in Nat /\ Automatic \in BOOLEAN
  /\ CallTime \in Nat /\ ReviewTime \in Nat \ {0}
  /\ MaxTime \in Nat \ {0} /\ MaxReviews \in Nat /\ MaxRows \in Nat
  /\ IsFiniteSet(Requesters)
  /\ Requesters \intersect Observers = {}

VARIABLES
  now,      \* GitHub's clock
  pr,       \* GitHub's side: listed, requestedAt, startedAt, reviews
  log,      \* trigger_log of the pull request, in the order of insertion
  call      \* the handler each caller is in the middle of

vars == <<now, pr, log, call>>

Time     == 1..MaxTime
ReviewId == 1..MaxReviews
Reviews  == [id: ReviewId, at: Time, state: States]
Data     == [listed: BOOLEAN, review: Reviews \union {Nil},
             requestedAt: Time \union {Nil}, startedAt: Time \union {Nil}]

ASSUME NilIsNoValue == Nil \notin Reviews \union Int

\* base is the number of reviews submitted when GitHub was asked, asked the time
\* of GitHub's newest request when the row was written: the code has no such
\* columns, they only serve the properties.
Row      == [at: Int, done: BOOLEAN, prev: ReviewId \union {Nil},
             base: 0..MaxReviews, asked: Time \union {Nil}]

\* since is when the handler began, data what GetReviewData has read so far,
\* entry the row GetLatest returned.  mark and seen only serve the properties:
\* for a request mark is the number of reviews when it asked GitHub, for a status
\* call the number of rows, and seen that of reviews, when it began.
CallPc == {"idle", "reviewers", "reviews", "timeline", "decide", "latest", "insert", "settle"}
Idle   == [pc |-> "idle", since |-> 0, data |-> NoData, entry |-> 0, mark |-> 0,
           seen |-> 0]

TypeOK ==
  /\ now \in Time
  /\ pr \in [listed: BOOLEAN, requestedAt: Time \union {Nil},
             startedAt: Time \union {Nil}, reviews: Seq(Reviews)]
  /\ Len(pr.reviews) <= MaxReviews
  /\ log \in Seq(Row)
  /\ Len(log) <= MaxRows
  /\ call \in [Callers -> [pc: CallPc, since: 0..MaxTime, data: Data,
                            entry: 0..MaxRows, mark: Nat, seen: 0..MaxReviews]]

(***************************************************************************)
(* trigger_log.                                                            *)
(***************************************************************************)
HasPending == \E i \in DOMAIN log : ~log[i].done

\* ORDER BY requested_at DESC, id DESC LIMIT 1; 0 is no row.
GetLatest ==
  IF log = <<>> THEN 0
  ELSE CHOOSE i \in DOMAIN log : \A j \in DOMAIN log \ {i} :
         log[j].at < log[i].at \/ (log[j].at = log[i].at /\ j < i)

Insert(at, prev, base) ==
  log' = Append(log, [at |-> at, done |-> FALSE, prev |-> prev, base |-> base,
                      asked |-> pr.requestedAt])

UpdateCompletedAt(i) == log' = [log EXCEPT ![i].done = TRUE]

(***************************************************************************)
(* GetReviewData: reviewers, then reviews, then (best effort) the timeline.*)
(***************************************************************************)
At(c, pc)    == call[c].pc = pc
GoTo(c, pc)  == call' = [call EXCEPT ![c].pc = pc]
Begins(c, rows, reviews) ==
  call' = [call EXCEPT ![c].pc = "reviewers", ![c].since = now,
                       ![c].mark = rows, ![c].seen = reviews]
Returns(c)   == call' = [call EXCEPT ![c] = Idle]

ReadReviewers(c) ==
  /\ At(c, "reviewers")
  /\ call' = [call EXCEPT ![c].data.listed = pr.listed, ![c].pc = "reviews"]
  /\ UNCHANGED <<now, pr, log>>

\* What ListReviews may return: all reviews, or all but those too recent.
Listings ==
  {SubSeq(pr.reviews, 1, n) : n \in {m \in 0..Len(pr.reviews) :
     \A i \in (m + 1)..Len(pr.reviews) : pr.reviews[i].at + Lag > now}}

ReadReviews(c) ==
  /\ At(c, "reviews")
  /\ \E listing \in Listings :
       LET data == [call[c].data EXCEPT !.review = NewestReview(listing)]
       IN call' = [call EXCEPT ![c].data = data,
                               ![c].pc = IF NeedsTimeline(data) THEN "timeline" ELSE "decide"]
  /\ UNCHANGED <<now, pr, log>>

ReadTimeline(c) ==
  /\ At(c, "timeline")
  /\ call' = [call EXCEPT ![c].data.requestedAt = pr.requestedAt,
                          ![c].data.startedAt = pr.startedAt,
                          ![c].pc = "decide"]
  /\ UNCHANGED <<now, pr, log>>

\* With a low rate limit GetReviewData stops after the reviewers (or before the
\* timeline); request_copilot_review goes on with what it has, a status call
\* returns an error.
RateLow(c) ==
  /\ At(c, "reviews")
  /\ c \in Requesters
  /\ GoTo(c, "decide")
  /\ UNCHANGED <<now, pr, log>>

\* A failed timeline call is ignored, as is one left out for the rate limit.
TimelineFails(c) ==
  /\ At(c, "timeline")
  /\ GoTo(c, "decide")
  /\ UNCHANGED <<now, pr, log>>

\* DeriveStatus of what was read and of the row GetLatest returned.
StatusOf(data, entry) ==
  IF entry = 0 THEN DeriveStatus(data, Nil, Nil)
               ELSE DeriveStatus(data, log[entry].at, log[entry].prev)

(***************************************************************************)
(* Faulty variants, for the mutation of the definitions below: a request   *)
(* that does not look for a pending row; a status call that forgets a      *)
(* review that requests changes.                                           *)
(***************************************************************************)
RequestCallUnchecked(c) ==
  /\ At(c, "idle")
  /\ Len(log) < MaxRows
  /\ Begins(c, 0, 0)
  /\ UNCHANGED <<now, pr, log>>

DeriveCompletedOnly(c) ==
  /\ At(c, "decide")
  /\ LET entry == GetLatest
         owes  == StatusOf(call[c].data, entry) = "COMPLETED" /\ entry # 0 /\ ~log[entry].done
     IN IF owes THEN call' = [call EXCEPT ![c].entry = entry, ![c].pc = "settle"]
                ELSE Returns(c)
  /\ UNCHANGED <<now, pr, log>>

(***************************************************************************)
(* request_copilot_review.                                                 *)
(***************************************************************************)
RequestCall(c) ==
  /\ At(c, "idle")
  /\ ~HasPending
  /\ Len(log) < MaxRows
  /\ Begins(c, 0, 0)
  /\ UNCHANGED <<now, pr, log>>

\* REVIEW_IN_PROGRESS: Copilot is a requested reviewer.
Refuse(c) ==
  /\ At(c, "decide")
  /\ call[c].data.listed
  /\ Returns(c)
  /\ UNCHANGED <<now, pr, log>>

Listed(p) == IF p.listed THEN p ELSE [p EXCEPT !.listed = TRUE, !.requestedAt = now]

\* The mutation: Copilot becomes a requested reviewer.
RequestCopilotReview(c) ==
  /\ At(c, "decide")
  /\ ~call[c].data.listed
  /\ pr' = Listed(pr)
  /\ call' = [call EXCEPT ![c].pc = IF call[c].data.review # Nil THEN "latest" ELSE "insert",
                          ![c].mark = Len(pr.reviews)]
  /\ UNCHANGED <<now, log>>

\* A review was there: GetLatest decides how the row is dated.
ReadLatest(c) ==
  /\ At(c, "latest")
  /\ call' = [call EXCEPT ![c].entry = GetLatest, ![c].pc = "insert"]
  /\ UNCHANGED <<now, pr, log>>

\* The row is dated one second after the review that was there, and names it,
\* unless an older row is as recent; then, and without a review, it is dated now.
RecordTrigger(c) ==
  /\ At(c, "insert")
  /\ Len(log) < MaxRows
  /\ LET review    == call[c].data.review
         entry     == call[c].entry
         candidate == review.at + 1
     IN IF review # Nil /\ (entry = 0 \/ candidate > log[entry].at)
        THEN Insert(candidate, review.id, call[c].mark)
        ELSE Insert(now + Skew, Nil, call[c].mark)
  /\ Returns(c)
  /\ UNCHANGED <<now, pr>>

RequestStep(c) == RequestCall(c) \/ Refuse(c) \/ RequestCopilotReview(c)
                  \/ ReadLatest(c) \/ RecordTrigger(c)

(***************************************************************************)
(* get_copilot_review_status.                                              *)
(***************************************************************************)
StatusCall(c) ==
  /\ At(c, "idle")
  /\ Begins(c, Len(log), Len(pr.reviews))
  /\ UNCHANGED <<now, pr, log>>

\* GetLatest and DeriveStatus: a request that is done has still to be completed.
Derive(c) ==
  /\ At(c, "decide")
  /\ LET entry == GetLatest
         owes  == StatusOf(call[c].data, entry) \in Done /\ entry # 0 /\ ~log[entry].done
     IN IF owes THEN call' = [call EXCEPT ![c].entry = entry, ![c].pc = "settle"]
                ELSE Returns(c)
  /\ UNCHANGED <<now, pr, log>>

Settle(c) ==
  /\ At(c, "settle")
  /\ UpdateCompletedAt(call[c].entry)
  /\ Returns(c)
  /\ UNCHANGED <<now, pr>>

StatusStep(c) == StatusCall(c) \/ Derive(c) \/ Settle(c)

ReadStep(c) == ReadReviewers(c) \/ ReadReviews(c) \/ RateLow(c)
               \/ ReadTimeline(c) \/ TimelineFails(c)

\* A handler fails (a GitHub error, a low rate limit, a refused statement, a
\* client gone) or the process dies: what it did stays, what it had left does not.
Fails(c) ==
  /\ ~At(c, "idle")
  /\ Returns(c)
  /\ UNCHANGED <<now, pr, log>>

(***************************************************************************)
(* Around the handlers: a cancelled watch completes the row it is linked   *)
(* to; time; Copilot and the users of GitHub.                              *)
(***************************************************************************)
CancelWatch(i) ==
  /\ ~log[i].done
  /\ UpdateCompletedAt(i)
  /\ UNCHANGED <<now, pr, call>>

Tick ==
  /\ now < MaxTime
  /\ \A c \in Callers : At(c, "idle") \/ now < call[c].since + CallTime
  /\ now' = now + 1
  /\ UNCHANGED <<pr, log, call>>

AutomaticRequest ==
  /\ Automatic
  /\ ~pr.listed
  /\ pr' = Listed(pr)
  /\ UNCHANGED <<now, log, call>>

\* Copilot starts once per request.
StartWork ==
  /\ pr.listed
  /\ now > pr.requestedAt
  /\ ~After(pr.startedAt, pr.requestedAt)
  /\ pr' = [pr EXCEPT !.startedAt = now]
  /\ UNCHANGED <<now, log, call>>

SubmitReview(state) ==
  /\ pr.listed
  /\ now >= pr.requestedAt + ReviewTime
  /\ Len(pr.reviews) < MaxReviews
  /\ pr' = [pr EXCEPT !.listed = FALSE,
                      !.reviews = Append(@, [id |-> Len(@) + 1, at |-> now, state |-> state])]
  /\ UNCHANGED <<now, log, call>>

\* A user removes Copilot from the reviewers.
Withdraw ==
  /\ pr.listed
  /\ pr' = [pr EXCEPT !.listed = FALSE]
  /\ UNCHANGED <<now, log, call>>

GitHub == Tick \/ AutomaticRequest \/ StartWork \/ Withdraw \/ \E s \in States : SubmitReview(s)

Init ==
  /\ now = 1
  /\ pr = [listed |-> FALSE, requestedAt |-> Nil, startedAt |-> Nil, reviews |-> <<>>]
  /\ log = <<>>
  /\ call = [c \in Callers |-> Idle]

Next ==
  \/ \E c \in Requesters : RequestStep(c)
  \/ \E c \in Observers : StatusStep(c)
  \/ \E c \in Callers : ReadStep(c) \/ Fails(c)
  \/ \E i \in DOMAIN log : CancelWatch(i)
  \/ GitHub

Spec == Init /\ [][Next]_vars

(***************************************************************************)
(* Properties.                                                             *)
(***************************************************************************)
\* The review before request i may pass for its answer.  GitHub listed it late,
\* or it came while the request's handler ran, and the handler did not see it;
\* or the row names no review, so that only dates can tell (request.go dates it
\* by the host's clock), and the review is as young as the request or the row.
Blurred(i) ==
  /\ log[i].base > 0
  /\ LET last == pr.reviews[log[i].base].at
     IN \/ Lag > 0 /\ last + Lag + CallTime > log[i].asked
        \/ last + CallTime >= log[i].asked + ReviewTime
        \/ log[i].prev = Nil /\ (last >= log[i].asked \/ last >= log[i].at)

\* Requests are duplicated by races only: behind a pending row nothing is
\* recorded but by callers whose HasPending came before that row, one row each.
DuplicatesAreRaces ==
  \A i \in DOMAIN log :
    ~log[i].done =>
      Len(log) - i + Cardinality({c \in Requesters : ~At(c, "idle")}) < Cardinality(Requesters)

\* A status call that began after the row was there completes it only if
\* Copilot submitted a review since GitHub was asked for one, but for a row
\* whose earlier review passes for the answer (Blurred).
SettledByAnswer ==
  \A c \in Observers :
    LET i == call[c].entry
    IN At(c, "settle") /\ i <= call[c].mark => Len(pr.reviews) > log[i].base \/ Blurred(i)

\* What a status call that has read reviewers, reviews and timeline, each at its
\* own moment, derives for the newest row, if that was there when it began:
\* - an outcome only of a review submitted since that request (but for Blurred);
\* - the outcome of the last review, if it is one of those, nothing was asked
\*   since, GitHub listed it before the call, and it is dated after the row
\*   (or the row names the review before);
\* - PENDING or IN_PROGRESS, as Copilot has begun or not, if Copilot was asked
\*   before the call, has not answered and was not withdrawn.
Derived(c)      == StatusOf(call[c].data, GetLatest)
Outcome(review) == IF review.state = "CHANGES_REQUESTED" THEN "BLOCKED" ELSE "COMPLETED"

OnlyAnswersCount(c, i) ==
  Derived(c) \in Done =>
    \/ Blurred(i)
    \/ \E k \in (log[i].base + 1)..Len(pr.reviews) : Derived(c) = Outcome(pr.reviews[k])

Recognisable(c, i, k) ==
  /\ k \in (log[i].base + 1)..call[c].seen
  /\ pr.requestedAt <= pr.reviews[k].at
  /\ pr.reviews[k].at + Lag <= call[c].since
  /\ log[i].prev # Nil \/ log[i].at <= pr.reviews[k].at

AnswerIsSeen(c, i) ==
  Recognisable(c, i, Len(pr.reviews)) => Derived(c) = Outcome(pr.reviews[Len(pr.reviews)])

OpenRequestIsSeen(c, i) ==
  /\ Len(pr.reviews) = log[i].base
  /\ pr.listed /\ pr.requestedAt < call[c].since
  /\ ~Blurred(i)
  => \/ Derived(c) = "PENDING"
     \/ Derived(c) = "IN_PROGRESS" /\ After(pr.startedAt, pr.requestedAt)

StatusFollowsRequest ==
  \A c \in Observers :
    LET i == GetLatest
    IN At(c, "decide") /\ 0 < i /\ i <= call[c].mark =>
         OnlyAnswersCount(c, i) /\ AnswerIsSeen(c, i) /\ OpenRequestIsSeen(c, i)

\* A client that keeps asking for the status; GitHub and SQLite that answer
\* again and again if they are asked again and again.
KeepsAsking(c) ==
  /\ WF_vars(StatusCall(c))
  /\ SF_vars(ReadReviewers(c)) /\ SF_vars(ReadReviews(c)) /\ SF_vars(ReadTimeline(c))
  /\ SF_vars(Derive(c)) /\ SF_vars(Settle(c))

FairSpec == Spec /\ \A c \in Observers : KeepsAsking(c)

Answered(i) == /\ i \in DOMAIN log
               /\ GetLatest = i
               /\ Len(pr.reviews) > log[i].base
               /\ ~pr.listed

\* The newest row is completed once Copilot answered it, unless Copilot is
\* asked again: no failure leaves an answered request pending for good.
AnsweredIsSettled ==
  \A i \in 1..MaxRows : Answered(i) ~> (i \in DOMAIN log /\ log[i].done) \/ ~Answered(i)
====
