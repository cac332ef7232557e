------------------------------ MODULE ReviewWait ------------------------------
(***************************************************************************)
(* wait_for_copilot_review (src/internal/tools/wait.go): the handler that  *)
(* blocks its caller, polls GitHub until the review is over, its polls are *)
(* used up or its context is cancelled, and answers with one result.       *)
(*                                                                         *)
(* A poll is a status call of ReviewRequest, read for read; this module    *)
(* adds the loop around it.  A sleep may end at any time, whatever the     *)
(* clock of ReviewRequest says: how long a call may sleep in all is        *)
(* counted in slept, in the seconds of its argument.  The context of a     *)
(* call may be cancelled at any time.                                      *)
(***************************************************************************)
EXTENDS ReviewRequest

CONSTANTS
  Waiters,       \* the observers that call wait_for_copilot_review
  IntervalArgs,  \* poll_interval_seconds a client may pass; 0 when it passes none
  PollArgs       \* max_polls a client may pass; 0 when it passes none

ASSUME WaitParameters ==
  Waiters \subseteq Observers /\ IntervalArgs \subseteq Nat /\ PollArgs \subseteq Nat

VARIABLE wait    \* the loop of each waiter

waitVars == <<now, pr, log, call, wait>>

(***************************************************************************)
(* Arguments: defaults, then limits.                                       *)
(***************************************************************************)
MaxTotalWait == 1800
Interval(arg) == IF arg = 0 THEN 120 ELSE arg
Polls(arg)    == IF arg = 0 THEN 5 ELSE arg
Admitted(interval, polls) ==
  interval <= 3600 /\ polls <= 100 /\ interval * (polls - 1) <= MaxTotalWait

(***************************************************************************)
(* poll is the number of the poll that runs or ran last; result is what    *)
(* the last call answered.                                                 *)
(***************************************************************************)
Results == Done \union {"TIMEOUT", "RATE_LIMITED", "CANCELLED", "ERROR"}
Out(result) == [pc |-> "out", interval |-> 0, polls |-> 0, poll |-> 0, slept |-> 0,
                result |-> result]

\* Types; a call sleeps no longer than the ceiling its arguments were admitted
\* under.
WaitTypeOK ==
  /\ TypeOK
  /\ wait \in [Waiters -> [pc: {"out", "poll", "sleep"}, interval: Nat, polls: Nat,
                           poll: Nat, slept: 0..MaxTotalWait,
                           result: Results \union {Nil}]]

Within(c, pc)      == wait[c].pc = pc
Answers(c, result) == wait' = [wait EXCEPT ![c] = Out(result)]

WaitCall(c) ==
  /\ Within(c, "out")
  /\ \E i \in IntervalArgs, p \in PollArgs :
       /\ Admitted(Interval(i), Polls(p))
       /\ wait' = [wait EXCEPT ![c] = [Out(Nil) EXCEPT
            !.pc = "poll", !.interval = Interval(i), !.polls = Polls(p), !.poll = 1]]
  /\ StatusCall(c)

\* GetReviewData; a cancelled context does not stop it at the timeline.
WaitReads(c) ==
  /\ ReadReviewers(c) \/ ReadReviews(c) \/ ReadTimeline(c) \/ TimelineFails(c)
  /\ UNCHANGED wait

\* Faulty variant: the status of a low rate limit completes the row.
WaitRateLowSettles(c) ==
  /\ call[c].pc \in {"reviews", "timeline", "decide"}
  /\ Answers(c, "RATE_LIMITED")
  /\ GetLatest # 0
  /\ UpdateCompletedAt(GetLatest)
  /\ Returns(c)
  /\ UNCHANGED <<now, pr>>

\* Fewer than 10 requests left after the reviewers, before the timeline or
\* after all reads: the status derived from what was read is only reported.
WaitRateLow(c) ==
  /\ call[c].pc \in {"reviews", "timeline", "decide"}
  /\ Answers(c, "RATE_LIMITED")
  /\ Fails(c)

(***************************************************************************)
(* Faulty variants: the loop goes round once more; only COMPLETED counts   *)
(* as an answer.                                                           *)
(***************************************************************************)
AfterPollOnceMore(c, status) ==
  IF status \in Done THEN Answers(c, status)
  ELSE IF wait[c].poll <= wait[c].polls THEN wait' = [wait EXCEPT ![c].pc = "sleep"]
  ELSE Answers(c, "TIMEOUT") \/ Answers(c, "CANCELLED")

AfterPollCompletedOnly(c, status) ==
  IF status = "COMPLETED" THEN Answers(c, status)
  ELSE IF wait[c].poll < wait[c].polls THEN wait' = [wait EXCEPT ![c].pc = "sleep"]
  ELSE Answers(c, "TIMEOUT") \/ Answers(c, "CANCELLED")

\* What follows a poll that derived status: the answer, a sleep, or the end of
\* the loop, where the context is looked at once more.
AfterPoll(c, status) ==
  IF status \in Done THEN Answers(c, status)
  ELSE IF wait[c].poll < wait[c].polls THEN wait' = [wait EXCEPT ![c].pc = "sleep"]
  ELSE Answers(c, "TIMEOUT") \/ Answers(c, "CANCELLED")

\* Faulty variant: the answer is given before the row is completed.
WaitDeriveAnswersFirst(c) ==
  /\ At(c, "decide")
  /\ AfterPoll(c, StatusOf(call[c].data, GetLatest))
  /\ Fails(c)

WaitDerive(c) ==
  /\ Derive(c)
  /\ IF call'[c].pc = "settle" THEN UNCHANGED wait
                               ELSE AfterPoll(c, StatusOf(call[c].data, GetLatest))

WaitSettle(c) ==
  /\ AfterPoll(c, StatusOf(call[c].data, call[c].entry))
  /\ Settle(c)

\* Faulty variant: a poll after a sleep is not counted.
SleepEndsUncounted(c) ==
  /\ Within(c, "sleep")
  /\ wait' = [wait EXCEPT ![c].pc = "poll"]
  /\ StatusCall(c)

SleepEnds(c) ==
  /\ Within(c, "sleep")
  /\ wait' = [wait EXCEPT ![c].pc = "poll", ![c].poll = @ + 1,
                          ![c].slept = @ + wait[c].interval]
  /\ StatusCall(c)

\* The context is done: seen by a sleep, and by the first two GitHub calls.
WaitCancelled(c) ==
  /\ Answers(c, "CANCELLED")
  /\ \/ Within(c, "sleep") /\ UNCHANGED vars
     \/ (At(c, "reviewers") \/ At(c, "reviews")) /\ Fails(c)

\* A GitHub error or a refused statement, or the process dies.
WaitFails(c) ==
  /\ Answers(c, "ERROR")
  /\ \/ Within(c, "sleep") /\ UNCHANGED vars
     \/ Fails(c)

WaitStep(c) == \/ WaitReads(c) \/ WaitRateLow(c) \/ WaitDerive(c) \/ WaitSettle(c)
               \/ SleepEnds(c) \/ WaitCancelled(c) \/ WaitFails(c)

Asking == Observers \ Waiters

WaitInit == Init /\ wait = [c \in Waiters |-> Out(Nil)]

WaitNext ==
  \/ \E c \in Waiters : WaitCall(c) \/ WaitStep(c)
  \/ /\ \/ \E c \in Requesters : RequestStep(c)
        \/ \E c \in Asking : StatusStep(c)
        \/ \E c \in Requesters \union Asking : ReadStep(c) \/ Fails(c)
        \/ \E i \in DOMAIN log : CancelWatch(i)
        \/ GitHub
     /\ UNCHANGED wait

WaitSpec == WaitInit /\ [][WaitNext]_waitVars

\* A call that began is carried on: GitHub answers or fails, timers fire.  A
\* client that waits for an answer calls again, and is not cancelled every time.
CarriedOn    == \A c \in Waiters : WF_waitVars(WaitStep(c))
FairWaitSpec == WaitSpec /\ CarriedOn /\ \A c \in Observers : KeepsAsking(c)

(***************************************************************************)
(* Properties.                                                             *)
(***************************************************************************)
\* For the requests a waiting call is a sequence of status calls: it writes
\* trigger_log when and as they do, and nothing on its other ways out.
WaitIsStatusCalls == Spec

Ends(c, results) == wait[c].pc # "out" /\ wait'[c].pc = "out" /\ wait'[c].result \in results

\* A caller told that the review is over can request the next one: no request
\* is pending, but for one recorded since the last poll began, for one that
\* GetLatest does not return because it is dated before an older one, and for
\* the older ones of requests made at the same time (DuplicatesAreRaces).
DoneFreesRequest ==
  [][\A c \in Waiters : Ends(c, Done) /\ Len(log) = call[c].mark /\ GetLatest \in {0, Len(log)}
       => \A i \in DOMAIN log :
            ~log'[i].done => i < Len(log) /\ Len(log) - i < Cardinality(Requesters)]_waitVars

\* A poll hides no answer: one that ends in a sleep, in TIMEOUT or, with the
\* context done after the last poll, in CANCELLED, found the newest row without
\* an answer GitHub had listed when the poll began, BLOCKED included.
FindsNothing(c) == At(c, "decide") /\ (wait'[c].pc = "sleep" \/ Ends(c, {"TIMEOUT", "CANCELLED"}))

TimeoutHidesNoAnswer ==
  [][\A c \in Waiters : FindsNothing(c) /\ GetLatest # 0
       => \A k \in DOMAIN pr.reviews : ~Recognisable(c, GetLatest, k)]_waitVars

\* Every call returns, whatever GitHub and Copilot do.
WaitReturns == \A c \in Waiters : Within(c, "poll") ~> Within(c, "out")
====
