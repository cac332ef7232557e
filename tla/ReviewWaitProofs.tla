--------------------------- MODULE ReviewWaitProofs ---------------------------
(***************************************************************************)
(* Theorems about ReviewWait: a waiting call is a sequence of status       *)
(* calls, sleeps no longer than it may, and says DONE only of a request    *)
(* that is completed.  What ReviewRequestProofs shows of status calls      *)
(* holds of waiting calls by the first theorem.                            *)
(***************************************************************************)
EXTENDS ReviewWait, ReviewRequestProofs

(***************************************************************************)
(* A waiting call is a sequence of status calls.                           *)
(***************************************************************************)
LEMMA WaiterObserves == ASSUME NEW c \in Waiters PROVE c \in Observers /\ c \in Callers
BY WaitParameters DEF Callers

\* A step of the loop is a step of a status call, or none.
LEMMA WaitStepIsStatusCall ==
  ASSUME NEW c \in Waiters, WaitCall(c) \/ WaitStep(c)
  PROVE  \/ StatusStep(c) \/ ReadStep(c) \/ Fails(c)
         \/ UNCHANGED vars
<1>1. CASE WaitCall(c) \/ SleepEnds(c)
  <2>1. StatusCall(c)
    BY <1>1, Zenon DEF WaitCall, SleepEnds
  <2> QED BY <2>1 DEF StatusStep
<1>2. CASE WaitReads(c)
  BY <1>2 DEF WaitReads, ReadStep
<1>3. CASE WaitRateLow(c)
  BY <1>3 DEF WaitRateLow
<1>4. CASE WaitDerive(c) \/ WaitSettle(c)
  BY <1>4 DEF WaitDerive, WaitSettle, StatusStep
<1>5. CASE WaitCancelled(c) \/ WaitFails(c)
  BY <1>5 DEF WaitCancelled, WaitFails
<1> QED BY <1>1, <1>2, <1>3, <1>4, <1>5 DEF WaitStep

LEMMA WaitNextIsNext == [WaitNext]_waitVars => [Next]_vars
<1> SUFFICES ASSUME [WaitNext]_waitVars
             PROVE  [Next]_vars
  OBVIOUS
<1>1. CASE UNCHANGED waitVars
  BY <1>1 DEF waitVars, vars
<1>2. ASSUME NEW c \in Waiters, WaitCall(c) \/ WaitStep(c)
      PROVE  [Next]_vars
  BY <1>2, WaitStepIsStatusCall, WaiterObserves, Zenon DEF Next
<1>3. CASE \/ \E c \in Requesters : RequestStep(c)
           \/ \E c \in Asking : StatusStep(c)
           \/ \E c \in Requesters \union Asking : ReadStep(c) \/ Fails(c)
           \/ \E i \in DOMAIN log : CancelWatch(i)
           \/ GitHub
  <2>1. Asking \subseteq Observers /\ Requesters \union Asking \subseteq Callers
    BY DEF Asking, Callers
  <2> QED BY <1>3, <2>1 DEF Next
<1> QED BY <1>1, <1>2, <1>3 DEF WaitNext

\* For the requests, wait_for_copilot_review is get_copilot_review_status called
\* again and again: every way out of its loop leaves trigger_log as a status call
\* would.
THEOREM WaitImplementsStatusCalls == WaitSpec => WaitIsStatusCalls
<1>1. WaitInit => Init
  BY DEF WaitInit
<1> QED BY <1>1, WaitNextIsNext, PTL DEF WaitSpec, WaitIsStatusCalls, Spec

(***************************************************************************)
(* The loop: types and budget.                                             *)
(***************************************************************************)
Loop == [pc: {"out", "poll", "sleep"}, interval: Nat, polls: Nat, poll: Nat,
         slept: 0..MaxTotalWait, result: Results \union {Nil}]

\* A call that runs slept before each of its polls but the first, one interval
\* each, and its arguments were admitted; one that sleeps has a poll left.
InBudget(x) ==
  x.pc # "out" =>
    /\ x.poll >= 1 /\ x.poll <= x.polls
    /\ Admitted(x.interval, x.polls)
    /\ x.slept = x.interval * (x.poll - 1)
    /\ x.pc = "sleep" => x.poll < x.polls

\* A waiter is in a status call exactly while its loop polls.
Engaged(c) == Within(c, "poll") <=> ~At(c, "idle")

WaitInv ==
  /\ RequestInv
  /\ wait \in [Waiters -> Loop]
  /\ \A c \in Waiters : InBudget(wait[c]) /\ Engaged(c)

\* One interval more stays under the ceiling while a poll is left.
LEMMA SleepFits ==
  ASSUME NEW i \in Nat, NEW p \in Nat, NEW n \in Nat, n >= 1, n < p, Admitted(i, p)
  PROVE  /\ i * (n - 1) + i = i * n
         /\ i * n \in 0..MaxTotalWait
<1>1. i * n <= i * (p - 1)
  <2>1. n <= p - 1 /\ p - 1 \in Nat
    OBVIOUS
  <2> QED BY <2>1
<1>2. i * (n - 1) + i = i * n
  OBVIOUS
<1>3. i * n \in Nat /\ i * (p - 1) <= MaxTotalWait
  BY DEF Admitted
<1>4. i * (p - 1) \in Nat
  OBVIOUS
<1> QED BY <1>1, <1>2, <1>3, <1>4 DEF MaxTotalWait

LEMMA OutType ==
  ASSUME NEW result \in Results \union {Nil}
  PROVE  Out(result) \in Loop /\ Out(result).pc = "out" /\ Out(result).result = result
         /\ InBudget(Out(result))
<1>1. 0 \in 0..MaxTotalWait
  BY DEF MaxTotalWait
<1> QED BY <1>1 DEF Out, Loop, InBudget

\* The loops of the other waiters go on as they were.
OtherLoops(c) ==
  /\ wait' \in [Waiters -> Loop]
  /\ \A b \in Waiters \ {c} : wait'[b] = wait[b]

LEMMA AnswersEffect ==
  ASSUME wait \in [Waiters -> Loop], NEW c \in Waiters, NEW result \in Results,
         Answers(c, result)
  PROVE  OtherLoops(c) /\ wait'[c].pc = "out" /\ wait'[c].result = result /\ InBudget(wait'[c])
<1>1. Out(result) \in Loop /\ wait' = [wait EXCEPT ![c] = Out(result)]
  BY OutType DEF Answers
<1> QED BY <1>1, OutType DEF OtherLoops

LEMMA WaitCallEffect ==
  ASSUME wait \in [Waiters -> Loop], NEW c \in Waiters, WaitCall(c)
  PROVE  OtherLoops(c) /\ wait'[c].pc = "poll" /\ InBudget(wait'[c])
<1>1. PICK i \in IntervalArgs, p \in PollArgs :
        /\ Admitted(Interval(i), Polls(p))
        /\ wait' = [wait EXCEPT ![c] = [Out(Nil) EXCEPT
             !.pc = "poll", !.interval = Interval(i), !.polls = Polls(p), !.poll = 1]]
  BY Zenon DEF WaitCall
<1> DEFINE interval == Interval(i)
           polls == Polls(p)
           x == [Out(Nil) EXCEPT !.pc = "poll", !.interval = interval, !.polls = polls,
                                 !.poll = 1]
<1>2. interval \in Nat /\ polls \in Nat /\ polls >= 1
  BY WaitParameters DEF Interval, Polls
<1>3. Admitted(interval, polls) /\ wait' = [wait EXCEPT ![c] = x]
  BY <1>1
<1> HIDE DEF interval, polls
<1>4. /\ x \in Loop /\ x.pc = "poll" /\ x.interval = interval /\ x.polls = polls
      /\ x.poll = 1 /\ x.slept = 0
  <2>1. 0 \in 0..MaxTotalWait
    BY DEF MaxTotalWait
  <2> QED BY <1>2, <2>1 DEF Out, Loop
<1> HIDE DEF x
<1>5. InBudget(x)
  <2>1. interval * (1 - 1) = 0
    BY <1>2
  <2> QED BY <1>2, <1>3, <1>4, <2>1 DEF InBudget
<1> QED BY <1>3, <1>4, <1>5 DEF OtherLoops

LEMMA SleepsEffect ==
  ASSUME wait \in [Waiters -> Loop], NEW c \in Waiters, InBudget(wait[c]), Within(c, "poll"),
         wait[c].poll < wait[c].polls, wait' = [wait EXCEPT ![c].pc = "sleep"]
  PROVE  OtherLoops(c) /\ wait'[c].pc = "sleep" /\ InBudget(wait'[c])
<1> DEFINE x == wait[c]
           y == [x EXCEPT !.pc = "sleep"]
<1>1. x \in Loop /\ wait' = [wait EXCEPT ![c] = y]
  OBVIOUS
<1>2. InBudget(x) /\ x.pc = "poll" /\ x.poll < x.polls
  BY DEF Within
<1> HIDE DEF x
<1>3. /\ y \in Loop /\ y.pc = "sleep" /\ y.interval = x.interval /\ y.polls = x.polls
      /\ y.poll = x.poll /\ y.slept = x.slept
  BY <1>1 DEF Loop
<1> HIDE DEF y
<1>4. InBudget(y)
  BY <1>2, <1>3 DEF InBudget
<1> QED BY <1>1, <1>3, <1>4 DEF OtherLoops

LEMMA SleepEndsEffect ==
  ASSUME wait \in [Waiters -> Loop], NEW c \in Waiters, InBudget(wait[c]), SleepEnds(c)
  PROVE  OtherLoops(c) /\ wait'[c].pc = "poll" /\ InBudget(wait'[c])
<1> DEFINE x == wait[c]
           n == x.poll + 1
           slept == x.slept + x.interval
           x1 == [x EXCEPT !.pc = "poll"]
           x2 == [x1 EXCEPT !.poll = n]
           y == [x2 EXCEPT !.slept = slept]
<1>1. /\ x \in Loop /\ x.pc = "sleep" /\ InBudget(x)
      /\ wait' = [wait EXCEPT ![c].pc = "poll", ![c].poll = @ + 1,
                              ![c].slept = @ + wait[c].interval]
  BY DEF SleepEnds, Within
<1>2. wait' = [wait EXCEPT ![c] = y]
  BY <1>1 DEF Loop
<1> HIDE DEF x
<1>4. /\ x.poll \in Nat /\ x.polls \in Nat /\ x.interval \in Nat /\ x.poll >= 1
      /\ x.poll < x.polls /\ Admitted(x.interval, x.polls)
      /\ x.slept = x.interval * (x.poll - 1)
  BY <1>1 DEF Loop, InBudget
<1>5. n \in Nat /\ slept = x.interval * x.poll /\ slept \in 0..MaxTotalWait
  BY <1>4, SleepFits
<1>6. x.interval * (n - 1) = x.interval * x.poll /\ n >= 1 /\ n <= x.polls
  <2>1. n - 1 = x.poll /\ n >= 1 /\ n <= x.polls
    BY <1>4
  <2> QED BY <2>1
<1> HIDE DEF n, slept
<1>7. /\ x1 \in Loop /\ x1.pc = "poll" /\ x1.interval = x.interval /\ x1.polls = x.polls
  BY <1>1 DEF Loop
<1> HIDE DEF x1
<1>8. /\ x2 \in Loop /\ x2.pc = "poll" /\ x2.interval = x.interval /\ x2.polls = x.polls
      /\ x2.poll = n
  BY <1>5, <1>7 DEF Loop
<1> HIDE DEF x2
<1>9. /\ y \in Loop /\ y.pc = "poll" /\ y.interval = x.interval /\ y.polls = x.polls
      /\ y.poll = n /\ y.slept = slept
  BY <1>5, <1>8 DEF Loop
<1> HIDE DEF y
<1>10. InBudget(y)
  BY <1>4, <1>5, <1>6, <1>9 DEF InBudget
<1> QED BY <1>2, <1>9, <1>10 DEF OtherLoops

LEMMA AfterPollEffect ==
  ASSUME wait \in [Waiters -> Loop], NEW c \in Waiters, InBudget(wait[c]), Within(c, "poll"),
         NEW status, AfterPoll(c, status)
  PROVE  OtherLoops(c) /\ wait'[c].pc # "poll" /\ InBudget(wait'[c])
<1>1. "TIMEOUT" \in Results /\ "CANCELLED" \in Results /\ (status \in Done => status \in Results)
  BY DEF Results
<1>2. \/ \E result \in Results : Answers(c, result)
      \/ wait[c].poll < wait[c].polls /\ wait' = [wait EXCEPT ![c].pc = "sleep"]
  BY <1>1 DEF AfterPoll
<1> QED BY <1>2, AnswersEffect, SleepsEffect

(***************************************************************************)
(* WaitInv is inductive.                                                   *)
(***************************************************************************)
LEMMA WaiterKeepsLoops ==
  ASSUME WaitInv, RequestInv', NEW c \in Waiters, Others(c), OtherLoops(c), InBudget(wait'[c]),
         wait'[c].pc = "poll" <=> call'[c].pc # "idle"
  PROVE  WaitInv'
<1>1. ASSUME NEW b \in Waiters PROVE InBudget(wait'[b]) /\ Engaged(b)'
  <2>1. b \in Callers
    BY WaiterObserves
  <2>2. CASE b = c
    BY <2>2 DEF Engaged, Within, At
  <2>3. CASE b # c
    <3>1. wait'[b] = wait[b] /\ call'[b] = call[b]
      BY <2>1, <2>3 DEF OtherLoops, Others
    <3>2. InBudget(wait[b]) /\ Engaged(b)
      BY DEF WaitInv
    <3> QED BY <3>1, <3>2 DEF Engaged, Within, At
  <2> QED BY <2>2, <2>3
<1> QED BY <1>1 DEF WaitInv, OtherLoops

\* A waiter's loop goes on, and none of its calls of GitHub or SQLite is left behind.
LEMMA WaiterStepKeepsWaitInv ==
  ASSUME WaitInv, RequestInv', NEW c \in Waiters, WaitCall(c) \/ WaitStep(c)
  PROVE  WaitInv'
<1>1. /\ TypeOK /\ wait \in [Waiters -> Loop] /\ InBudget(wait[c]) /\ Engaged(c)
      /\ c \in Observers /\ c \in Callers /\ RequestInv
  BY WaiterObserves DEF WaitInv, RequestInv
<1>2. CASE WaitCall(c) \/ SleepEnds(c)
  <2>1. StatusCall(c)
    BY <1>2, Zenon DEF WaitCall, SleepEnds
  <2>2. Others(c) /\ call'[c].pc = "reviewers"
    BY <1>1, <2>1, StatusStepMoves DEF StatusStep
  <2>3. OtherLoops(c) /\ wait'[c].pc = "poll" /\ InBudget(wait'[c])
    BY <1>1, <1>2, WaitCallEffect, SleepEndsEffect
  <2> QED BY <2>2, <2>3, WaiterKeepsLoops
<1>3. CASE WaitReads(c)
  <2>1. ReadStep(c) /\ UNCHANGED wait
    BY <1>3 DEF WaitReads, ReadStep
  <2>2. Others(c) /\ call'[c].pc # "idle" /\ ~At(c, "idle")
    BY <1>1, <2>1, ReadStepMoves
  <2>3. OtherLoops(c) /\ wait'[c].pc = "poll" /\ InBudget(wait'[c])
    BY <1>1, <2>1, <2>2 DEF OtherLoops, Engaged, Within
  <2> QED BY <2>2, <2>3, WaiterKeepsLoops
<1>4. ASSUME Fails(c), NEW result \in Results, Answers(c, result)
      PROVE  WaitInv'
  <2>1. Others(c) /\ call'[c].pc = "idle"
    BY <1>1, <1>4, ReadStepMoves
  <2> QED BY <1>1, <1>4, <2>1, AnswersEffect, WaiterKeepsLoops
<1>5. ASSUME Within(c, "sleep"), UNCHANGED vars, NEW result \in Results, Answers(c, result)
      PROVE  WaitInv'
  <2>1. Others(c) /\ call'[c].pc = "idle"
    BY <1>1, <1>5 DEF Others, Call, TypeOK, vars, Engaged, Within, At
  <2> QED BY <1>1, <1>5, <2>1, AnswersEffect, WaiterKeepsLoops
<1>6. {"RATE_LIMITED", "CANCELLED", "ERROR"} \subseteq Results
  BY DEF Results
<1>7. CASE WaitRateLow(c)
  <2>1. Fails(c) /\ Answers(c, "RATE_LIMITED")
    BY <1>7, Zenon DEF WaitRateLow
  <2> QED BY <1>4, <1>6, <2>1
<1>8. CASE WaitCancelled(c)
  <2>1. Answers(c, "CANCELLED") /\ (Fails(c) \/ (Within(c, "sleep") /\ UNCHANGED vars))
    BY <1>8 DEF WaitCancelled
  <2> QED BY <1>4, <1>5, <1>6, <2>1
<1>9. CASE WaitFails(c)
  <2>1. Answers(c, "ERROR") /\ (Fails(c) \/ (Within(c, "sleep") /\ UNCHANGED vars))
    BY <1>9 DEF WaitFails
  <2> QED BY <1>4, <1>5, <1>6, <2>1
<1>10. ASSUME Others(c), call'[c].pc = "idle", ~At(c, "idle"), NEW status, AfterPoll(c, status)
       PROVE  WaitInv'
  <2>1. OtherLoops(c) /\ wait'[c].pc # "poll" /\ InBudget(wait'[c])
    BY <1>1, <1>10, AfterPollEffect DEF Engaged
  <2> QED BY <1>10, <2>1, WaiterKeepsLoops
<1>11. CASE WaitDerive(c)
  <2>1. Derive(c) /\ ~At(c, "idle")
    BY <1>11 DEF WaitDerive, Derive, At
  <2>2. Others(c) /\ call'[c].pc \in {"idle", "settle"}
    BY <1>1, <2>1, DeriveEffect
  <2>3. CASE call'[c].pc = "settle"
    <3>1. UNCHANGED wait
      BY <1>11, <2>3 DEF WaitDerive
    <3>2. OtherLoops(c) /\ wait'[c].pc = "poll" /\ InBudget(wait'[c])
      BY <1>1, <2>1, <3>1 DEF OtherLoops, Engaged, Within
    <3> QED BY <2>2, <2>3, <3>2, WaiterKeepsLoops
  <2>4. CASE call'[c].pc = "idle"
    <3>1. AfterPoll(c, StatusOf(call[c].data, GetLatest))
      BY <1>11, <2>4 DEF WaitDerive
    <3> QED BY <1>10, <2>1, <2>2, <2>4, <3>1
  <2> QED BY <2>2, <2>3, <2>4
<1>12. CASE WaitSettle(c)
  <2>1. Settle(c) /\ AfterPoll(c, StatusOf(call[c].data, call[c].entry))
    BY <1>12, Zenon DEF WaitSettle
  <2>2. Others(c) /\ call'[c].pc = "idle"
    BY <1>1, <2>1, StatusStepMoves DEF StatusStep
  <2>3. ~At(c, "idle")
    BY <2>1 DEF Settle, At
  <2> QED BY <1>10, <2>1, <2>2, <2>3
<1> QED BY <1>2, <1>3, <1>7, <1>8, <1>9, <1>11, <1>12 DEF WaitStep

\* A step of a caller that does not wait leaves the waiters alone.
LEMMA OthersKeepWaitInv ==
  ASSUME WaitInv, RequestInv', UNCHANGED wait,
         \A b \in Waiters : call'[b] = call[b]
  PROVE  WaitInv'
<1>1. ASSUME NEW b \in Waiters PROVE InBudget(wait'[b]) /\ Engaged(b)'
  BY DEF WaitInv, Engaged, Within, At
<1> QED BY <1>1 DEF WaitInv

LEMMA AskersKeepWaitInv ==
  ASSUME WaitInv, RequestInv', UNCHANGED wait, NEW c \in Callers \ Waiters, Others(c)
  PROVE  WaitInv'
BY WaiterObserves, OthersKeepWaitInv DEF Others

LEMMA WaitInvIsInductive ==
  ASSUME WaitInv, [WaitNext]_waitVars
  PROVE  WaitInv'
<1>1. RequestInv /\ TypeOK
  BY DEF WaitInv, RequestInv
<1>2. RequestInv'
  BY <1>1, WaitNextIsNext, RequestInvIsInductive
<1>3. CASE UNCHANGED waitVars
  BY <1>2, <1>3, OthersKeepWaitInv DEF waitVars
<1>4. ASSUME NEW c \in Waiters, WaitCall(c) \/ WaitStep(c)
      PROVE  WaitInv'
  BY <1>2, <1>4, WaiterStepKeepsWaitInv
<1>5. /\ Requesters \subseteq Callers \ Waiters
      /\ Asking \subseteq Callers \ Waiters /\ Asking \subseteq Observers
  BY WaitParameters, Parameters DEF Callers, Asking
<1>6. ASSUME UNCHANGED wait,
             \/ \E c \in Requesters : RequestStep(c)
             \/ \E c \in Asking : StatusStep(c)
             \/ \E c \in Requesters \union Asking : ReadStep(c) \/ Fails(c)
      PROVE  WaitInv'
  <2>1. \E c \in Callers \ Waiters : Others(c)
    BY <1>1, <1>5, <1>6, RequestStepMoves, StatusStepMoves, ReadStepMoves
  <2> QED BY <1>2, <1>6, <2>1, AskersKeepWaitInv
<1>7. ASSUME UNCHANGED wait, (\E i \in DOMAIN log : CancelWatch(i)) \/ GitHub
      PROVE  WaitInv'
  <2>1. UNCHANGED call
    BY <1>7, Zenon DEF CancelWatch, GitHub, Tick, AutomaticRequest, StartWork, Withdraw, SubmitReview
  <2> QED BY <1>2, <1>7, <2>1, OthersKeepWaitInv
<1> QED BY <1>3, <1>4, <1>6, <1>7 DEF WaitNext

LEMMA InitWaitInv == WaitInit => WaitInv
<1> SUFFICES ASSUME WaitInit PROVE WaitInv
  OBVIOUS
<1>1. RequestInv
  BY InitRequestInv DEF WaitInit
<1>2. ASSUME NEW c \in Waiters
      PROVE  wait[c] \in Loop /\ InBudget(wait[c]) /\ Engaged(c)
  <2>1. wait[c] = Out(Nil) /\ call[c] = Idle
    BY WaiterObserves DEF WaitInit, Init
  <2> QED BY <2>1, OutType, IdleType DEF Engaged, Within, At
<1> QED BY <1>1, <1>2 DEF WaitInv, WaitInit

\* The loop of a waiting call is well formed whatever its arguments and however
\* its polls, sleeps and failures come: in all it sleeps no longer than the ceiling
\* its arguments were admitted under.
THEOREM WaitTypeCorrect == WaitSpec => []WaitTypeOK
<1>1. WaitInv => WaitTypeOK
  BY DEF WaitInv, RequestInv, WaitTypeOK, Loop
<1> QED BY <1>1, InitWaitInv, WaitInvIsInductive, PTL DEF WaitSpec

(***************************************************************************)
(* A call that says DONE frees the request.                                *)
(***************************************************************************)
\* GetLatest returns the latest row, of the latest the last.
LatestIsBest ==
  /\ log = <<>> => GetLatest = 0
  /\ log # <<>> => /\ GetLatest \in DOMAIN log
                   /\ \A j \in DOMAIN log \ {GetLatest} :
                        \/ log[j].at < log[GetLatest].at
                        \/ log[j].at = log[GetLatest].at /\ j < GetLatest

LEMMA LatestIsBestNext == (TypeOK => LatestIsBest)'
<1>1. TypeOK => LatestIsBest
  BY GetLatestFinds DEF LatestIsBest
<1> QED BY <1>1, PTL

\* It is the same row while no row is recorded and no row dated anew.
DatesStay == /\ Len(log') = Len(log) /\ DOMAIN log' = DOMAIN log
             /\ \A j \in DOMAIN log : log'[j].at = log[j].at

LEMMA LatestStays ==
  ASSUME TypeOK, TypeOK', DatesStay
  PROVE  GetLatest' = GetLatest
<1>1. /\ log \in Seq(Row) /\ log' \in Seq(Row) /\ Len(log') = Len(log) /\ DOMAIN log' = DOMAIN log
      /\ \A j \in DOMAIN log : log'[j].at = log[j].at
  BY DEF TypeOK, DatesStay
<1>2. log' = <<>> <=> log = <<>>
  BY <1>1
<1>3. LatestIsBest /\ LatestIsBest'
  BY GetLatestFinds, LatestIsBestNext DEF LatestIsBest
<1>4. CASE log = <<>>
  BY <1>2, <1>3, <1>4 DEF LatestIsBest
<1>5. CASE log # <<>>
  <2> DEFINE i == GetLatest
             k == GetLatest'
  <2>1. i \in DOMAIN log /\ \A j \in DOMAIN log \ {i} :
          log[j].at < log[i].at \/ (log[j].at = log[i].at /\ j < i)
    BY <1>3, <1>5 DEF LatestIsBest
  <2>2. k \in DOMAIN log /\ \A j \in DOMAIN log \ {k} :
          log[j].at < log[k].at \/ (log[j].at = log[k].at /\ j < k)
    <3>1. k \in DOMAIN log' /\ \A j \in DOMAIN log' \ {k} :
            log'[j].at < log'[k].at \/ (log'[j].at = log'[k].at /\ j < k)
      BY <1>2, <1>3, <1>5 DEF LatestIsBest
    <3> HIDE DEF k
    <3> QED BY <1>1, <3>1
  <2>3. i \in Int /\ k \in Int /\ log[i].at \in Int /\ log[k].at \in Int
    BY <2>1, <2>2, RowType
  <2> HIDE DEF i, k
  <2>4. i = k
    BY <2>1, <2>2, <2>3
  <2> QED BY <2>4 DEF i, k
<1> QED BY <1>4, <1>5

\* What a step makes of the rows: nothing, a row completed, a row recorded.
LEMMA RowSteps ==
  ASSUME RequestInv, [Next]_vars
  PROVE  \/ UNCHANGED log
         \/ DatesStay /\ UNCHANGED pr /\ \A j \in DOMAIN log : ~log'[j].done => log'[j] = log[j]
         \/ /\ Len(log') = Len(log) + 1
            /\ \E c \in Requesters : RecordTrigger(c)
<1>1. TypeOK /\ MarksInBounds /\ Requesters \subseteq Callers /\ Observers \subseteq Callers
  BY DEF RequestInv, Callers
<1>2. ASSUME NEW i \in DOMAIN log, UpdateCompletedAt(i)
      PROVE  DatesStay /\ \A j \in DOMAIN log : ~log'[j].done => log'[j] = log[j]
  BY <1>1, <1>2, CompletedEffect DEF DatesStay
<1>3. CASE UNCHANGED vars
  BY <1>3 DEF vars
<1>4. ASSUME NEW c \in Requesters, RequestStep(c)
      PROVE  \/ UNCHANGED log
             \/ Len(log') = Len(log) + 1 /\ RecordTrigger(c)
  <2>1. CASE RecordTrigger(c)
    BY <1>1, <2>1, InsertEffect
  <2>2. CASE RequestCall(c) \/ Refuse(c) \/ RequestCopilotReview(c) \/ ReadLatest(c)
    BY <2>2, Zenon DEF RequestCall, Refuse, RequestCopilotReview, ReadLatest
  <2> QED BY <1>4, <2>1, <2>2 DEF RequestStep
<1>5. ASSUME NEW c \in Observers, StatusStep(c)
      PROVE  \/ UNCHANGED log
             \/ UNCHANGED pr /\ \E i \in DOMAIN log : UpdateCompletedAt(i)
  <2>1. CASE Settle(c)
    <3>1. call[c].entry \in DOMAIN log
      BY <1>1, <2>1 DEF Settle, MarksInBounds
    <3> QED BY <2>1, <3>1 DEF Settle
  <2>2. CASE StatusCall(c) \/ Derive(c)
    BY <2>2, Zenon DEF StatusCall, Derive
  <2> QED BY <1>5, <2>1, <2>2 DEF StatusStep
<1>6. ASSUME NEW c \in Callers, ReadStep(c) \/ Fails(c)
      PROVE  UNCHANGED log
  BY <1>1, <1>6, ReadStepMoves
<1>7. ASSUME NEW i \in DOMAIN log, CancelWatch(i)
      PROVE  UNCHANGED pr /\ UpdateCompletedAt(i)
  BY <1>7 DEF CancelWatch
<1>8. GitHub => UNCHANGED log
  BY Zenon DEF GitHub, Tick, AutomaticRequest, StartWork, Withdraw, SubmitReview
<1> QED BY <1>2, <1>3, <1>4, <1>5, <1>6, <1>7, <1>8 DEF Next

\* A status call about to complete a row completes the one GetLatest returns,
\* unless a row was recorded since it began.
SettlesLatest(c) ==
  At(c, "settle") /\ Len(log) = call[c].mark => call[c].entry = GetLatest

LEMMA SettlesLatestIsInductive ==
  ASSUME RequestInv, RequestInv', [Next]_vars, NEW c \in Observers, SettlesLatest(c)
  PROVE  SettlesLatest(c)'
<1>1. TypeOK /\ TypeOK' /\ c \in Callers /\ Len(log) \in Nat /\ call[c].mark \in Nat
      /\ call[c].mark <= Len(log)
  BY CallersAreApart, CallType DEF RequestInv, TypeOK, MarksInBounds
<1>2. CASE call'[c] = call[c]
  <2>1. CASE UNCHANGED log
    BY <1>2, <2>1 DEF SettlesLatest, At, GetLatest
  <2>2. CASE DatesStay
    <3>1. GetLatest' = GetLatest /\ Len(log') = Len(log)
      BY <1>1, <2>2, LatestStays DEF DatesStay
    <3> QED BY <1>2, <3>1 DEF SettlesLatest, At
  <2>3. CASE Len(log') = Len(log) + 1
    BY <1>1, <1>2, <2>3 DEF SettlesLatest, At
  <2> QED BY <2>1, <2>2, <2>3, RowSteps
<1>3. CASE Derive(c)
  <2>1. UNCHANGED log
    BY <1>3 DEF Derive
  <2>2. call'[c].pc = "settle" => call'[c].entry = GetLatest
    BY <1>1, <1>3, DeriveEffect
  <2>3. GetLatest' = GetLatest
    BY <2>1 DEF GetLatest
  <2> QED BY <2>2, <2>3 DEF SettlesLatest, At
<1>4. CASE StatusCall(c) \/ Settle(c) \/ ReadStep(c) \/ Fails(c)
  <2>1. call'[c].pc # "settle"
    BY <1>1, <1>4, StatusStepMoves, ReadStepMoves DEF StatusStep
  <2> QED BY <2>1 DEF SettlesLatest, At
<1>5. c \notin Requesters
  BY CallersAreApart
<1> QED BY <1>1, <1>2, <1>3, <1>4, <1>5, CallerSteps DEF StatusStep

DoneInv == WaitInv /\ DuplicatesAreRaces /\ \A c \in Observers : SettlesLatest(c)

LEMMA DoneInvIsInductive ==
  ASSUME DoneInv, [WaitNext]_waitVars
  PROVE  DoneInv'
<1>1. WaitInv /\ RequestInv /\ DuplicatesAreRaces /\ [Next]_vars
  BY WaitNextIsNext DEF DoneInv, WaitInv
<1>2. RequestInv' /\ DuplicatesAreRaces' /\ WaitInv'
  BY <1>1, RequestInvIsInductive, RacesIsInductive, WaitInvIsInductive
<1> QED BY <1>1, <1>2, SettlesLatestIsInductive DEF DoneInv

LEMMA InitDoneInv == WaitInit => DoneInv
<1> SUFFICES ASSUME WaitInit PROVE DoneInv
  OBVIOUS
<1>1. WaitInv /\ DuplicatesAreRaces
  BY InitWaitInv, InitRaces DEF WaitInit
<1>2. \A c \in Observers : ~At(c, "settle")
  BY CallersAreApart, IdleType DEF WaitInit, Init, At
<1> QED BY <1>1, <1>2 DEF DoneInv, SettlesLatest

\* How a call ends: its last poll derived a status, with or without a row to
\* complete, or it answers that it could not.
LEMMA EndsByPoll ==
  ASSUME WaitInv, WaitNext, NEW c \in Waiters, wait[c].pc # "out", wait'[c].pc = "out"
  PROVE  \/ /\ Derive(c) /\ call'[c].pc # "settle"
            /\ AfterPoll(c, StatusOf(call[c].data, GetLatest))
         \/ Settle(c) /\ AfterPoll(c, StatusOf(call[c].data, call[c].entry))
         \/ wait'[c].result \in {"RATE_LIMITED", "CANCELLED", "ERROR"}
<1>1. /\ TypeOK /\ wait \in [Waiters -> Loop] /\ \A b \in Waiters : InBudget(wait[b]) /\ Engaged(b)
      /\ ~UNCHANGED wait
  BY DEF WaitInv, RequestInv
<1>2. PICK b \in Waiters : WaitCall(b) \/ WaitStep(b)
  BY <1>1, Zenon DEF WaitNext
<1>3. ASSUME OtherLoops(b) PROVE b = c
  BY <1>3 DEF OtherLoops
<1>4. {"RATE_LIMITED", "CANCELLED", "ERROR"} \subseteq Results
  BY DEF Results
<1>5. ASSUME NEW result \in {"RATE_LIMITED", "CANCELLED", "ERROR"}, Answers(b, result)
      PROVE  wait'[c].result \in {"RATE_LIMITED", "CANCELLED", "ERROR"}
  BY <1>1, <1>3, <1>4, <1>5, AnswersEffect
<1>6. WaitCall(b) \/ SleepEnds(b) => OtherLoops(b) /\ wait'[b].pc = "poll"
  BY <1>1, WaitCallEffect, SleepEndsEffect
<1>7. ~(WaitCall(b) \/ SleepEnds(b)) /\ ~WaitReads(b)
  BY <1>1, <1>3, <1>6, Zenon DEF WaitReads
<1>8. CASE WaitRateLow(b) \/ WaitCancelled(b) \/ WaitFails(b)
  <2>1. Answers(b, "RATE_LIMITED") \/ Answers(b, "CANCELLED") \/ Answers(b, "ERROR")
    BY <1>8, Zenon DEF WaitRateLow, WaitCancelled, WaitFails
  <2> QED BY <1>5, <2>1
<1>9. ASSUME NEW status, AfterPoll(b, status), ~At(b, "idle")
      PROVE  b = c
  <2>1. OtherLoops(b)
    BY <1>1, <1>9, AfterPollEffect DEF Engaged
  <2> QED BY <1>3, <2>1
<1>10. CASE WaitDerive(b)
  <2>1. Derive(b) /\ ~At(b, "idle")
    BY <1>10 DEF WaitDerive, Derive, At
  <2>2. call'[b].pc # "settle" /\ AfterPoll(b, StatusOf(call[b].data, GetLatest))
    BY <1>1, <1>10, Zenon DEF WaitDerive
  <2>3. b = c
    BY <1>9, <2>1, <2>2
  <2> QED BY <2>1, <2>2, <2>3
<1>11. CASE WaitSettle(b)
  <2>1. Settle(b) /\ AfterPoll(b, StatusOf(call[b].data, call[b].entry))
    BY <1>11, Zenon DEF WaitSettle
  <2>2. ~At(b, "idle")
    BY <2>1 DEF Settle, At
  <2>3. b = c
    BY <1>9, <2>1, <2>2
  <2> QED BY <2>1, <2>3
<1> QED BY <1>2, <1>7, <1>8, <1>10, <1>11 DEF WaitStep

\* The answer of a call is the status its last poll derived, if that is one.
LEMMA AnswerIsStatus ==
  ASSUME wait \in [Waiters -> Loop], NEW c \in Waiters, InBudget(wait[c]), Within(c, "poll"),
         NEW status, AfterPoll(c, status), wait'[c].pc = "out"
  PROVE  /\ status \in Done <=> wait'[c].result \in Done
         /\ status \notin Done => wait'[c].result \in {"TIMEOUT", "CANCELLED"}
<1>1. "TIMEOUT" \in Results /\ "CANCELLED" \in Results /\ (status \in Done => status \in Results)
  BY DEF Results
<1>2. CASE status \in Done
  <2>1. Answers(c, status)
    BY <1>2 DEF AfterPoll
  <2>2. wait'[c].result = status
    BY <1>1, <1>2, <2>1, AnswersEffect
  <2> QED BY <1>2, <2>2
<1>3. CASE status \notin Done
  <2>1. ~(wait[c].poll < wait[c].polls /\ wait' = [wait EXCEPT ![c].pc = "sleep"])
    BY SleepsEffect
  <2>2. Answers(c, "TIMEOUT") \/ Answers(c, "CANCELLED")
    BY <1>3, <2>1 DEF AfterPoll
  <2>3. wait'[c].result \in {"TIMEOUT", "CANCELLED"}
    BY <1>1, <2>2, AnswersEffect
  <2> QED BY <1>3, <2>3 DEF Done
<1> QED BY <1>2, <1>3

FreesRequest(c) ==
  Ends(c, Done) /\ Len(log) = call[c].mark /\ GetLatest \in {0, Len(log)}
    => \A i \in DOMAIN log :
         ~log'[i].done => i < Len(log) /\ Len(log) - i < Cardinality(Requesters)

LEMMA DoneFrees ==
  ASSUME DoneInv, WaitNext, NEW c \in Waiters
  PROVE  FreesRequest(c)
<1> SUFFICES ASSUME Ends(c, Done), Len(log) = call[c].mark, GetLatest \in {0, Len(log)},
                    NEW i \in DOMAIN log, ~log'[i].done
             PROVE  i < Len(log) /\ Len(log) - i < Cardinality(Requesters)
  BY DEF FreesRequest
<1>1. /\ WaitInv /\ RequestInv /\ TypeOK /\ DuplicatesAreRaces /\ SettlesLatest(c) /\ MarksInBounds
      /\ wait \in [Waiters -> Loop] /\ InBudget(wait[c]) /\ Engaged(c) /\ c \in Observers
      /\ c \in Callers
  BY WaiterObserves DEF DoneInv, WaitInv, RequestInv
<1>2. /\ wait[c].pc # "out" /\ wait'[c].pc = "out" /\ wait'[c].result \in Done
  BY DEF Ends
<1>3. wait'[c].result \notin {"RATE_LIMITED", "CANCELLED", "ERROR"}
  BY <1>2 DEF Done
<1>4. /\ GetLatest \in DOMAIN log /\ GetLatest = Len(log) /\ Len(log) \in Nat
      /\ i \in 1..Len(log) /\ DOMAIN log = 1..Len(log)
  <2>1. log # <<>>
    BY <1>1 DEF TypeOK
  <2>2. GetLatest \in DOMAIN log
    BY <1>1, <2>1, GetLatestFinds
  <2> QED BY <1>1, <2>2, RowType DEF TypeOK
<1>5. SUFFICES i # Len(log) /\ ~log[i].done
  <2>1. Len(log) - i + Cardinality(Busy) < Cardinality(Requesters)
    BY <1>1, <1>5 DEF DuplicatesAreRaces, Busy
  <2> HIDE DEF Busy
  <2>2. Cardinality(Busy) \in Nat /\ Cardinality(Requesters) \in Nat
    BY BusyIsCounted
  <2> QED BY <1>4, <1>5, <2>1, <2>2
<1>6. CASE Derive(c) /\ call'[c].pc # "settle" /\ AfterPoll(c, StatusOf(call[c].data, GetLatest))
  <2>1. Within(c, "poll") /\ UNCHANGED log
    BY <1>1, <1>6 DEF Engaged, Derive, At
  <2>2. StatusOf(call[c].data, GetLatest) \in Done
    BY <1>1, <1>2, <1>6, <2>1, AnswerIsStatus
  <2>3. ~Owes(c)
    BY <1>1, <1>6, DeriveEffect
  <2>4. log[Len(log)].done
    BY <1>4, <2>2, <2>3 DEF Owes
  <2> QED BY <2>1, <2>4
<1>7. CASE Settle(c)
  <2>1. At(c, "settle") /\ call[c].entry \in DOMAIN log /\ call[c].entry = GetLatest
    BY <1>1, <1>7 DEF Settle, MarksInBounds, SettlesLatest
  <2>2. /\ log'[Len(log)].done /\ \A j \in DOMAIN log \ {Len(log)} : log'[j] = log[j]
    BY <1>1, <1>4, <1>7, <2>1, CompletedEffect DEF Settle
  <2> QED BY <1>4, <2>2
<1> QED BY <1>1, <1>2, <1>3, <1>6, <1>7, EndsByPoll

\* A caller told that the review is over can request the next one, whatever status
\* calls, cancelled watches and failures came between its reads and its answer:
\* the newest row is completed, and what is pending before it are the duplicates
\* of requests made at the same time, fewer than there are callers.
THEOREM DoneMeansFree == WaitSpec => DoneFreesRequest
<1> DEFINE A == \A c \in Waiters : FreesRequest(c)
<1>1. DoneInv /\ [WaitNext]_waitVars => DoneInv'
  BY DoneInvIsInductive
<1>2. DoneInv /\ [WaitNext]_waitVars => [A]_waitVars
  BY DoneFrees
<1>3. [A]_waitVars => [\A c \in Waiters : Ends(c, Done) /\ Len(log) = call[c].mark
                         /\ GetLatest \in {0, Len(log)}
            => \A i \in DOMAIN log :
                 ~log'[i].done => i < Len(log) /\ Len(log) - i < Cardinality(Requesters)]_waitVars
  BY DEF FreesRequest
<1> HIDE DEF A
<1> QED BY <1>1, <1>2, <1>3, InitDoneInv, PTL DEF WaitSpec, DoneFreesRequest

(***************************************************************************)
(* TIMEOUT hides no answer.                                                *)
(***************************************************************************)
\* A poll that finds nothing derived a status that is no outcome.
LEMMA FindsByPoll ==
  ASSUME WaitInv, WaitNext, NEW c \in Waiters, FindsNothing(c)
  PROVE  StatusOf(call[c].data, GetLatest) \notin Done
<1>1. /\ TypeOK /\ wait \in [Waiters -> Loop] /\ \A b \in Waiters : InBudget(wait[b]) /\ Engaged(b)
      /\ c \in Callers /\ call[c].pc = "decide"
  BY WaiterObserves DEF WaitInv, RequestInv, FindsNothing, At
<1>2. /\ Within(c, "poll") /\ wait[c].pc = "poll" /\ ~At(c, "idle")
      /\ \/ wait'[c].pc = "sleep"
         \/ wait'[c].pc = "out" /\ wait'[c].result \in {"TIMEOUT", "CANCELLED"}
  BY <1>1 DEF Engaged, FindsNothing, Ends, At, Within
<1>3. PICK b \in Waiters : WaitCall(b) \/ WaitStep(b)
  BY <1>2, Zenon DEF WaitNext
<1>4. ASSUME OtherLoops(b) PROVE b = c
  BY <1>2, <1>4 DEF OtherLoops
<1>5. ASSUME NEW result \in Results, Answers(b, result)
      PROVE  b = c /\ wait'[c].pc = "out" /\ wait'[c].result = result
  BY <1>1, <1>4, <1>5, AnswersEffect
<1>6. {"RATE_LIMITED", "CANCELLED", "ERROR"} \subseteq Results
  BY DEF Results
<1>7. ~WaitCall(b) /\ ~SleepEnds(b)
  <2>1. WaitCall(b) \/ SleepEnds(b) => OtherLoops(b) /\ wait'[b].pc = "poll"
    BY <1>1, WaitCallEffect, SleepEndsEffect
  <2> QED BY <1>2, <1>4, <2>1
<1>8. ~WaitReads(b)
  BY <1>2, Zenon DEF WaitReads
<1>9. ~WaitRateLow(b) /\ ~WaitFails(b)
  <2>1. (WaitRateLow(b) => Answers(b, "RATE_LIMITED")) /\ (WaitFails(b) => Answers(b, "ERROR"))
    BY Zenon DEF WaitRateLow, WaitFails
  <2> QED BY <1>2, <1>5, <1>6, <2>1
<1>10. ~WaitCancelled(b)
  <2> SUFFICES ASSUME WaitCancelled(b) PROVE FALSE
    OBVIOUS
  <2>1. Answers(b, "CANCELLED")
    BY Zenon DEF WaitCancelled
  <2>2. b = c
    BY <1>5, <1>6, <2>1
  <2> QED BY <1>1, <1>2, <2>2 DEF WaitCancelled, Within, At
<1>11. ASSUME NEW status, AfterPoll(b, status), ~At(b, "idle")
       PROVE  b = c
  <2>1. OtherLoops(b)
    BY <1>1, <1>11, AfterPollEffect DEF Engaged
  <2> QED BY <1>4, <2>1
<1>12. ~WaitSettle(b)
  <2> SUFFICES ASSUME WaitSettle(b) PROVE FALSE
    OBVIOUS
  <2>1. Settle(b) /\ AfterPoll(b, StatusOf(call[b].data, call[b].entry))
    BY Zenon DEF WaitSettle
  <2>2. At(b, "settle") /\ ~At(b, "idle")
    BY <2>1 DEF Settle, At
  <2>3. b = c
    BY <1>11, <2>1, <2>2
  <2> QED BY <1>1, <2>2, <2>3 DEF At
<1>13. WaitDerive(b)
  BY <1>3, <1>7, <1>8, <1>9, <1>10, <1>12 DEF WaitStep
<1>14. AfterPoll(b, StatusOf(call[b].data, GetLatest)) /\ ~At(b, "idle")
  <2>1. ~UNCHANGED wait
    BY <1>2
  <2> QED BY <1>13, <2>1 DEF WaitDerive, Derive, At
<1>15. b = c /\ AfterPoll(c, StatusOf(call[c].data, GetLatest))
  BY <1>11, <1>14
<1>16. ASSUME StatusOf(call[c].data, GetLatest) \in Done
       PROVE  FALSE
  <2>1. Answers(b, StatusOf(call[c].data, GetLatest))
    BY <1>15, <1>16 DEF AfterPoll
  <2>2. StatusOf(call[c].data, GetLatest) \in Results
    BY <1>16 DEF Results
  <2>3. wait'[c].pc = "out" /\ wait'[c].result \in Done
    BY <1>5, <1>16, <2>1, <2>2
  <2> QED BY <1>2, <2>3 DEF Done
<1> QED BY <1>16

HidesNothing(c) ==
  FindsNothing(c) /\ GetLatest # 0
    => \A k \in DOMAIN pr.reviews : ~Recognisable(c, GetLatest, k)

LEMMA PollHidesNothing ==
  ASSUME WaitInv, OrderInv, WaitNext, NEW c \in Waiters
  PROVE  HidesNothing(c)
<1> SUFFICES ASSUME FindsNothing(c), GetLatest # 0, NEW k \in DOMAIN pr.reviews,
                    Recognisable(c, GetLatest, k)
             PROVE  FALSE
  BY DEF HidesNothing
<1>1. /\ TypeOK /\ RequestInv /\ WorldInOrder /\ Knows(c) /\ c \in Observers /\ At(c, "decide")
  BY WaiterObserves DEF OrderInv, RequestInv, FindsNothing
<1>2. GetLatest \in DOMAIN log
  BY <1>1, GetLatestFinds, RowType
<1>3. StatusOf(call[c].data, GetLatest) \in Done
  BY <1>1, <1>2, RecognisableIsDone
<1> QED BY <1>3, FindsByPoll

\* A waiting call never says TIMEOUT, nor goes to sleep, nor is cancelled after its
\* last poll, over an answer: whatever other requests, automatic requests, late
\* lists and clocks do, a review that GitHub listed when the poll began and that the
\* newest row recognises makes the poll an outcome.
THEOREM TimeoutIsHonest == WaitSpec => TimeoutHidesNoAnswer
<1> DEFINE A == \A c \in Waiters : HidesNothing(c)
<1>1. WaitInit => WaitInv /\ OrderInv
  BY InitWaitInv, InitOrderInv DEF WaitInit
<1>2. WaitInv /\ OrderInv /\ [WaitNext]_waitVars => (WaitInv /\ OrderInv)'
  BY WaitInvIsInductive, WaitNextIsNext, OrderInvIsInductive
<1>3. WaitInv /\ OrderInv /\ [WaitNext]_waitVars => [A]_waitVars
  BY PollHidesNothing
<1>4. [A]_waitVars => [\A c \in Waiters : FindsNothing(c) /\ GetLatest # 0
                         => \A k \in DOMAIN pr.reviews :
                              ~Recognisable(c, GetLatest, k)]_waitVars
  BY DEF HidesNothing
<1> HIDE DEF A
<1> QED BY <1>1, <1>2, <1>3, <1>4, PTL DEF WaitSpec, TimeoutHidesNoAnswer
=============================================================================
