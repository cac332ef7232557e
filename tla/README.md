# review-raven, in TLA+

review-raven is an MCP server for the reviewed side of a pull request: it asks
GitHub Copilot for a review, follows the review in the background, answers and
resolves review threads, and tells an agent what to do next. This directory
holds its formal model: TLA+ modules translated from the Go source, TLC
configurations that check them on small instances, and TLAPS proofs that hold
for every value of the constants. Paths below are relative to the repository;
file names without a directory are in `internal/watch`, `internal/store`,
`internal/github` or `internal/tools`. `PROJECT.json` maps every definition to
the lines it models, and lists runs, mutants, hazards, findings and theorems.

## The system

| Component | State it keeps | Operations | Interacts with |
|---|---|---|---|
| Watch manager (`manager.go`) | watches in memory, indexes by key (active, latest), a goroutine per watch | start, cancel, poll, close, read views | store, GitHub client, subscribers |
| Store (`db.go`) | SQLite: `trigger_log` (requests), `review_watch` (watches) | insert, complete, latest, pending; upsert, mark stale on open | everything |
| Review data and status (`client.go`) | none | `GetReviewData` (three calls), `DeriveStatus` | GitHub |
| `request_copilot_review` (`request.go`) | none | pending check, read, mutation, insert | store, GitHub |
| `get_copilot_review_status` (`status.go`) | none | read, derive, complete the request | store, GitHub |
| `wait_for_copilot_review` (`wait.go`) | none | the same in a loop | store, GitHub |
| `get_pr_review_cycle_status` (`cycle.go`) | none | four reads and a recommendation | store, GitHub |
| Thread tools (`threads.go`) | none (GitHub does) | reply, resolve, reply and resolve | GitHub |
| Watch tools and resources (`watch.go`) | none | views, next action | watch manager |
| Gateway tokens, error classes (`gateway_token_source.go`, `classify.go`, `autherr.go`) | token cache of the library | fetch a token, classify an error | watch manager, tools |
| Server, middleware, handshake, main | wiring | | |

What makes it hard:

* **Concurrency.** Tool handlers, one goroutine per watch and notification
  goroutines run at once. The manager's lock covers memory and the writes of
  `review_watch`, but not the GitHub call of a poll, nor any statement on
  `trigger_log`. Handlers other than those of the watches take no lock at all.
* **State in three places.** Memory, two SQLite tables and GitHub. A watch is in
  two of them, a request in the other two, and there is no transaction across.
* **Failure.** A refused statement degrades a watch to FAILED; a process that
  dies loses the watches; a GitHub call may fail after it took effect.
* **Time.** GitHub's seconds, the host's clock, a review list that lags.
  Whether a review answers a request is decided from these.

What has to be right, per component:

* watch manager: one live watch per login and pull request; none lost, revived
  or without a goroutine; credentials dropped at the end; every end announced;
  rows and memory agree, across refusals and restarts;
* requests: duplicated by races only; settled by an answer to it, never by the
  review before where the two can be told apart; an answered request does not
  stay pending;
* threads: a reply at most once per call, no resolve without the reply, results
  that are true of what the handler could know;
* cycle: no action is recommended on a review that is not the answer awaited;
* views: what a client was shown does not go back, a limit hides only what comes
  last, a cancel overlooks no live watch;
* waiting: the call returns, sleeps no longer than it may, hides no answer it
  could see, frees the request it says is done, and writes nothing that a status
  call would not;
* gateway: no token is used past its end or after it was replaced, an outage
  ends a watch after its budget and not before, watch and tools advise the same
  about an error, or differ in ways that are known.

## Modules

| Module | Models | Checked by |
|---|---|---|
| `WatchManager` | `manager.go` over `db.go` | `MCWatchManager` |
| `WatchManagerProofs` | theorems about `WatchManager` | TLAPS |
| `WatchRefinementProofs` | the theorem that `WatchManager` implements `WatchRegistry` | TLAPS |
| `WatchRegistry` | what a client may rely on; `WatchManager` implements it | `MCWatchManager`, `MCWatchViews` |
| `WatchViews` | the lookups of `manager.go`, the queries of `db.go`, the handlers of `watch.go`, over `WatchRegistry` (extended) | `MCWatchViews` |
| `WatchViewsProofs` | theorems about `WatchViews` | TLAPS |
| `GatewayToken` | `gateway_token_source.go`, `classify.go`, `autherr.go`, the client factory of `main.go`, the failure paths of a poll | `MCGatewayToken` |
| `GatewayTokenProofs` | theorems about `GatewayToken` | TLAPS |
| `ReviewStatus` | the pure part of `client.go`: newest review, `DeriveStatus` | through `ReviewRequest` |
| `ReviewRequest` | `request.go`, `status.go`, the `trigger_log` part of `db.go`, GitHub | `MCReviewRequest` |
| `ReviewRequestProofs` | theorems about `ReviewRequest`, and what `NewestReview` returns | TLAPS |
| `ReviewWait` | `wait.go`, over `ReviewRequest` (extended), which it implements | `MCReviewWait` |
| `ReviewWaitProofs` | theorems about `ReviewWait`, its refinement of `ReviewRequest` included | TLAPS |
| `ReviewThreads` | `threads.go` and its GitHub calls | `MCReviewThreads` |
| `ReviewThreadsProofs` | theorems about `ReviewThreads` | TLAPS |
| `ReviewCycle` | `cycle.go`, composed with `ReviewRequest` (extended) and `ReviewThreads` (an instance) | `MCReviewCycle` |
| `ReviewCycleProofs` | theorems about `ReviewCycle` | TLAPS |

The `MC...` modules only add symmetry, a constant, or statements the repository
makes and the code does not keep.
Definitions introduced as *faulty variants* are plausible bugs of the operator
next to them; no specification uses them. Each replaces that operator in one
mutant, and the named property then fails: that is how each property is known
to depend on the code.

### WatchManager

What runs under `Manager.mu` is one action; what runs outside is another. So a
`Start` is `StartRead` (the read of `trigger_log`, before the lock) followed by
`StartClosed`, `StartReuse` or `StartNew`; a cancel is `CancelByID` or
`CancelLatest` followed by `CancelComplete` (the statement after the unlock); a
poll is `PollExpired`, `PollNoClient` or `PollCall`, then the outcome of the
call (`PollCancelled`, `PollFailure`, `HandleUpstreamFailure`, `PollRead`,
`WorkerPanic`), then `PollComplete`, and back under the lock `ApplyLate`,
`ApplyRateLow`, `ApplyDone` or `ApplyProgress`. `PollRefused` and `PollBroken`
are a refused statement on `trigger_log`. `Close` is its locked part,
`CloseCancel` the rest. `Restart` is the death of the process at any point and
`Open` marking the rows stale. (`main.go` installs no signal handler, so this,
and not `Close`, is how the process normally ends.)

| Variable | Code |
|---|---|
| `watches` | `watchesByID`; a record per `watchState`. `trigger` is `triggerLogID`, `fails` is `upstreamFailureCount`, `cancelled` is `ctx.Err() != nil` |
| `active`, `latest` | `activeByKey`, `latestByKey` |
| `phase` | `closed`, and whether Close has cancelled the contexts yet |
| `rows`, `triggers` | the tables `review_watch` and `trigger_log` |
| `worker` | where the goroutine of a watch stands, with what `pollOnce` holds in local variables |
| `call` | what a handler holds outside the lock |
| `notes`, `seen` | notification goroutines under way; what a subscriber last read |
| `faults`, `crashes` | counters of the bounds |

`workerRunning` is always written together with `terminal` and left out. The
result of a poll, including a low rate limit, is any member of `Observable`:
what it really can be is the subject of `ReviewRequest`. The requests recorded
and settled by other handlers (`RequestReview`, `SettleLatest`) are single steps
here, and their own interleavings are in `ReviewRequest`. So are the dates of
requests: `GetLatest` orders by date first, and dates need not follow the order
of insertion, so that here it may return any row (`LatestTriggers`).

`ActiveRowIsLatest` ties rows to memory: an active row belongs to a watch of this
process, the one lookups of its key show, after refused writes and restarts too.
A start that left an old row active, or a restart that did not clear the flag,
would break it.

### WatchRegistry

The abstract specification of the watches: two copies of each, memory and row,
that differ in one case only. A watch is registered in both, ends in both, or
ends in memory alone because a write about it was refused; a process is replaced
by one that finds what the rows have WATCHING. There are no workers, polls,
tokens, requests or notifications. `WatchManager!Registry` maps `watches` and
`rows` to their key and status, and `ImplementsRegistry` says that every step of
`WatchManager` is one of these or leaves both copies as they are. Four paths of
the code end a watch (a poll, a cancel, `Close`, a refused write), each with its
own order of writes; that they come to the same is what the refinement shows.

### WatchViews

The watches of `WatchRegistry` with the stamps that order them, and lookups in
two steps: memory under the lock, rows after it. Between the two steps, and
between two lookups, watches start, end, fail to record their end and are
refreshed, and the process is replaced. `told` and `ended` are what a client
remembers; no action reads them.

| Operation | Code |
|---|---|
| `Ask` with op `id`, `latest`, `list`, `cancel` | `get_copilot_review_watch_status` by ID or by PR and the resource; `list_copilot_review_watches`; `cancel_copilot_review_watch` by PR |
| `ReadMemory`, `ReadRows`, `ReadRefused` | `GetByID`, `GetLatest`, `List`, the second half of `CancelLatest` |
| `CancelLive` | the first half of `CancelLatest`, which ends the live watch |
| `Refresh` | every write that leaves a watch live: progress, a failure below the threshold, a reuse |

Memory keeps its stamps exactly and a row in seconds, and a poll writes the time
it had before it took the lock: so the order of rows is not the order of events,
and `LatestNeverGoesBack` and `LimitHidesTheLast` have to be checked rather than
read off the queries.

### GatewayToken

One watch, the client each `Start` gives it, the token the client reuses, and a
gateway that rotates tokens, loses records and is cut off from the provider. A
poll is up to three calls to GitHub, each of which asks the token source first.
Time is the life left in a token, in ticks of the ten seconds before its expiry
at which `oauth2` asks again; a tick does not fall between the check of a token
and the arrival of the request. The gateway may hand out a token whose expiry is
past: neither the token source nor `oauth2` looks (`Whoami` answers `late`), and
the call made with it is rejected. A ghost field of the cache marks such a token,
and `NoExpiredTokenIsSent` excepts it and no other.

`ToolAdvice` is what a tool that met an error tells its caller, `WatchAdvice` what a
lookup of a watch recommends that ended, or went on, because of it. `SameAdvice`
compares the two for every error, and says for each error where they differ what
the watch advises instead. How a watch ends for any other reason is one
action, `EndsOtherwise`. The watch has one token at a time, which is all that
two watches of a login share.

### ReviewStatus and ReviewRequest

One pull request, its `trigger_log` rows in order of insertion, and GitHub: the
requested reviewer, the newest request and start of work of the timeline, and
the reviews. A handler is a program counter: every GitHub call and every
statement is a step, and `Fails` ends it after any of them (an error, a client
that gave up, the death of the process). Two clocks are one clock and a
constant `Skew`; `Lag` is the delay of the review list. `RateLow` and
`TimelineFails` are the short cuts of `GetReviewData`: a request goes on with
what it has, a status call returns an error. Four ghost fields, `base` and
`asked` of a row, `mark` and `seen` of a call, record how many reviews or rows
there were and when GitHub was asked; no action reads them.

Which review answers a request is the hard part, and the code cannot always
tell. `Blurred(i)` lists the cases in which the review before request `i` passes
for its answer: GitHub listed it late, or it came while the handler of the request
ran; or the row names no review (the fallback of `request.go:121`, and a first read
that a low rate limit cut short), and then only dates tell, of which one is the
host's. The properties say "answered, or blurred": outside these cases no
review before a request settles it, is reported for it, or is acted on.

* `SettledByAnswer`: a row is completed by an answer, or is blurred.
* `StatusFollowsRequest` is about what a handler derives from reads at three
  moments, while GitHub moves: an outcome is that of an answer
  (`OnlyAnswersCount`), an answer it could see is reported (`AnswerIsSeen`, where
  `Recognisable` says what it takes), an open request is PENDING or, if Copilot has
  begun, IN_PROGRESS (`OpenRequestIsSeen`).
* `DuplicatesAreRaces`: two callers may both find nothing pending and both record.
  Behind a pending row there is at most one row of each other caller, and none of
  a caller that began after it: with one requester, at most one request pends.

Timeline pages are read in one step: a failure in the middle of several pages,
which keeps the pages before, is not modelled.

### ReviewWait

The loop around a status call. `WaitCall` applies defaults and limits, a poll is
the reads, `Derive` and `Settle` of `ReviewRequest`, and `AfterPoll` is what the
loop makes of its status. A sleep may end at any time; `slept` counts its seconds
as the arguments say. `WaitRateLow` may follow any read, since the rest of the
limit comes with every answer. `WaitIsStatusCalls` is the specification of
`ReviewRequest` as a property: for the requests, a waiting call is nothing but
status calls. A caller told that the review is over may ask for the next one at
once: `DoneFreesRequest` says what can still be pending then. `TimeoutHidesNoAnswer`
looks at every poll that finds nothing, before a sleep, TIMEOUT or CANCELLED.

### ReviewThreads

GitHub keeps the threads; a handler keeps what it did so far (`work`), and
`answer` is what it returned. Each GitHub call may fail (`CallFails`), and each
call that writes may take effect and then fail for the caller (`ReplyLost`,
`ResolveLost`). The answer is a step of its own (`Return`), after the last call: a
user may reopen the thread in between, and a ghost field of `work` records it, so
that `ResolvedWhenAnswered` excuses an answer for that and for nothing earlier.

### ReviewCycle

The handler reads checks, threads and review data in this order and decides
last. Its review data goes through the same steps as that of a status call, in
the same variable `call`. Everything else moves between any two reads: requests,
reviews with the threads they open, an agent's replies, checks. The elapsed time
since the last comment is a Boolean that is chosen when the handler decides.

## Runs

Bounds are constants of the configurations and occur as guards in the modules.

| Run | Instance | Shows |
|---|---|---|
| `MCWatchFaults` | 1 key, 2 tokens, 2 watches, 2 callers, threshold 2, 1 refused statement | types, live rows, release, goroutines, subscribers, ends for good |
| `MCWatchRestart` | 2 logins on 1 PR, 2 watches, 1 request, 1 refused statement, 1 restart | implements the registry; exact index, rows mirror memory, active rows are the latest; cancels and ends settle the right request |
| `MCWatchLiveness` | 1 watch, 2 requests, 1 refusal, 1 restart, fairness | watches end, goroutines exit, ends are learnt |
| `MCViews` | 3 watches on 2 PRs of 1 login, 1 reader, 5 instants over 2 seconds of 4 ticks, lists of 1 and 2 | what is shown does not go back; limits and cancels overlook nothing |
| `MCGateway` | tokens of 2 ticks, threshold 3, 2 clients, fairness | tokens in time, the outage budget, the advice of watch and tools |
| `MCRequestRace` | 2 requesters, 1 observer, 3 seconds, 2 reviews, 2 rows, automatic requests | duplicates are races, settled by an answer, status follows the request |
| `MCRequestLiveness` | 1 requester, 1 waiter (1 or 3 polls of 900 s), 3 seconds, 2 reviews, 1 row, fairness | the waiting call returns, hides no answer, frees what is done, writes as status calls do; answered requests are settled |
| `MCThreads` | 2 threads, 2 agents, 4 comments | replied once, reply before resolve, truthful answers |
| `MCCycle` | 1 requester, 1 cycle caller, 1 agent, 2 seconds, 1 review, 1 row, 1 thread | types of the composition, no action before the answer |

Why these bounds are enough to be interesting. Two watches of one key give a
watch its successor, which is what deletion by key, late polls and the unique
index are about; a third would repeat the second. Two callers and two tokens
give a `Start` that replaces the credentials of a poll under way and a cancel
that overtakes a start. One refused statement reaches every degraded path, and
those paths end the watch. Two reviews and two requests give an old review, an
answer, and a request after it; two requesters race between check and row. In
three seconds, with two reviews at least a second after their requests, a row can
be dated before, with and after a review, and a review fall in the second of a
request. Two agents on the same
thread give a resolve between another's check and its mutation; a second thread
gives a handler whose result could be that of another. In `MCCycle` the one request comes
before the one review, or after it, where the old review must not be acted on;
`MCCycleReady` has two of each. Two logins on one pull request share a request and nothing
else. Three watches on two pull requests give a list that is cut, with a live
watch of one key behind two ended ones of the other or between them; the five
instants begin at the start of a second or at its end, so that events of one
second and of two are compared, in rows and in memory. Three polls of 900 seconds are the ceiling
exactly, and the assumption `LimitsAtTheirEdges` tries the other edges. Threshold 3
leaves room for a failure counted against new credentials and one more; a token
of two ticks can run out during a poll, between two, or not at all. The code's
own threshold is 5 by default (`manager.go:23`).

Deadlock is reported where the instance never goes quiet (`MCThreads`,
`MCGateway`). In
the other runs the bounds on watch IDs, rows and time are reached in the end,
and a state with nothing left to do is one of the instance, not of the code.

### Assumptions of the runs

* *Fairness of `WatchManager`.* Goroutines are scheduled, and a GitHub call
  returns, because `pollOnce` gives it a context with a timeout: weak fairness of
  the worker as a whole, of `Notify`, `CancelComplete` and `CloseCancel`. Strong
  fairness of `PollExpired` says that time passes: the worker comes back to its
  test of `maxWatchDuration` again and again, and in the end it is true. No
  caller has to call and GitHub has to do nothing.
* *Fairness of `ReviewWait`.* A call that began is carried on (weak fairness of
  its steps: GitHub answers or fails, timers fire). `AnsweredIsSettled` is also about a client that
  keeps asking (weak fairness of a call) and about GitHub and SQLite answering
  again and again when asked again and again (strong fairness of the reads and
  of the statement). Failures and cancellations may still happen at any step.
* *Fairness of `GatewayToken`.* The ticker fires and every call is answered or
  times out (weak fairness of the poll as a whole), and time passes between polls
  (strong fairness of `Tick` alone). Nobody has to sign in, rotate or restart.
* *One requester* in `MCRequestLiveness`, which two would make too large. The
  safety properties run with two in `MCRequestRace` and are proved for any number.
* *Lists without lag, one clock* (`Lag = 0`, `Skew = 0`) in the runs. The theorems
  hold for any lag, skew and duration of calls.

### Disagreements found

Each of these runs checks one statement of the repository and TLC refutes it.

| Run | Statement | What the code does |
|---|---|---|
| `MCWatchGhostRow` | without an active watch a new one is created (`docs/design/watch-redesign.md:152`) | the end of a watch whose write is refused leaves an active row, and the unique index refuses every later watch of the key until a restart |
| `MCRequestOrder` | a request is dated so that `GetLatest` returns the row recorded last (`request.go:103`) | a row dated one second after its review may lie ahead of the clock (`request.go:121`); the row recorded after it sorts before it, is never settled, and refuses later requests |
| `MCCycleReady` | READY_TO_MERGE has no unresolved thread (`cycle.go:363`) | the threads were read before the review that opened some |

Others were met while modelling and have no run of their own; TLC showed each on
an instance like those above.

* New credentials are to start a fresh failure budget (`manager.go:316`). A poll
  begun with the old ones still counts, so that with threshold 2 they fail after
  one failure of their own (`manager.go:865`).
* A notification is to follow every transition (`manager.go:95`). `Close` sends
  none (`manager.go:251`).
* No request is to be pending after a cancel (`manager_test.go:1633`). Only the
  linked one is completed; another one, recorded since, stays (`manager.go:586`).
* Another review ID is to mean a new review (`db.go:245`). With `Lag = 1` an older
  review that is listed after the request has another ID too (`client.go:356`):
  the code settles the request with it (the first case of `Blurred`).
* A request dated now, because an older row is as recent, names no review
  (`request.go:121`). If the last review fell in its second, or the host's clock is
  behind, that review is taken for its answer: the request is settled at once, and
  the cycle handler acts on the review (the last case of `Blurred`).
* The record of a request is to prevent duplicates (`request.go:90`). Two
  concurrent calls both pass the check and both record (`request.go:52`), and a
  status call settles only the row `GetLatest` returns; the other stays pending
  until a watch linked to it is cancelled. `DuplicatesAreRaces` bounds how many
  there can be; no run of its own repeats that there are any.
* A review is to be requested again once the last is done (`cycle.go:314`). The
  row of the last request is still pending then, unless a status, wait or watch
  call has seen the review, and the request is refused (`request.go:56`).
* Reply and resolve is to be idempotent
  (`docs/bug-reports/stale-guard-anomalies.md:254`). Repeated, it posts the reply
  again (`threads.go:275`).

* A row marked active is to be a watch that lives. Where the end of a watch was
  not recorded, a list of live watches shows it WATCHING, from the row, while a
  lookup by ID and the full list show it FAILED, from memory (`manager.go:465`).
* `cancel_copilot_review_watch` is to answer that the worker has stopped when it
  ended nothing (`watch.go:334`). It may then show a watch that started after
  `CancelLatest` let go of the lock, and lives.
* A missing expiry is called transient, "retry may succeed" (`classify.go:94`),
  as is a 5xx of GitHub; the watch ends GITHUB_ERROR at its first one
  (`manager.go:706`), and its advice is to look into the failure.
* An outage is transient for the tools; the watch asks the user to sign in once
  it used up its budget (`manager.go:866`).
* When the gateway rejects the process itself, the tools ask the user to sign in
  (`autherr.go:52`); the watch ends GITHUB_ERROR.
* A secondary rate limit is not to be retried, say the tools; the watch ends
  RATE_LIMITED and recommends a new one (`watch.go:395`).
* A token whose expiry is past is accepted from the gateway
  (`gateway_token_source.go:331`), sent once, and ends the watch AUTH_EXPIRED.
* A watch is to pick up rotated tokens transparently (`client.go:147`). It asks
  the gateway again only when its token runs out; if the provider revokes the
  old token at rotation, GitHub answers 401 and the watch ends AUTH_EXPIRED while the
  gateway holds a good token.

Also: a whoami call that takes too long is reported as a GitHub poll that timed
out; a failure of the token source at the timeline is swallowed like any other
there, so that an outage then counts as a success; the
ceiling of a waiting call bounds its sleeps only; the second termination condition of the cycle handler (`cycle.go:296`)
never changes its answer, because a thread that is unresolved is handled before
it and without one the first condition is the weaker; `all_replied` is always
true where REQUEST_REREVIEW is decided, because only unresolved threads count; a
request withdrawn on GitHub stays pending in `trigger_log`; an old manual request
outranks a later automatic one in `DeriveStatus`; `request_copilot_review` goes
on when the rate limit is low and then records its request as if there had been
no review.

## Proofs

Every invariant and every action property of a run that passes is also a
theorem, for any values of the constants: any logins, keys, callers, threads,
numbers of watches, rows, reviews, refusals and restarts, any limits and clocks.

| Module | Theorem | Property |
|---|---|---|
| `WatchManagerProofs` | `Invariance`, `AccountInvariance` | the inductive invariants `IInv`, `AccountInv` |
| | `TypeCorrect` | `TypeOK` |
| | `ActiveIndexCorrect` | `ActiveIndexExact` |
| | `LiveRowKept` | `LiveWatchHasActiveRow` |
| | `EndReleases` | `ReleasedIffEnded` |
| | `LiveIsPolled` | `LiveWatchHasWorker` |
| | `ActiveRowsAreLatest` | `ActiveRowIsLatest` |
| | `EndsForGood` | `EndedForGood` |
| | `RowsEndForGood` | `RowEndedForGood` (checked by no run) |
| | `NoticeIsNeverLost` | `SubscribersCurrent` |
| | `StoreIsMemory` | `RowMirrorsMemory` |
| | `CancelIsAccounted` | `CancelSettlesItsTrigger` |
| | `RequestBeforeWatch` | `DoneAfterItsRequest` |
| `WatchRefinementProofs` | `Implements` | `ImplementsRegistry` |
| `WatchViewsProofs` | `ViewInvariance` | the inductive invariant `ViewInv` |
| | `ViewTypeCorrect` | `ViewTypeOK` |
| | `LatestGoesForward` | `LatestNeverGoesBack` |
| | `EndIsForGood` | `EndIsShownForGood` |
| | `CancelIsThorough` | `CancelOverlooksNothing` |
| | `LimitIsFair` | `LimitHidesTheLast` |
| `GatewayTokenProofs` | `GatewayTypeCorrect` | `GatewayTypeOK` |
| | `NoExpiredToken` | `NoExpiredTokenIsSent` |
| | `OutageBudget` | `OutageGetsItsBudget` |
| | `AdviceIsTheSame` | `SameAdvice` |
| `ReviewRequestProofs` | `NewestReviewIsFirstNewest` | what the fold over the reviews returns, for every list |
| | `TypeCorrect` | `TypeOK` of `ReviewRequest` |
| | `DuplicatesAreBounded` | `DuplicatesAreRaces` |
| | `AnswerSettles` | `SettledByAnswer` |
| | `StatusIsOfTheRequest` | `StatusFollowsRequest` |
| `ReviewWaitProofs` | `WaitImplementsStatusCalls` | `WaitIsStatusCalls` |
| | `WaitTypeCorrect` | `WaitTypeOK` |
| | `DoneMeansFree` | `DoneFreesRequest` |
| | `TimeoutIsHonest` | `TimeoutHidesNoAnswer` |
| `ReviewThreadsProofs` | `ThreadTypeCorrect` | `ThreadTypeOK` |
| | `ReplyIsPostedOnce` | `RepliedOnce` |
| | `ReplyComesFirst` | `RepliedBeforeResolving` |
| | `ResolvedIsTrue` | `ResolvedWhenAnswered` |
| `ReviewCycleProofs` | `CycleImplementsRequests` | the composition implements `ReviewRequest` |
| | `CycleTypeCorrect` | `CycleTypeOK` |
| | `NobodyActsTooEarly` | `ReviewedBeforeActing` |

### What they assume

*Of the constants*, the named assumptions of the modules, which TLC evaluates in
the runs: the ranges of the bounds; a Copilot that takes at least a second to
review; finitely many watches and requesters; at least one thread;
a Copilot reviewer who is no agent; positive thresholds, lives of tokens and
limits of lists; and, in the `Nil...` assumptions, a `Nil` that is none of the
values it stands beside.

*Of the environment*, nothing: no theorem has a hypothesis about clocks, the
delay of lists, the duration of calls, or the number of callers. Where the code
cannot keep a promise the property itself says so, by `Blurred` and
`Recognisable` (requests), `late` (tokens) and `reopened` (threads); what happens
there is under *Disagreements found*.

### The arguments

*Watches.* None of the invariants is inductive alone, and most lean on the index
being exact: a `StartNew` makes no second live watch of a key because
`active[k]` is not live, and only `ActiveIndexExact` says that then no watch of
that key is. `IInv` is the conjunction of five invariants of the table and
three facts that the actions need: a goroutine or a notification has a watch
(`GoroutinesHaveWatch`, or a poll could end a watch that does not exist); a live
watch has failures left to count (`BudgetNotSpent`, which keeps the count in its
type when it is increased); a watch of the process has its row (`WatchHasRow`,
which makes the ID of a new watch unused). The proof has one lemma per action.
Every transition of a single watch goes through `FinishLocked`,
`PersistOrDegrade` or `Persist`, so the steps that matter are proved once
(`WritePreserves`, `FinishLockedPreserves`, `FinishStatePreserves`,
`ProgressPreserves`) and cited by the actions. The two theorems about ends follow
from `IInv` and `NextKeepsEnded`: no step changes the outcome of an ended watch
or an inactive row; for the rows this needs `LiveWatchHasActiveRow`, since every
write is made for a live watch.

*Watches and requests.* `AccountInv` adds the four invariants that relate a watch
to its row, a row to its watch, a watch to `trigger_log` and to its notifications, and what they need: a
reference to a request is one to a row that exists (`RefsKnown`, from the read
before the lock to the statement after it); a poll that is past `PollComplete`
with a final status has settled the request it read (`PollsSettle`). That active
rows are the latest of their key survives a restart because `Open` marks every row
of the old process STALE, and a start because the unique index refuses a row beside
an active one. `WritesEffect` states once what a write leaves alone.

*Refinement.* It needs one invariant more, `StatusTells`: the status alone says
whether a watch or a row has ended, which is all the registry sees. `NextRefines`
proves with it, action by action, that a step is one of the registry's or leaves
both tables as they were: an accepted write of a live watch is `End` or nothing
(`WriteRefines`), a refused one `Lose` or nothing; an accepted `StartNew` is
`Register`, whose guard on memory is the exact index and whose guard on rows is
the unique index of the table (`Conflict`); Close is `StopAll` with the refused
rows lost, a restart `Replace`, and everything else a stutter.

*Views.* `WatchInv` says how IDs, keys, stamps and the two copies hang together:
IDs are used in order and those of the process are the last (`IdsInOrder`), a
watch of a key starts when the row of the one before it was written for the last
time (`OneAfterAnother`), and memory is newer than any row of a watch that is
not in memory (`MemoryIsNewer`). That is why the row with the latest stamp is
the newest watch although rows are dated in seconds and before the write.
`ViewInv` adds what a lookup knows between its two reads (`RowsNext`), proved
once for all steps of others (`Onward`). For `LimitIsFair`, `FirstCut` says what
ORDER BY with LIMIT returns: exactly as many as the limit, all before what is cut
off; the order is shown strict, transitive and total (`BeforeIs...`), and the cut
is applied once to the rows and once to the merged list.

*Requests.* `DuplicatesAreRaces` is inductive with types: it counts the rows behind
a pending one and the requesters that are busy together, and a requester that
records leaves the one for the other. `OrderInv` is for the rest: reviews are
numbered in the order of time and a request under way is later than all of them
(`ReviewsInOrder`, `RequestIsCurrent`); a row came after a request, and the review
it names is the last before that, or one that passes for the answer (`RowKnows`);
and what each handler has read so far is bounded by when it began, each read by
its own moment. That the loop over the reviews finds the first of the newest (`NewestReviewIsFirstNewest`)
is an induction over a list; the library's induction theorem cannot be
instantiated here, so the proof takes the least prefix that would be a
counterexample.

*Waiting.* `WaitInv` bounds the sleeps by the arguments that were admitted
(`InBudget`, `SleepFits`, where the product of interval and polls meets the
ceiling). `TimeoutIsHonest` rests on the way a call ends (`FindsByPoll`: by a status
that is not final) and on `AnswerIsSeen`. `DoneMeansFree` combines
`DuplicatesAreRaces` with `SettlesLatest`: a status call about to complete a row
completes the one `GetLatest` returns, unless one was recorded since it began.

*Threads and cycle.* A handler counts the comments of its agent when it begins, and
`HandlerKnows` says how many there are at each of its steps; the lost answer of
a mutation is the case that matters. That a resolved thread is still resolved at
the answer, or reopened since, is followed from the read or the mutation to
`Return` (`ReturnsResolved`). `CycleInv` is the invariant of the requests,
that of the threads and `ReadsInTurn`, the order of the handler's reads. The
theorems of `ReviewRequestProofs` carry over by `CycleImplementsRequests`.

*Gateway.* `BudgetIsOwn` relates the failure count, the client of the poll under way
and the failures that are the client's own; `SentIsValid` and `CacheIsDated` say that a token
about to be sent has an expiry, and has not reached it or was past it when it came.

### Only model-checked

Liveness under fairness (`WatchEnds`, `WorkerExits`, `EndIsLearnt`,
`RotatedTokenIsUsed`, `OutageIsReported`, `AnsweredIsSettled`, `WaitReturns`) and
facts about ENABLED are beyond the prover. The statements under *Disagreements
found* are refuted by TLC.

## Not modelled

The middleware, the handshake, the diagnostics tool, configuration and wiring,
and the validation of the gateway's endpoint: each looks at one input and keeps
no state. The migrations of `Open`: they run alone, before anything else. (See
`components` in `PROJECT.json`.) Error texts, hints, `pollsDone` and the seconds
until a next poll are left out everywhere; so are the filters of a list by owner,
repository and number. A thread shows the cycle handler its first ten comments
only; the model shows it all of them.

## Plan

Done: watch manager; requests and status; threads; cycle; the registry and its
refinement; views; the waiting tool; gateway tokens; and the proofs of all their
invariants and action properties.

1. *Watches and requests composed.* The poll of `WatchManager` over the GitHub of
   `ReviewRequest`, with cancels and restarts, for what spans both: the request
   of a watch that is cancelled as the process dies.
2. *The agent's loop*: cycle, reply, resolve, request again, with its progress.
