---------------------------- MODULE WatchManager ----------------------------
(***************************************************************************)
(* The background review-watch manager of review-raven                     *)
(* (src/internal/watch/manager.go) over its SQLite store                   *)
(* (src/internal/store/db.go).                                             *)
(*                                                                         *)
(* A watch follows one pull request for one login.  The manager keeps the  *)
(* watches of the current process in memory and mirrors each in a row of   *)
(* review_watch; a worker goroutine per watch polls GitHub.  What runs     *)
(* under Manager.mu is one action.  What runs outside it - the trigger_log *)
(* read of Start, the GitHub call and the trigger_log statements of        *)
(* pollOnce, the trigger_log update of Cancel, the context cancellations   *)
(* of Close, the notification goroutines - is an action of its own, so     *)
(* every interleaving of callers, workers and Close is explored.           *)
(*                                                                         *)
(* Abstracted: error texts and hints, timestamps (a poll may find its      *)
(* watch past maxWatchDuration at any time), pollsDone, and workerRunning, *)
(* which the code always sets together with terminal.  The derived review  *)
(* status is any member of Observable.  A statement refused by SQLite is a *)
(* fault; faults, restarts, watches and trigger_log rows are bounded.      *)
(***************************************************************************)
EXTENDS Naturals, Sequences, FiniteSets

CONSTANTS
  Logins,       \* GitHub logins
  PRs,          \* pull requests (owner, repo and number)
  Tokens,       \* GitHub tokens a caller may present
  Ids,          \* watch IDs nextID can hand out: bounds the watches started
  Callers,      \* concurrent tool handlers calling the manager
  Observable,   \* review statuses a poll may derive
  Errors,       \* outcomes that end a watch at once, of a failed GitHub call
  Threshold,    \* upstreamFailureThreshold
  MaxTriggers,  \* bound on the rows of trigger_log
  MaxFaults,    \* bound on refused SQLite statements
  MaxCrashes,   \* bound on restarts of the process
  Nil           \* Go's nil

ReviewStatus == {"NOT_REQUESTED", "PENDING", "IN_PROGRESS", "COMPLETED", "BLOCKED"}
ReviewDone   == {"COMPLETED", "BLOCKED"}
EndStatus    == ReviewDone \union {"TIMEOUT", "RATE_LIMITED", "FAILED", "STALE", "CANCELLED"}
Reason       == {"AUTH_EXPIRED", "GITHUB_ERROR", "INTERNAL_ERROR"}

ASSUME Constants ==
  /\ Observable \subseteq ReviewStatus
  /\ Errors \subseteq {"RATE_LIMITED", "AUTH_EXPIRED", "GITHUB_ERROR"}
  /\ Threshold \in Nat \ {0}
  /\ MaxTriggers \in Nat /\ MaxFaults \in Nat /\ MaxCrashes \in Nat
  /\ Nil \notin Ids \union Tokens \union ReviewStatus \union Reason \union Callers
  /\ IsFiniteSet(Ids)

Keys == Logins \X PRs
PrOf(k) == k[2]

VARIABLES
  watches,   \* watchesByID: watch ID -> watchState, or Nil
  active,    \* activeByKey
  latest,    \* latestByKey
  phase,     \* Manager.Close: "open", "closing" (closed, contexts not yet cancelled), "closed"
  rows,      \* table review_watch: watch ID -> row, or Nil
  triggers,  \* table trigger_log, oldest first
  worker,    \* the goroutine of each watch
  call,      \* the handler each caller is in the middle of
  notes,     \* watches with a notification goroutine under way
  seen,      \* what a subscriber knows: the (status, review) it last read of each watch
  faults,    \* SQLite statements refused so far
  crashes    \* restarts so far

memory == <<watches, active, latest, phase>>
vars == <<watches, active, latest, phase, rows, triggers, worker, call,
          notes, seen, faults, crashes>>

(***************************************************************************)
(* Types.                                                                  *)
(***************************************************************************)
TriggerRef == 0..MaxTriggers     \* a trigger_log id; 0 is nil

Watch == [key: Keys, token: Tokens \union {Nil}, client: Tokens \union {Nil},
          trigger: TriggerRef, status: EndStatus \union {"WATCHING"},
          reason: Reason \union {Nil}, review: ReviewStatus \union {Nil},
          terminal: BOOLEAN, cancelled: BOOLEAN, fails: 0..Threshold]

Row == [key: Keys, trigger: TriggerRef, status: EndStatus \union {"WATCHING"},
        reason: Reason \union {Nil}, review: ReviewStatus \union {Nil},
        active: BOOLEAN]

WorkerPc == {"none", "wait", "call", "complete", "broken", "apply", "exited"}
Worker == [pc: WorkerPc, client: Tokens \union {Nil}, entry: TriggerRef,
           review: ReviewStatus \union {Nil}, low: BOOLEAN]
NoWorker == [pc |-> "none", client |-> Nil, entry |-> 0, review |-> Nil, low |-> FALSE]
Idle  == [op |-> "idle"]
Calls == {Idle}
         \union [op: {"start"}, key: Keys, token: Tokens, trigger: TriggerRef]
         \union [op: {"complete"}, trigger: TriggerRef \ {0}]
View  == [status: EndStatus \union {"WATCHING"}, review: ReviewStatus \union {Nil}]

ASSUME NilIsNoRecord ==
  /\ Nil \notin Watch \union Row \union View
  /\ Nil \notin [key: Keys, status: EndStatus \union {"WATCHING"}]

TypeOK ==
  /\ watches \in [Ids -> Watch \union {Nil}]
  /\ active \in [Keys -> Ids \union {Nil}]
  /\ latest \in [Keys -> Ids \union {Nil}]
  /\ phase \in {"open", "closing", "closed"}
  /\ rows \in [Ids -> Row \union {Nil}]
  /\ triggers \in Seq([pr: PRs, done: BOOLEAN])
  /\ Len(triggers) <= MaxTriggers
  /\ worker \in [Ids -> Worker]
  /\ call \in [Callers -> Calls]
  /\ notes \subseteq Ids
  /\ seen \in [Ids -> View \union {Nil}]
  /\ faults \in 0..MaxFaults
  /\ crashes \in 0..MaxCrashes

(***************************************************************************)
(* trigger_log.                                                            *)
(***************************************************************************)
RowsOf(pr) == {i \in DOMAIN triggers : triggers[i].pr = pr}

\* What GetLatest may return, 0 without a row.  It orders by date first, and
\* ReviewRequest shows dates that are not in the order of insertion: they are
\* left out here, and any row may be the one dated last.
LatestTriggers(pr) == IF RowsOf(pr) = {} THEN {0} ELSE RowsOf(pr)

UpdateCompletedAt(i) == triggers' = [triggers EXCEPT ![i].done = TRUE]

Fault == faults < MaxFaults /\ faults' = faults + 1

(***************************************************************************)
(* review_watch.  The partial unique index allows one active row per key:  *)
(* an upsert that would make a second one is refused, always.              *)
(***************************************************************************)
RowFor(r) == [key |-> r.key, trigger |-> r.trigger, status |-> r.status,
              reason |-> r.reason, review |-> r.review, active |-> ~r.terminal]

ActiveRow(w) == rows[w] # Nil /\ rows[w].active
Conflict(w, r) == /\ ~r.terminal
                  /\ \E v \in Ids \ {w} : ActiveRow(v) /\ rows[v].key = r.key

UpsertReviewWatch(w, r) == /\ ~Conflict(w, r)
                           /\ rows' = [rows EXCEPT ![w] = RowFor(r)]
                           /\ UNCHANGED faults
UpsertRefused(w, r) == /\ IF Conflict(w, r) THEN UNCHANGED faults ELSE Fault
                       /\ UNCHANGED rows

(***************************************************************************)
(* State transitions of one watch.                                         *)
(***************************************************************************)
NewWatch(k, token, trigger) ==
  [key |-> k, token |-> token, client |-> token, trigger |-> trigger,
   status |-> "WATCHING", reason |-> Nil, review |-> Nil, terminal |-> FALSE,
   cancelled |-> FALSE, fails |-> 0]

\* Faulty variant: the client outlives the watch.
EndedKeepsClient(r, status, reason) ==
  [r EXCEPT !.status = status, !.reason = reason, !.terminal = TRUE, !.token = Nil]

\* The fields a terminal transition writes, in Close and in finishLocked.
Ended(r, status, reason) ==
  [r EXCEPT !.status = status, !.reason = reason, !.terminal = TRUE,
            !.token = Nil, !.client = Nil]

\* persistOrDegradeLocked when the write is refused.
Degraded(r, intended) ==
  [Ended(r, IF intended = "STALE" THEN "STALE" ELSE "FAILED",
            IF intended = "STALE" THEN Nil ELSE "INTERNAL_ERROR")
   EXCEPT !.cancelled = TRUE]

\* Faulty variant: activeByKey keeps the key of an ended watch.
InstallKeepsKey(w, r) ==
  /\ watches' = [watches EXCEPT ![w] = r]
  /\ UNCHANGED active

Install(w, r) ==
  /\ watches' = [watches EXCEPT ![w] = r]
  /\ active' = IF r.terminal THEN [active EXCEPT ![r.key] = Nil] ELSE active

\* Write r, or fall back to the record d the manager keeps after a refusal.
Persist(w, r, d) == \/ UpsertReviewWatch(w, r) /\ Install(w, r)
                    \/ UpsertRefused(w, r) /\ Install(w, d)

PersistOrDegrade(w, r, intended) == Persist(w, r, Degraded(r, intended))

\* Faulty variant: no notification of the end.
FinishLockedSilent(w, r, status, reason) ==
  /\ PersistOrDegrade(w, [Ended(r, status, reason) EXCEPT !.cancelled = TRUE], status)
  /\ UNCHANGED notes

FinishLocked(w, r, status, reason) ==
  /\ PersistOrDegrade(w, [Ended(r, status, reason) EXCEPT !.cancelled = TRUE], status)
  /\ notes' = notes \union {w}

\* Faulty variant: the terminal flag is not checked again under the lock.
FinishStateUnchecked(w, status, reason) == FinishLocked(w, watches[w], status, reason)

\* finishState and markStale: a watch that is already terminal is left alone.
FinishState(w, status, reason) ==
  IF watches[w].terminal
  THEN UNCHANGED <<watches, active, rows, faults, notes>>
  ELSE FinishLocked(w, watches[w], status, reason)

Linked(r, entry) == IF r.trigger = 0 THEN [r EXCEPT !.trigger = entry] ELSE r

(***************************************************************************)
(* Callers: start_, cancel_ (by ID, by key) and the other review tools.    *)
(***************************************************************************)
Fresh == {w \in Ids : rows[w] = Nil}     \* IDs not handed out yet

\* Start, before the lock: db.GetLatest.  A refused read returns the error.
\* (Fresh is the bound on watches: when it is empty only reuse can succeed.)
StartRead(c, k, token) ==
  /\ call[c] = Idle
  /\ Fresh # {} \/ active[k] # Nil
  /\ \E entry \in LatestTriggers(PrOf(k)) :
       call' = [call EXCEPT ![c] = [op |-> "start", key |-> k, token |-> token,
                                    trigger |-> entry]]
  /\ UNCHANGED <<memory, rows, triggers, worker, notes, seen, faults, crashes>>

Returns(c) == call' = [call EXCEPT ![c] = Idle]

Live(w) == w # Nil /\ watches[w] # Nil /\ ~watches[w].terminal

StartClosed(c) ==
  /\ call[c].op = "start"
  /\ phase # "open"
  /\ Returns(c)
  /\ UNCHANGED <<memory, rows, triggers, worker, notes, seen, faults, crashes>>

\* What reuse does to the record of the active watch.
Reused(r, token, trigger) ==
  LET s == IF r.token = token THEN r
           ELSE [r EXCEPT !.token = token, !.client = token, !.fails = 0]
  IN Linked(s, trigger)

\* Faulty variant: only a new token is written through.
StartReuseNoWrite(c) ==
  /\ call[c].op = "start"
  /\ phase = "open"
  /\ LET w == active[call[c].key]
         r == Reused(watches[w], call[c].token, call[c].trigger)
     IN /\ Live(w)
        /\ IF r.token = watches[w].token THEN Install(w, r) /\ UNCHANGED <<rows, faults>>
                                         ELSE Persist(w, r, r)
  /\ Returns(c)
  /\ UNCHANGED <<latest, phase, triggers, worker, notes, seen, crashes>>

\* Reuse of the active watch.  When the write is refused the caller gets an
\* error, and the manager keeps the new token, client and trigger.
StartReuse(c) ==
  /\ call[c].op = "start"
  /\ phase = "open"
  /\ LET w == active[call[c].key]
         r == Reused(watches[w], call[c].token, call[c].trigger)
     IN /\ Live(w)
        /\ IF r = watches[w] THEN UNCHANGED <<watches, active, rows, faults>>
                             ELSE Persist(w, r, r)
  /\ Returns(c)
  /\ UNCHANGED <<latest, phase, triggers, worker, notes, seen, crashes>>

\* Faulty variant: the watch is registered even when its row was refused.
StartNewUnchecked(c) ==
  /\ call[c].op = "start"
  /\ phase = "open"
  /\ ~Live(active[call[c].key])
  /\ \E w \in Fresh :
       LET k == call[c].key
           r == NewWatch(k, call[c].token, call[c].trigger)
       IN /\ UpsertReviewWatch(w, r) \/ UpsertRefused(w, r)
          /\ watches' = [watches EXCEPT ![w] = r]
          /\ active' = [active EXCEPT ![k] = w]
          /\ latest' = [latest EXCEPT ![k] = w]
          /\ worker' = [worker EXCEPT ![w].pc = "wait"]
          /\ seen' = [seen EXCEPT ![w] = [status |-> "WATCHING", review |-> Nil]]
  /\ Returns(c)
  /\ UNCHANGED <<phase, triggers, notes, crashes>>

\* A new watch: the row first, then the maps and the worker.
StartNew(c) ==
  /\ call[c].op = "start"
  /\ phase = "open"
  /\ ~Live(active[call[c].key])
  /\ \E w \in Fresh :
       LET k == call[c].key
           r == NewWatch(k, call[c].token, call[c].trigger)
       IN \/ /\ UpsertReviewWatch(w, r)
             /\ watches' = [watches EXCEPT ![w] = r]
             /\ active' = [active EXCEPT ![k] = w]
             /\ latest' = [latest EXCEPT ![k] = w]
             /\ worker' = [worker EXCEPT ![w].pc = "wait"]
             /\ seen' = [seen EXCEPT ![w] = [status |-> "WATCHING", review |-> Nil]]
          \/ /\ UpsertRefused(w, r)
             /\ active' = [active EXCEPT ![k] = Nil]
             /\ UNCHANGED <<watches, latest, worker, seen>>
  /\ Returns(c)
  /\ UNCHANGED <<phase, triggers, notes, crashes>>

\* Faulty variant: a cancel forgets the request of the watch.
CancelForgetsTrigger(c, w) ==
  /\ call[c] = Idle
  /\ FinishLocked(w, watches[w], "CANCELLED", Nil)
  /\ UNCHANGED <<latest, phase, triggers, worker, call, seen, crashes>>

\* The locked part of a cancel; the trigger_log row linked to the watch is
\* completed after the lock is released.
Cancel(c, w) ==
  /\ call[c] = Idle
  /\ FinishLocked(w, watches[w], "CANCELLED", Nil)
  /\ call' = [call EXCEPT ![c] = IF watches[w].trigger = 0 THEN Idle
                ELSE [op |-> "complete", trigger |-> watches[w].trigger]]
  /\ UNCHANGED <<latest, phase, triggers, worker, seen, crashes>>

\* Nothing changes when the watch is another login's, terminal or unknown.
CancelByID(c, login, w) ==
  /\ Live(w)
  /\ watches[w].key[1] = login
  /\ Cancel(c, w)

CancelLatest(c, k) ==
  /\ Live(active[k])
  /\ Cancel(c, active[k])

\* UpdateCompletedAt of a cancel; a refusal is only logged.
CancelComplete(c) ==
  /\ call[c].op = "complete"
  /\ \/ UpdateCompletedAt(call[c].trigger) /\ UNCHANGED faults
     \/ Fault /\ UNCHANGED triggers
  /\ Returns(c)
  /\ UNCHANGED <<memory, rows, worker, notes, seen, crashes>>

\* request_copilot_review records its trigger.  It looked for a pending row some
\* steps earlier: a row may be pending by now (ReviewRequest has those steps).
RequestReview(pr) ==
  /\ Len(triggers) < MaxTriggers
  /\ triggers' = Append(triggers, [pr |-> pr, done |-> FALSE])
  /\ UNCHANGED <<memory, rows, worker, call, notes, seen, faults, crashes>>

\* get_copilot_review_status or wait_for_copilot_review that saw the review done
\* completes the row it read some steps earlier.
SettleLatest(pr) ==
  /\ \E i \in RowsOf(pr) : ~triggers[i].done /\ UpdateCompletedAt(i)
  /\ UNCHANGED <<memory, rows, worker, call, notes, seen, faults, crashes>>

(***************************************************************************)
(* The worker goroutine: run and pollOnce.                                 *)
(***************************************************************************)
At(w, pc) == worker[w].pc = pc
\* What pollOnce keeps in local variables is gone once it returns or fails.
GoTo(w, pc) == worker' = [worker EXCEPT ![w] = [NoWorker EXCEPT !.pc = pc]]
\* Faulty variant: pollOnce does not tell run to stop.
NeverExits(w) == GoTo(w, "wait")

Exits(w) == GoTo(w, "exited")

\* pollOnce before the call: the watch is older than maxWatchDuration.
PollExpired(w) ==
  /\ At(w, "wait")
  /\ FinishState(w, "TIMEOUT", Nil)
  /\ Exits(w)
  /\ UNCHANGED <<latest, phase, triggers, call, seen, crashes>>

\* pollOnce before the call: the client is gone.  A tick can win the select of
\* run when the context is done too, so this happens.
PollNoClient(w) ==
  /\ At(w, "wait")
  /\ watches[w].client = Nil
  /\ FinishState(w, "FAILED", "INTERNAL_ERROR")
  /\ Exits(w)
  /\ UNCHANGED <<latest, phase, triggers, call, seen, crashes>>

\* pollOnce takes the client under clientMu and calls GitHub without a lock.
PollCall(w) ==
  /\ At(w, "wait")
  /\ watches[w].client # Nil
  /\ worker' = [worker EXCEPT ![w].pc = "call", ![w].client = watches[w].client]
  /\ UNCHANGED <<memory, rows, triggers, call, notes, seen, faults, crashes>>

\* run leaves its loop through ctx.Done().
WorkerStop(w) ==
  /\ At(w, "wait")
  /\ watches[w].cancelled
  /\ Exits(w)
  /\ UNCHANGED <<memory, rows, triggers, call, notes, seen, faults, crashes>>

\* The call was cut short by the cancellation of the watch.
PollCancelled(w) ==
  /\ At(w, "call")
  /\ watches[w].cancelled
  /\ Exits(w)
  /\ UNCHANGED <<memory, rows, triggers, call, notes, seen, faults, crashes>>

\* Faulty variant: a failed call ends the worker and not the watch.
PollFailureAbandons(w) ==
  /\ At(w, "call")
  /\ Errors # {}
  /\ Exits(w)
  /\ UNCHANGED <<memory, rows, triggers, call, notes, seen, faults, crashes>>

\* The call failed for good: rate limit, authentication, anything else.
PollFailure(w) ==
  /\ At(w, "call")
  /\ \E e \in Errors : FinishState(w, IF e = "RATE_LIMITED" THEN e ELSE "FAILED",
                                       IF e = "RATE_LIMITED" THEN Nil ELSE e)
  /\ Exits(w)
  /\ UNCHANGED <<latest, phase, triggers, call, seen, crashes>>

\* Faulty variant: the threshold is overstepped by one.
HandleUpstreamFailureLate(w) ==
  /\ At(w, "call")
  /\ ~watches[w].terminal
  /\ LET f == [watches[w] EXCEPT !.fails = @ + 1]
     IN \/ f.fails > Threshold /\ FinishLocked(w, f, "FAILED", "AUTH_EXPIRED") /\ Exits(w)
        \/ /\ f.fails <= Threshold
           /\ PersistOrDegrade(w, f, "WATCHING")
           /\ GoTo(w, IF watches'[w].terminal THEN "exited" ELSE "wait")
           /\ notes' = IF watches'[w].terminal THEN notes \union {w} ELSE notes
  /\ UNCHANGED <<latest, phase, triggers, call, seen, crashes>>

\* Faulty variant: pollOnce stops the loop below the threshold too.
HandleUpstreamFailureStops(w) ==
  /\ At(w, "call")
  /\ ~watches[w].terminal
  /\ PersistOrDegrade(w, [watches[w] EXCEPT !.fails = IF @ + 1 < Threshold THEN @ + 1 ELSE @],
                      "WATCHING")
  /\ Exits(w)
  /\ notes' = IF watches'[w].terminal THEN notes \union {w} ELSE notes
  /\ UNCHANGED <<latest, phase, triggers, call, seen, crashes>>

\* handleUpstreamFailure: the gateway could not reach its upstream.
HandleUpstreamFailure(w) ==
  /\ At(w, "call")
  /\ LET r == watches[w]
         f == [r EXCEPT !.fails = @ + 1]
     IN \/ /\ r.terminal
           /\ Exits(w)
           /\ UNCHANGED <<watches, active, rows, faults, notes>>
        \/ /\ ~r.terminal /\ f.fails >= Threshold
           /\ FinishLocked(w, f, "FAILED", "AUTH_EXPIRED")
           /\ Exits(w)
        \/ /\ ~r.terminal /\ f.fails < Threshold
           /\ PersistOrDegrade(w, f, "WATCHING")
           /\ GoTo(w, IF watches'[w].terminal THEN "exited" ELSE "wait")
           /\ notes' = IF watches'[w].terminal THEN notes \union {w} ELSE notes
  /\ UNCHANGED <<latest, phase, triggers, call, seen, crashes>>

\* Faulty variant: the request just read is not completed.
PollReadOwesNothing(w) ==
  /\ At(w, "call")
  /\ \E review \in Observable, low \in BOOLEAN, entry \in LatestTriggers(PrOf(watches[w].key)) :
       worker' = [worker EXCEPT ![w] =
         [pc |-> "apply", client |-> Nil, entry |-> entry, review |-> review, low |-> low]]
  /\ UNCHANGED <<memory, rows, triggers, call, notes, seen, faults, crashes>>

\* The call succeeded: read the newest trigger_log row and derive the status.
PollRead(w) ==
  /\ At(w, "call")
  /\ \E review \in Observable, low \in BOOLEAN, entry \in LatestTriggers(PrOf(watches[w].key)) :
       LET owes == ~low /\ review \in ReviewDone /\ entry # 0 /\ ~triggers[entry].done
       IN worker' = [worker EXCEPT ![w] =
                       [pc |-> IF owes THEN "complete" ELSE "apply", client |-> Nil,
                        entry |-> entry, review |-> review, low |-> low]]
  /\ UNCHANGED <<memory, rows, triggers, call, notes, seen, faults, crashes>>

\* The review is over: complete the trigger_log row just read.
PollComplete(w) ==
  /\ At(w, "complete")
  /\ UpdateCompletedAt(worker[w].entry)
  /\ worker' = [worker EXCEPT ![w].pc = "apply"]
  /\ UNCHANGED <<memory, rows, call, notes, seen, faults, crashes>>

\* The trigger_log read or update was refused ...
PollRefused(w) ==
  /\ At(w, "call") \/ At(w, "complete")
  /\ Fault
  /\ GoTo(w, "broken")
  /\ UNCHANGED <<memory, rows, triggers, call, notes, seen, crashes>>

\* ... and the watch fails.
PollBroken(w) ==
  /\ At(w, "broken")
  /\ FinishState(w, "FAILED", "INTERNAL_ERROR")
  /\ Exits(w)
  /\ UNCHANGED <<latest, phase, triggers, call, seen, crashes>>

\* Back under the lock, the watch meanwhile ended (cancelled, closed).
ApplyLate(w) ==
  /\ At(w, "apply")
  /\ watches[w].terminal
  /\ Exits(w)
  /\ UNCHANGED <<memory, rows, triggers, call, notes, seen, faults, crashes>>

Observed(w) == [watches[w] EXCEPT !.review = worker[w].review]

\* Fewer than 10 requests left: whatever the review, the watch ends.
ApplyRateLow(w) ==
  /\ At(w, "apply")
  /\ ~watches[w].terminal
  /\ worker[w].low
  /\ FinishLocked(w, Observed(w), "RATE_LIMITED", Nil)
  /\ Exits(w)
  /\ UNCHANGED <<latest, phase, triggers, call, seen, crashes>>

\* The review is over.
ApplyDone(w) ==
  /\ At(w, "apply")
  /\ ~watches[w].terminal
  /\ ~worker[w].low
  /\ worker[w].review \in ReviewDone
  /\ FinishLocked(w, Linked(Observed(w), worker[w].entry), worker[w].review, Nil)
  /\ Exits(w)
  /\ UNCHANGED <<latest, phase, triggers, call, seen, crashes>>

\* Faulty variant: a watch degraded by the write is not notified.
ApplyProgressQuiet(w) ==
  /\ At(w, "apply")
  /\ ~watches[w].terminal
  /\ ~worker[w].low
  /\ worker[w].review \notin ReviewDone
  /\ PersistOrDegrade(w, [Linked(Observed(w), worker[w].entry) EXCEPT !.fails = 0], "WATCHING")
  /\ GoTo(w, IF watches'[w].terminal THEN "exited" ELSE "wait")
  /\ notes' = IF ~watches'[w].terminal /\ watches[w].review # worker[w].review
              THEN notes \union {w} ELSE notes
  /\ UNCHANGED <<latest, phase, triggers, call, seen, crashes>>

\* The review goes on: record what was seen, and notify if it is new.
ApplyProgress(w) ==
  /\ At(w, "apply")
  /\ ~watches[w].terminal
  /\ ~worker[w].low
  /\ worker[w].review \notin ReviewDone
  /\ PersistOrDegrade(w, [Linked(Observed(w), worker[w].entry) EXCEPT !.fails = 0], "WATCHING")
  /\ GoTo(w, IF watches'[w].terminal THEN "exited" ELSE "wait")
  /\ notes' = IF watches'[w].terminal \/ watches[w].review # worker[w].review
              THEN notes \union {w} ELSE notes
  /\ UNCHANGED <<latest, phase, triggers, call, seen, crashes>>

\* A panic in the client ends in the recover of run: markStale.
WorkerPanic(w) ==
  /\ At(w, "call")
  /\ FinishState(w, "STALE", Nil)
  /\ Exits(w)
  /\ UNCHANGED <<latest, phase, triggers, call, seen, crashes>>

PollReturns(w) == PollCancelled(w) \/ PollFailure(w) \/ HandleUpstreamFailure(w) \/ PollRead(w)
WorkerStep(w) ==
  \/ PollExpired(w) \/ PollNoClient(w) \/ PollCall(w) \/ WorkerStop(w)
  \/ PollReturns(w) \/ PollComplete(w) \/ PollRefused(w) \/ PollBroken(w)
  \/ ApplyLate(w) \/ ApplyRateLow(w) \/ ApplyDone(w) \/ ApplyProgress(w)
  \/ WorkerPanic(w)

(***************************************************************************)
(* Close, time, notifications, restarts.                                   *)
(***************************************************************************)
\* The locked part of Close; refused is the set of watches whose write fails.
Close ==
  /\ phase = "open"
  /\ LET live == {w \in Ids : Live(w) /\ active[watches[w].key] = w}
     IN \E refused \in SUBSET live :
          /\ faults + Cardinality(refused) <= MaxFaults
          /\ faults' = faults + Cardinality(refused)
          /\ watches' = [w \in Ids |->
                CASE w \in refused        -> Degraded(watches[w], "STALE")
                  [] w \in live \ refused -> Ended(watches[w], "STALE", watches[w].reason)
                  [] OTHER                -> watches[w]]
          /\ rows' = [w \in Ids |-> IF w \in live \ refused
                THEN RowFor(Ended(watches[w], "STALE", watches[w].reason)) ELSE rows[w]]
  /\ active' = [k \in Keys |-> Nil]
  /\ phase' = "closing"
  /\ UNCHANGED <<latest, triggers, worker, call, notes, seen, crashes>>

\* The rest of Close: the contexts of the watches, then the manager's own.
CloseCancel ==
  /\ phase = "closing"
  /\ watches' = [w \in Ids |-> IF watches[w] = Nil THEN Nil
                               ELSE [watches[w] EXCEPT !.cancelled = TRUE]]
  /\ phase' = "closed"
  /\ UNCHANGED <<active, latest, rows, triggers, worker, call, notes, seen, faults, crashes>>

\* A notification goroutine runs, and the subscriber reads the watch again.
Notify(w) ==
  /\ w \in notes
  /\ notes' = notes \ {w}
  /\ seen' = [seen EXCEPT ![w] = [status |-> watches[w].status, review |-> watches[w].review]]
  /\ UNCHANGED <<memory, rows, triggers, worker, call, faults, crashes>>

\* Faulty variant: the rows of lost watches keep their place in the index.
MarkActiveStaleOnly(w) ==
  IF ActiveRow(w) THEN [rows[w] EXCEPT !.status = "STALE", !.reason = Nil] ELSE rows[w]

\* The rows MarkActiveReviewWatchesStale leaves behind.
MarkActiveStale(w) ==
  IF ActiveRow(w) THEN [rows[w] EXCEPT !.status = "STALE", !.reason = Nil, !.active = FALSE]
                  ELSE rows[w]

\* The process dies, or exits, at any point, and starts again: memory is gone,
\* and Open marks the active rows stale before anything is served.
Restart ==
  /\ crashes < MaxCrashes
  /\ crashes' = crashes + 1
  /\ rows' = [w \in Ids |-> MarkActiveStale(w)]
  /\ watches' = [w \in Ids |-> Nil]
  /\ active' = [k \in Keys |-> Nil]
  /\ latest' = [k \in Keys |-> Nil]
  /\ phase' = "open"
  /\ worker' = [w \in Ids |-> NoWorker]
  /\ call' = [c \in Callers |-> Idle]
  /\ notes' = {}
  /\ seen' = [w \in Ids |-> Nil]
  /\ UNCHANGED <<triggers, faults>>

Init ==
  /\ watches = [w \in Ids |-> Nil]
  /\ active = [k \in Keys |-> Nil]
  /\ latest = [k \in Keys |-> Nil]
  /\ phase = "open"
  /\ rows = [w \in Ids |-> Nil]
  /\ triggers = <<>>
  /\ worker = [w \in Ids |-> NoWorker]
  /\ call = [c \in Callers |-> Idle]
  /\ notes = {}
  /\ seen = [w \in Ids |-> Nil]
  /\ faults = 0
  /\ crashes = 0

CallerStep(c) ==
  \/ \E k \in Keys, t \in Tokens : StartRead(c, k, t)
  \/ StartClosed(c) \/ StartReuse(c) \/ StartNew(c)
  \/ \E l \in Logins, w \in Ids : CancelByID(c, l, w)
  \/ \E k \in Keys : CancelLatest(c, k)
  \/ CancelComplete(c)

Next ==
  \/ \E c \in Callers : CallerStep(c)
  \/ \E w \in Ids : WorkerStep(w) \/ Notify(w)
  \/ \E pr \in PRs : RequestReview(pr) \/ SettleLatest(pr)
  \/ Close \/ CloseCancel \/ Restart

Spec == Init /\ [][Next]_vars

(***************************************************************************)
(* Fairness.  A worker goroutine is always scheduled, and its GitHub call  *)
(* returns: pollOnce gives it a context with pollTimeout.  Time passes: a  *)
(* worker that polls for ever finds its watch too old in the end, so the   *)
(* fairness of PollExpired is strong.                                      *)
(* Goroutines started by go notifyResourceUpdated run; a handler that left *)
(* the lock runs to its end.  No caller has to call, and nothing outside   *)
(* the process has to happen.                                              *)
(***************************************************************************)
Fairness ==
  /\ \A w \in Ids : WF_vars(WorkerStep(w)) /\ SF_vars(PollExpired(w)) /\ WF_vars(Notify(w))
  /\ \A c \in Callers : WF_vars(CancelComplete(c))
  /\ WF_vars(CloseCancel)

FairSpec == Spec /\ Fairness

(***************************************************************************)
(* Safety.                                                                 *)
(***************************************************************************)
\* activeByKey is exactly the live watches: at most one per login and PR, none
\* unreachable from it, none left in it after its end (deletions are by key,
\* not by watch, and happen in finishLocked, in the degraded path, in Close).
ActiveIndexExact ==
  \A k \in Keys, w \in Ids : active[k] = w <=> Live(w) /\ watches[w].key = k

\* A live watch always has its active WATCHING row, even when a write of it was
\* refused: a restart will find it and report it STALE, never forget it.
LiveWatchHasActiveRow ==
  \A w \in Ids : Live(w) => /\ ActiveRow(w)
                            /\ rows[w].key = watches[w].key
                            /\ rows[w].status = "WATCHING" /\ watches[w].status = "WATCHING"

\* Without a refused statement the row of a watch is its state in memory.
RowMirrorsMemory ==
  faults = 0 => \A w \in Ids : watches[w] # Nil => rows[w] = RowFor(watches[w])

\* A watch that ended holds neither token nor client, and its context is
\* cancelled (in Close: once the lock is released); a live watch holds both,
\* and is not cancelled.
ReleasedIffEnded ==
  \A w \in Ids : watches[w] # Nil =>
    LET r == watches[w] IN
      /\ r.terminal <=> r.token = Nil
      /\ r.token = r.client
      /\ r.cancelled => r.terminal
      /\ r.terminal => r.cancelled \/ phase = "closing"

\* A live watch has a goroutine that will poll again, and Close leaves no live watch.
LiveWatchHasWorker ==
  \A w \in Ids : Live(w) => worker[w].pc \notin {"none", "exited"} /\ phase = "open"

\* Every row the index counts as active is the row of a watch of this process,
\* and of the watch that lookups of its key show: what a restart will mark STALE
\* is what clients were shown last, the row of a refused end included, and no
\* row outlives the process that can cancel it.
ActiveRowIsLatest ==
  \A w \in Ids : ActiveRow(w) => watches[w] # Nil /\ latest[rows[w].key] = w

\* No subscriber is left with an old view while no notification is on its way
\* (until Close, which sends none).
SubscribersCurrent ==
  phase = "open" =>
    \A w \in Ids : watches[w] # Nil /\ w \notin notes =>
      seen[w] = [status |-> watches[w].status, review |-> watches[w].review]

Settled(i) == i # 0 => triggers[i].done

\* The request of a cancelled watch is completed, or a handler still owes it,
\* or SQLite refused a statement.
CancelSettlesItsTrigger ==
  \A w \in Ids : watches[w] # Nil /\ watches[w].status = "CANCELLED" =>
    \/ Settled(watches[w].trigger)
    \/ \E c \in Callers : call[c] = [op |-> "complete", trigger |-> watches[w].trigger]
    \/ faults > 0

(***************************************************************************)
(* What a step may never do.                                               *)
(***************************************************************************)
Outcome(r) == <<r.key, r.terminal, r.status, r.reason, r.review, r.trigger>>

\* A watch that ended stays as it ended, whatever late poll, cancel or Close
\* follows, until the process is gone.
EndedForGood ==
  [][\A w \in Ids : watches[w] # Nil /\ watches[w].terminal /\ watches'[w] # Nil
                    => Outcome(watches'[w]) = Outcome(watches[w])]_vars

\* An inactive row is never written again, across restarts too.
RowEndedForGood ==
  [][\A w \in Ids : rows[w] # Nil /\ ~rows[w].active => rows'[w] = rows[w]]_vars

\* A watch ends COMPLETED or BLOCKED only after the request its poll read is
\* completed.  (Its linked request may be a later one, linked by a Start while
\* the poll was under way: that one stays pending.)
DoneAfterItsRequest ==
  [][\A w \in Ids : Live(w) /\ watches'[w] # Nil /\ watches'[w].status \in ReviewDone
                    => Settled(worker[w].entry)]_vars

(***************************************************************************)
(* Liveness, under FairSpec.                                               *)
(***************************************************************************)
\* Every watch ends: by its review, a failure, or maxWatchDuration.
WatchEnds == \A w \in Ids : Live(w) ~> ~Live(w)

\* The goroutine of an ended watch exits.
WorkerExits ==
  \A w \in Ids : (watches[w] # Nil /\ watches[w].terminal) ~> worker[w].pc \in {"none", "exited"}

\* A subscriber learns how a watch ended, unless Close or a restart comes first.
EndIsLearnt ==
  \A w \in Ids : (watches[w] # Nil /\ watches[w].terminal)
                 ~> \/ watches[w] = Nil \/ phase # "open"
                    \/ seen[w].status = watches[w].status

(***************************************************************************)
(* The manager implements the registry of WatchRegistry: a watch is what   *)
(* its record and its row say of its key and status.                       *)
(***************************************************************************)
Summary(f) == [w \in Ids |-> IF f[w] = Nil THEN Nil
                             ELSE [key |-> f[w].key, status |-> f[w].status]]

Registry == INSTANCE WatchRegistry WITH mem <- Summary(watches), row <- Summary(rows)

\* Every step of callers, workers, Close and restarts is one step of the
\* registry or none: no end is undone, announced before it is recorded, or
\* recorded differently from what the process says, unless a write was refused.
ImplementsRegistry == Registry!RegistrySpec
====
