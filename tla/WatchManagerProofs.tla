------------------------- MODULE WatchManagerProofs -------------------------
(***************************************************************************)
(* Theorems about WatchManager, for any number of logins, pull requests,   *)
(* tokens, watches and callers, and any bounds.                            *)
(***************************************************************************)
EXTENDS WatchManager, FiniteSetTheorems, SequenceTheorems, TLAPS

(***************************************************************************)
(* trigger_log: what GetLatest may return.                                 *)
(***************************************************************************)

\* A row of trigger_log, of the PR it was asked about, or none.
LEMMA LatestTriggersType ==
  ASSUME TypeOK, NEW pr \in PRs, NEW entry \in LatestTriggers(pr)
  PROVE  entry \in TriggerRef /\ (entry # 0 => entry \in RowsOf(pr))
<1>1. Len(triggers) \in Nat /\ Len(triggers) <= MaxTriggers /\ MaxTriggers \in Nat
  BY Constants DEF TypeOK
<1>2. RowsOf(pr) \subseteq 1..Len(triggers)
  BY DEF TypeOK, RowsOf
<1> QED BY <1>1, <1>2 DEF LatestTriggers, TriggerRef

(***************************************************************************)
(* The inductive invariant.                                                *)
(***************************************************************************)

\* A goroutine and a notification belong to a watch of the current process.
GoroutinesHaveWatch ==
  \A w \in Ids : worker[w].pc # "none" \/ w \in notes => watches[w] # Nil

\* A live watch has failures left to count.
BudgetNotSpent == \A w \in Ids : Live(w) => watches[w].fails < Threshold

\* A watch of this process was written before it was registered.
WatchHasRow == \A w \in Ids : watches[w] # Nil => rows[w] # Nil

IInv ==
  /\ TypeOK
  /\ ActiveIndexExact
  /\ LiveWatchHasActiveRow
  /\ ReleasedIffEnded
  /\ LiveWatchHasWorker
  /\ GoroutinesHaveWatch
  /\ BudgetNotSpent
  /\ WatchHasRow

(***************************************************************************)
(* The records the manager writes.                                         *)
(***************************************************************************)

\* A record a watch may hold: released if and only if ended.
Sound(r) == /\ r \in Watch
            /\ r.terminal <=> r.token = Nil
            /\ r.token = r.client
            /\ r.terminal => r.cancelled
            /\ ~r.terminal => /\ ~r.cancelled /\ r.status = "WATCHING"
                              /\ r.fails < Threshold

\* A live watch holds such a record.
LEMMA LiveIsSound ==
  ASSUME IInv, NEW w \in Ids, Live(w)
  PROVE  Sound(watches[w])
BY DEF IInv, TypeOK, ReleasedIffEnded, LiveWatchHasActiveRow, BudgetNotSpent, Live, Sound

\* What Close and finishLocked make of a record of a watch is one.
LEMMA EndedType ==
  ASSUME NEW r \in Watch, NEW status \in EndStatus, NEW reason \in Reason \union {Nil}
  PROVE  LET e == Ended(r, status, reason)
         IN e \in Watch /\ e.terminal = TRUE /\ e.token = Nil /\ e.client = Nil
BY DEF Watch, Ended

\* finishLocked and the degraded path turn it into another one, of the same key.
LEMMA EndedIsSound ==
  ASSUME NEW r \in Watch, NEW status \in EndStatus, NEW reason \in Reason \union {Nil}
  PROVE  LET e == [Ended(r, status, reason) EXCEPT !.cancelled = TRUE]
         IN Sound(e) /\ e.terminal /\ e.key = r.key /\ e.status = status
BY DEF Sound, Watch, Ended

LEMMA DegradedIsSound ==
  ASSUME NEW r \in Watch, NEW intended
  PROVE  LET d == Degraded(r, intended)
         IN Sound(d) /\ d.terminal /\ d.key = r.key
<1> DEFINE status == IF intended = "STALE" THEN "STALE" ELSE "FAILED"
           reason == IF intended = "STALE" THEN Nil ELSE "INTERNAL_ERROR"
<1>1. status \in EndStatus /\ reason \in Reason \union {Nil}
  BY DEF EndStatus, Reason
<1>2. Degraded(r, intended) = [Ended(r, status, reason) EXCEPT !.cancelled = TRUE]
  BY DEF Degraded
<1> HIDE DEF status, reason
<1> QED BY <1>1, <1>2, EndedIsSound

\* The row of a record.
LEMMA RowForType ==
  ASSUME NEW r \in Watch
  PROVE  /\ RowFor(r) \in Row
         /\ RowFor(r).active <=> ~r.terminal
         /\ RowFor(r).key = r.key
         /\ RowFor(r).status = r.status
BY DEF RowFor, Row, Watch

(***************************************************************************)
(* What a write of one live watch preserves.                               *)
(***************************************************************************)

\* persistLocked and persistOrDegradeLocked on a live watch: the index stays
\* exact and live watches keep their active rows, whether SQLite accepts or not.
LEMMA PersistPreserves ==
  ASSUME IInv, NEW w \in Ids, Live(w),
         NEW r, Sound(r), r.key = watches[w].key,
         NEW d, Sound(d), d.key = watches[w].key,
         Persist(w, r, d)
  PROVE  /\ watches' = [watches EXCEPT ![w] = r] \/ watches' = [watches EXCEPT ![w] = d]
         /\ watches' \in [Ids -> Watch \union {Nil}]
         /\ active' \in [Keys -> Ids \union {Nil}]
         /\ rows' \in [Ids -> Row \union {Nil}]
         /\ faults' \in 0..MaxFaults
         /\ \A k \in Keys : active'[k] # Nil => active'[k] = active[k]
         /\ ActiveIndexExact'
         /\ LiveWatchHasActiveRow'
         /\ WatchHasRow'
<1>1. r \in Watch /\ d \in Watch /\ watches[w] \in Watch /\ watches[w].key \in Keys
  BY DEF IInv, TypeOK, Live, Sound, Watch
<1>2. Nil \notin Watch /\ Nil \notin Ids /\ Nil \notin Row
  BY Constants, NilIsNoRecord
<1>3. PICK x \in {r, d} : Install(w, x)
  BY DEF Persist
<1>4. /\ watches' = [watches EXCEPT ![w] = x]
      /\ active' = IF x.terminal THEN [active EXCEPT ![x.key] = Nil] ELSE active
      /\ Sound(x) /\ x \in Watch /\ x.key = watches[w].key
  BY <1>1, <1>3 DEF Install
<1>5. rows' \in [Ids -> Row \union {Nil}] /\ faults' \in 0..MaxFaults
  BY <1>1, RowForType, Constants
     DEF Persist, UpsertReviewWatch, UpsertRefused, Fault, IInv, TypeOK
<1>6. watches' \in [Ids -> Watch \union {Nil}] /\ active' \in [Keys -> Ids \union {Nil}]
  BY <1>4 DEF IInv, TypeOK
<1>7. ActiveIndexExact'
  BY <1>1, <1>2, <1>4 DEF IInv, TypeOK, ActiveIndexExact, Live
<1>8. LiveWatchHasActiveRow'
  <2> SUFFICES ASSUME NEW v \in Ids, Live(v)'
               PROVE  /\ ActiveRow(v)'
                      /\ rows'[v].key = watches'[v].key
                      /\ rows'[v].status = "WATCHING" /\ watches'[v].status = "WATCHING"
    BY DEF LiveWatchHasActiveRow
  <2>1. CASE v # w
    <3>1. watches'[v] = watches[v] /\ rows'[v] = rows[v]
      BY <1>4, <2>1 DEF Persist, UpsertReviewWatch, UpsertRefused, IInv, TypeOK
    <3> QED BY <3>1 DEF IInv, LiveWatchHasActiveRow, Live, ActiveRow
  <2>2. CASE v = w
    <3>1. watches'[w] = x /\ ~x.terminal /\ x.status = "WATCHING"
      BY <1>4, <2>2 DEF Live, Sound, IInv, TypeOK
    <3>2. CASE UpsertReviewWatch(w, r) /\ Install(w, r)
      <4>1. watches'[w] = r
        BY <3>2 DEF Install, IInv, TypeOK
      <4>2. rows'[w] = RowFor(r)
        BY <3>2 DEF UpsertReviewWatch, IInv, TypeOK
      <4> QED BY <1>1, <1>2, <2>2, <3>1, <4>1, <4>2, RowForType DEF ActiveRow
    <3>3. CASE UpsertRefused(w, r)
      BY <1>4, <2>2, <3>1, <3>3 DEF UpsertRefused, IInv, LiveWatchHasActiveRow, ActiveRow
    <3> QED BY <3>2, <3>3 DEF Persist
  <2> QED BY <2>1, <2>2
<1>9. \A k \in Keys : active'[k] # Nil => active'[k] = active[k]
  BY <1>4 DEF IInv, TypeOK
<1>10. WatchHasRow'
  <2>1. \A v \in Ids : rows[v] # Nil => rows'[v] # Nil
    BY <1>1, <1>2, RowForType DEF Persist, UpsertReviewWatch, UpsertRefused, IInv, TypeOK
  <2> QED BY <1>4, <2>1 DEF IInv, WatchHasRow, TypeOK, Live
<1> QED BY <1>4, <1>5, <1>6, <1>7, <1>8, <1>9, <1>10

\* The variables the watches and their rows are not made of keep their types.
AroundTypeOK ==
  /\ phase \in {"open", "closing", "closed"}
  /\ triggers \in Seq([pr: PRs, done: BOOLEAN])
  /\ Len(triggers) <= MaxTriggers
  /\ worker \in [Ids -> Worker]
  /\ call \in [Callers -> Calls]
  /\ notes \subseteq Ids
  /\ seen \in [Ids -> View \union {Nil}]
  /\ crashes \in 0..MaxCrashes

\* A step of a worker or a caller that writes one live watch.
LEMMA WritePreserves ==
  ASSUME IInv, NEW w \in Ids, Live(w),
         NEW r, Sound(r), r.key = watches[w].key,
         NEW d, Sound(d), d.key = watches[w].key,
         Persist(w, r, d),
         AroundTypeOK',
         UNCHANGED <<latest, phase>>,
         \A v \in Ids \ {w} : worker'[v] = worker[v],
         watches'[w].terminal \/ worker'[w].pc \notin {"none", "exited"},
         notes' \subseteq notes \union {w}
  PROVE  IInv'
<1>1. /\ watches' = [watches EXCEPT ![w] = r] \/ watches' = [watches EXCEPT ![w] = d]
      /\ watches' \in [Ids -> Watch \union {Nil}]
      /\ active' \in [Keys -> Ids \union {Nil}]
      /\ rows' \in [Ids -> Row \union {Nil}]
      /\ faults' \in 0..MaxFaults
      /\ \A k \in Keys : active'[k] # Nil => active'[k] = active[k]
      /\ ActiveIndexExact'
      /\ LiveWatchHasActiveRow'
      /\ WatchHasRow'
  BY PersistPreserves
<1>2. PICK x \in {r, d} : watches' = [watches EXCEPT ![w] = x]
  BY <1>1
<1>3. Sound(x) /\ x # Nil /\ watches'[w] = x /\ \A v \in Ids \ {w} : watches'[v] = watches[v]
  BY <1>2, NilIsNoRecord DEF Sound, IInv, TypeOK
<1>4. TypeOK'
  BY <1>1 DEF AroundTypeOK, IInv, TypeOK
<1>5. ReleasedIffEnded'
  BY <1>3 DEF IInv, ReleasedIffEnded, Sound
<1>6. LiveWatchHasWorker'
  BY <1>3 DEF IInv, LiveWatchHasWorker, Live
<1>8. GoroutinesHaveWatch'
  BY <1>3 DEF IInv, GoroutinesHaveWatch
<1>9. BudgetNotSpent'
  BY <1>3 DEF IInv, BudgetNotSpent, Live, Sound
<1> QED BY <1>1, <1>4, <1>5, <1>6, <1>8, <1>9 DEF IInv

\* A step that leaves the watches and their rows alone.
LEMMA QuietPreserves ==
  ASSUME IInv,
         UNCHANGED <<memory, rows>>,
         AroundTypeOK', faults' \in 0..MaxFaults,
         \A w \in Ids : /\ Live(w) => worker'[w].pc \notin {"none", "exited"}
                        /\ worker'[w].pc # "none" => worker[w].pc # "none",
         notes' \subseteq notes
  PROVE  IInv'
<1>1. TypeOK'
  BY DEF AroundTypeOK, IInv, TypeOK, memory
<1>2. /\ ActiveIndexExact' /\ LiveWatchHasActiveRow' /\ ReleasedIffEnded'
      /\ BudgetNotSpent' /\ WatchHasRow'
  BY DEF IInv, ActiveIndexExact, LiveWatchHasActiveRow, ReleasedIffEnded,
         BudgetNotSpent, WatchHasRow, Live, ActiveRow, memory
<1>3. LiveWatchHasWorker'
  BY DEF IInv, LiveWatchHasWorker, Live, memory
<1>4. GoroutinesHaveWatch'
  BY DEF IInv, GoroutinesHaveWatch, memory
<1> QED BY <1>1, <1>2, <1>3, <1>4 DEF IInv

(***************************************************************************)
(* The shapes the worker's steps are made of.                              *)
(***************************************************************************)

\* GoTo moves one worker and forgets its locals.
LEMMA GoToMoves ==
  ASSUME IInv, NEW w \in Ids, NEW pc \in WorkerPc, GoTo(w, pc)
  PROVE  /\ worker' \in [Ids -> Worker]
         /\ worker'[w].pc = pc
         /\ \A v \in Ids \ {w} : worker'[v] = worker[v]
<1> DEFINE b == [NoWorker EXCEPT !.pc = pc]
<1>1. 0 \in TriggerRef
  BY Constants DEF TriggerRef
<1>2. b \in Worker /\ b.pc = pc
  BY <1>1 DEF NoWorker, Worker
<1>3. worker' = [worker EXCEPT ![w] = b] /\ worker \in [Ids -> Worker]
  BY DEF GoTo, IInv, TypeOK
<1> HIDE DEF b
<1> QED BY <1>2, <1>3

\* finishLocked at the end of a worker's step or in a cancel.
LEMMA FinishLockedPreserves ==
  ASSUME IInv, NEW w \in Ids, Live(w),
         NEW r, r \in Watch, r.key = watches[w].key,
         NEW status \in EndStatus, NEW reason \in Reason \union {Nil},
         FinishLocked(w, r, status, reason),
         worker' \in [Ids -> Worker],
         \A v \in Ids \ {w} : worker'[v] = worker[v],
         call' \in [Callers -> Calls],
         UNCHANGED <<latest, phase, triggers, seen, crashes>>
  PROVE  IInv'
<1> DEFINE e == [Ended(r, status, reason) EXCEPT !.cancelled = TRUE]
           d == Degraded(e, status)
<1>1. Sound(e) /\ e.terminal /\ e.key = watches[w].key
  BY EndedIsSound
<1>2. Sound(d) /\ d.terminal /\ d.key = watches[w].key
  BY <1>1, DegradedIsSound DEF Sound
<1>3. Persist(w, e, d) /\ notes' = notes \union {w}
  BY DEF FinishLocked, PersistOrDegrade
<1> HIDE DEF e, d
<1>4. watches'[w].terminal
  BY <1>1, <1>2, <1>3 DEF Persist, Install, IInv, TypeOK
<1>5. AroundTypeOK'
  BY <1>3 DEF AroundTypeOK, IInv, TypeOK
<1> QED BY <1>1, <1>2, <1>3, <1>4, <1>5, WritePreserves

\* finishState and markStale, and the worker exits.
LEMMA FinishStatePreserves ==
  ASSUME IInv, NEW w \in Ids, worker[w].pc # "none",
         NEW status \in EndStatus, NEW reason \in Reason \union {Nil},
         FinishState(w, status, reason), Exits(w),
         UNCHANGED <<latest, phase, triggers, call, seen, crashes>>
  PROVE  IInv'
<1>1. watches[w] # Nil /\ watches[w] \in Watch /\ w # Nil
  BY Constants DEF IInv, GoroutinesHaveWatch, TypeOK
<1>2. /\ worker' \in [Ids -> Worker] /\ worker'[w].pc = "exited"
      /\ \A v \in Ids \ {w} : worker'[v] = worker[v]
  BY GoToMoves DEF Exits, WorkerPc
<1>3. CASE watches[w].terminal
  <2>1. UNCHANGED <<memory, rows, faults, notes>>
    BY <1>3 DEF FinishState, memory
  <2>2. AroundTypeOK' /\ faults' \in 0..MaxFaults
    BY <1>2, <2>1 DEF AroundTypeOK, IInv, TypeOK, memory
  <2>3. \A v \in Ids : /\ Live(v) => worker'[v].pc \notin {"none", "exited"}
                       /\ worker'[v].pc # "none" => worker[v].pc # "none"
    BY <1>2, <1>3 DEF IInv, LiveWatchHasWorker, Live
  <2> QED BY <2>1, <2>2, <2>3, QuietPreserves
<1>4. CASE ~watches[w].terminal
  <2>1. Live(w) /\ FinishLocked(w, watches[w], status, reason)
    BY <1>1, <1>4 DEF FinishState, Live
  <2>2. call' \in [Callers -> Calls]
    BY DEF IInv, TypeOK
  <2> QED BY <1>1, <1>2, <2>1, <2>2, FinishLockedPreserves
<1> QED BY <1>3, <1>4, <1>1 DEF Watch

\* persistOrDegradeLocked of a watch that goes on: the worker waits for the next
\* tick, or exits if the write was refused.
LEMMA ProgressPreserves ==
  ASSUME IInv, NEW w \in Ids, Live(w),
         NEW r, Sound(r), ~r.terminal, r.key = watches[w].key,
         PersistOrDegrade(w, r, "WATCHING"),
         GoTo(w, IF watches'[w].terminal THEN "exited" ELSE "wait"),
         notes' \subseteq notes \union {w},
         UNCHANGED <<latest, phase, triggers, call, seen, crashes>>
  PROVE  IInv'
<1> DEFINE d == Degraded(r, "WATCHING")
           pc == IF watches'[w].terminal THEN "exited" ELSE "wait"
<1>1. Sound(d) /\ d.key = watches[w].key /\ Persist(w, r, d)
  BY DegradedIsSound DEF Sound, PersistOrDegrade
<1>2. pc \in WorkerPc
  BY DEF WorkerPc
<1>3. /\ worker' \in [Ids -> Worker]
      /\ worker'[w].pc = pc
      /\ \A v \in Ids \ {w} : worker'[v] = worker[v]
  BY <1>2, GoToMoves
<1>4. watches'[w].terminal \/ worker'[w].pc \notin {"none", "exited"}
  BY <1>3
<1>5. AroundTypeOK'
  BY <1>3 DEF AroundTypeOK, IInv, TypeOK
<1> HIDE DEF d, pc
<1> QED BY <1>1, <1>3, <1>4, <1>5, WritePreserves

(***************************************************************************)
(* Every action preserves the invariant.                                   *)
(***************************************************************************)

LEMMA InitIInv == Init => IInv
<1> SUFFICES ASSUME Init PROVE IInv
  OBVIOUS
<1>1. TypeOK
  BY Constants DEF Init, TypeOK, NoWorker, Worker, WorkerPc, TriggerRef, Calls
<1>2. ActiveIndexExact
  BY Constants DEF Init, ActiveIndexExact, Live
<1> QED BY <1>1, <1>2 DEF Init, IInv, LiveWatchHasActiveRow, ReleasedIffEnded,
      LiveWatchHasWorker, GoroutinesHaveWatch, BudgetNotSpent,
      WatchHasRow, NoWorker, Live

\* Handlers that do not write a watch: they change call and trigger_log only.
LEMMA HandlerPreserves ==
  ASSUME IInv,
         UNCHANGED <<memory, rows, worker, notes, seen, crashes>>,
         call' \in [Callers -> Calls], faults' \in 0..MaxFaults,
         triggers' \in Seq([pr: PRs, done: BOOLEAN]), Len(triggers') <= MaxTriggers
  PROVE  IInv'
<1>1. AroundTypeOK'
  BY DEF AroundTypeOK, IInv, TypeOK, memory
<1>2. \A w \in Ids : Live(w) => worker'[w].pc \notin {"none", "exited"}
  BY DEF IInv, LiveWatchHasWorker
<1> QED BY <1>1, <1>2, QuietPreserves

\* Completing a trigger_log row keeps the type of the table.
LEMMA UpdateCompletedAtType ==
  ASSUME TypeOK, NEW i, UpdateCompletedAt(i)
  PROVE  triggers' \in Seq([pr: PRs, done: BOOLEAN]) /\ Len(triggers') <= MaxTriggers
<1> DEFINE S == [pr: PRs, done: BOOLEAN]
<1>1. triggers \in Seq(S) /\ Len(triggers) <= MaxTriggers
  BY DEF TypeOK
<1>2. CASE i \in 1..Len(triggers)
  <2> DEFINE e == [triggers[i] EXCEPT !.done = TRUE]
  <2>1. e \in S
    <3>1. triggers[i] \in S
      <4> HIDE DEF S
      <4> QED BY <1>1, <1>2, ElementOfSeq
    <3> QED BY <3>1
  <2>2. triggers' = [triggers EXCEPT ![i] = e]
    BY DEF UpdateCompletedAt
  <2> HIDE DEF e, S
  <2>3. triggers' \in Seq(S) /\ Len(triggers') = Len(triggers)
    BY <1>1, <1>2, <2>1, <2>2, ExceptSeq
  <2> QED BY <1>1, <2>3 DEF S
<1>3. CASE i \notin 1..Len(triggers)
  <2>1. triggers' = triggers
    BY <1>1, <1>3 DEF UpdateCompletedAt
  <2> QED BY <1>1, <2>1
<1> QED BY <1>2, <1>3

\* Start: the read before the lock, and its three outcomes under the lock.
LEMMA StartPreserves ==
  ASSUME IInv, NEW c \in Callers,
         \/ \E k \in Keys, t \in Tokens : StartRead(c, k, t)
         \/ StartClosed(c) \/ StartReuse(c) \/ StartNew(c)
  PROVE  IInv'
<1>1. TypeOK /\ Idle \in Calls
  BY DEF IInv, Calls
<1>2. ASSUME NEW k \in Keys, NEW t \in Tokens, StartRead(c, k, t)
      PROVE  IInv'
  <2>1. \A entry \in LatestTriggers(PrOf(k)) : entry \in TriggerRef
    BY <1>1, LatestTriggersType DEF Keys, PrOf
  <2>2. call' \in [Callers -> Calls]
    BY <1>1, <1>2, <2>1 DEF StartRead, TypeOK, Calls
  <2> QED BY <1>1, <1>2, <2>2, HandlerPreserves DEF StartRead, TypeOK
<1>3. CASE StartClosed(c)
  BY <1>1, <1>3, HandlerPreserves DEF StartClosed, Returns, TypeOK
<1>4. CASE StartReuse(c)
  <2> DEFINE w == active[call[c].key]
             r == Reused(watches[w], call[c].token, call[c].trigger)
  <2>1. call[c] \in [op: {"start"}, key: Keys, token: Tokens, trigger: TriggerRef]
    BY <1>1, <1>4 DEF StartReuse, TypeOK, Calls, Idle
  <2>2. Live(w) /\ w \in Ids /\ watches[w] \in Watch
    BY <1>1, <1>4, <2>1 DEF StartReuse, TypeOK, Live
  <2>3. Sound(watches[w])
    BY <2>2, LiveIsSound
  <2>4. Sound(r) /\ r.key = watches[w].key /\ ~r.terminal
    <3>1. watches[w].terminal = FALSE /\ Nil \notin Tokens
          /\ 0 \in 0..Threshold /\ 0 < Threshold
      BY <2>2, Constants DEF Live, Watch
    <3> HIDE DEF w
    <3>2. CASE watches[w].token = call[c].token
      BY <2>1, <2>2, <2>3, <3>1, <3>2 DEF Reused, Linked, Sound, Watch
    <3>3. CASE watches[w].token # call[c].token
      BY <2>1, <2>2, <2>3, <3>1, <3>3 DEF Reused, Linked, Sound, Watch
    <3> QED BY <3>2, <3>3
  <2>5. UNCHANGED <<latest, phase, triggers, worker, notes, seen, crashes>>
        /\ call' \in [Callers -> Calls]
    BY <1>1, <1>4 DEF StartReuse, Returns, TypeOK
  <2>6. CASE r = watches[w]
    <3>1. UNCHANGED <<watches, active, rows, faults>>
      BY <1>4, <2>6 DEF StartReuse
    <3> QED BY <1>1, <2>5, <3>1, HandlerPreserves DEF memory, TypeOK
  <2>7. CASE r # watches[w]
    <3>1. Persist(w, r, r)
      BY <1>4, <2>7 DEF StartReuse
    <3>2. worker'[w].pc \notin {"none", "exited"}
      BY <2>2, <2>5 DEF IInv, LiveWatchHasWorker
    <3>3. AroundTypeOK'
      BY <1>1, <2>5 DEF AroundTypeOK, TypeOK
    <3> HIDE DEF w, r
    <3> QED BY <2>2, <2>4, <2>5, <3>1, <3>2, <3>3, WritePreserves
  <2> QED BY <2>6, <2>7
<1>5. CASE StartNew(c)
  <2> DEFINE k == call[c].key
  <2>1. call[c] \in [op: {"start"}, key: Keys, token: Tokens, trigger: TriggerRef]
    BY <1>1, <1>5 DEF StartNew, TypeOK, Calls, Idle
  <2>2. ~Live(active[k]) /\ phase = "open"
    BY <1>5 DEF StartNew
  <2>3. \A v \in Ids : ~(Live(v) /\ watches[v].key = k)
    BY <2>1, <2>2 DEF IInv, ActiveIndexExact
  <2>4. active[k] = Nil
    BY <1>1, <2>1, <2>2 DEF IInv, ActiveIndexExact, TypeOK
  <2>5. PICK w \in Fresh :
          LET r == NewWatch(k, call[c].token, call[c].trigger)
          IN \/ /\ UpsertReviewWatch(w, r)
                /\ watches' = [watches EXCEPT ![w] = r]
                /\ active' = [active EXCEPT ![k] = w]
                /\ latest' = [latest EXCEPT ![k] = w]
                /\ worker' = [worker EXCEPT ![w].pc = "wait"]
                /\ seen' = [seen EXCEPT ![w] = [status |-> "WATCHING", review |-> Nil]]
             \/ /\ UpsertRefused(w, r)
                /\ active' = [active EXCEPT ![k] = Nil]
                /\ UNCHANGED <<watches, latest, worker, seen>>
    BY <1>5 DEF StartNew
  <2> DEFINE r == NewWatch(k, call[c].token, call[c].trigger)
  <2>6. Sound(r) /\ ~r.terminal /\ r.key = k /\ r.status = "WATCHING" /\ r # Nil
    <3>1. 0 \in 0..Threshold /\ 0 < Threshold /\ Nil \notin Tokens /\ call[c].token \in Tokens
          /\ call[c].trigger \in TriggerRef /\ k \in Keys
      BY <2>1, Constants
    <3> HIDE DEF k
    <3>2. r \in Watch
      BY <3>1 DEF NewWatch, Watch
    <3>3. /\ r.token = call[c].token /\ r.client = call[c].token
          /\ r.terminal = FALSE /\ r.cancelled = FALSE
          /\ r.status = "WATCHING" /\ r.key = k /\ r.fails = 0
      BY DEF NewWatch
    <3> QED BY <3>1, <3>2, <3>3, NilIsNoRecord DEF Sound
  <2>7. w \in Ids /\ rows[w] = Nil /\ ~Live(w)
    BY <2>5 DEF Fresh, IInv, LiveWatchHasActiveRow, ActiveRow
  <2>8. UNCHANGED <<phase, triggers, notes, crashes>> /\ call' \in [Callers -> Calls]
    BY <1>1, <1>5 DEF StartNew, Returns, TypeOK
  <2>9. CASE UpsertRefused(w, r) /\ active' = [active EXCEPT ![k] = Nil]
             /\ UNCHANGED <<watches, latest, worker, seen>>
    <3>1. active' = active
      BY <1>1, <2>1, <2>4, <2>9 DEF TypeOK
    <3>2. UNCHANGED rows /\ faults' \in 0..MaxFaults
      BY <1>1, <2>9, Constants DEF UpsertRefused, Fault, TypeOK
    <3> HIDE DEF r
    <3> QED BY <1>1, <2>8, <2>9, <3>1, <3>2, HandlerPreserves DEF memory, TypeOK
  <2>10. CASE /\ UpsertReviewWatch(w, r)
              /\ watches' = [watches EXCEPT ![w] = r]
              /\ active' = [active EXCEPT ![k] = w]
              /\ latest' = [latest EXCEPT ![k] = w]
              /\ worker' = [worker EXCEPT ![w].pc = "wait"]
              /\ seen' = [seen EXCEPT ![w] = [status |-> "WATCHING", review |-> Nil]]
    <3> HIDE DEF r, k
    <3>1. k \in Keys /\ r \in Watch
      BY <2>1, <2>6 DEF k, Sound
    <3>2. /\ watches'[w] = r /\ \A v \in Ids \ {w} : watches'[v] = watches[v]
          /\ rows'[w] = RowFor(r) /\ \A v \in Ids \ {w} : rows'[v] = rows[v]
          /\ worker'[w].pc = "wait" /\ \A v \in Ids \ {w} : worker'[v] = worker[v]
      BY <1>1, <2>7, <2>10 DEF TypeOK, UpsertReviewWatch, Worker
    <3>3. TypeOK'
      <4>1. watches' \in [Ids -> Watch \union {Nil}]
        BY <1>1, <2>10, <3>1 DEF TypeOK
      <4>2. active' \in [Keys -> Ids \union {Nil}] /\ latest' \in [Keys -> Ids \union {Nil}]
        BY <1>1, <2>7, <2>10 DEF TypeOK
      <4>3. rows' \in [Ids -> Row \union {Nil}] /\ faults' \in 0..MaxFaults
        BY <1>1, <2>10, <3>1, RowForType DEF TypeOK, UpsertReviewWatch
      <4>4. worker' \in [Ids -> Worker]
        <5>1. [worker[w] EXCEPT !.pc = "wait"] \in Worker
          <6>1. worker[w] \in Worker /\ "wait" \in WorkerPc
            BY <1>1, <2>7 DEF TypeOK, WorkerPc
          <6> QED BY <6>1 DEF Worker
        <5> QED BY <1>1, <2>10, <5>1 DEF TypeOK
      <4>5. seen' \in [Ids -> View \union {Nil}]
        BY <1>1, <2>10 DEF TypeOK, View
      <4> QED BY <1>1, <2>8, <4>1, <4>2, <4>3, <4>4, <4>5 DEF TypeOK
    <3>4. ActiveIndexExact'
      BY <1>1, <2>3, <2>6, <2>7, <2>10, <3>1, <3>2, Constants
         DEF IInv, ActiveIndexExact, TypeOK, Live
    <3>5. LiveWatchHasActiveRow'
      BY <2>6, <3>1, <3>2, RowForType, NilIsNoRecord
         DEF IInv, LiveWatchHasActiveRow, Live, ActiveRow
    <3>6. ReleasedIffEnded'
      BY <2>6, <2>8, <3>2 DEF IInv, ReleasedIffEnded, Sound
    <3>7. LiveWatchHasWorker'
      BY <2>2, <2>8, <3>2 DEF IInv, LiveWatchHasWorker, Live
    <3>9. GoroutinesHaveWatch'
      BY <2>6, <2>8, <3>2 DEF IInv, GoroutinesHaveWatch
    <3>10. BudgetNotSpent'
      BY <2>6, <3>2 DEF IInv, BudgetNotSpent, Live, Sound
    <3>11. WatchHasRow'
      BY <3>1, <3>2, RowForType, NilIsNoRecord DEF IInv, WatchHasRow
    <3> QED BY <3>3, <3>4, <3>5, <3>6, <3>7, <3>9, <3>10, <3>11 DEF IInv
  <2> QED BY <2>5, <2>9, <2>10
<1> QED BY <1>2, <1>3, <1>4, <1>5

\* Cancel, by ID or by key, and the trigger_log update that follows it.
LEMMA CancelPreserves ==
  ASSUME IInv, NEW c \in Callers,
         \/ \E l \in Logins, w \in Ids : CancelByID(c, l, w)
         \/ \E k \in Keys : CancelLatest(c, k)
         \/ CancelComplete(c)
  PROVE  IInv'
<1>1. TypeOK /\ Idle \in Calls
  BY DEF IInv, Calls
<1>2. ASSUME NEW w \in Ids, Live(w), Cancel(c, w)
      PROVE  IInv'
  <2>1. watches[w] \in Watch
    BY <1>1, <1>2 DEF TypeOK, Live
  <2>2. call' \in [Callers -> Calls]
    <3>1. watches[w].trigger # 0 =>
            [op |-> "complete", trigger |-> watches[w].trigger] \in Calls
      BY <2>1 DEF Watch, Calls
    <3> QED BY <1>1, <1>2, <3>1 DEF Cancel, TypeOK
  <2>3. "CANCELLED" \in EndStatus /\ Nil \in Reason \union {Nil}
    BY DEF EndStatus
  <2>4. /\ FinishLocked(w, watches[w], "CANCELLED", Nil)
        /\ UNCHANGED <<latest, phase, triggers, seen, crashes>>
        /\ worker' \in [Ids -> Worker]
        /\ \A v \in Ids \ {w} : worker'[v] = worker[v]
    BY <1>1, <1>2 DEF Cancel, TypeOK
  <2> QED BY <1>2, <2>1, <2>2, <2>3, <2>4, FinishLockedPreserves
<1>3. ASSUME NEW l \in Logins, NEW w \in Ids, CancelByID(c, l, w)
      PROVE  IInv'
  BY <1>2, <1>3 DEF CancelByID
<1>4. ASSUME NEW k \in Keys, CancelLatest(c, k)
      PROVE  IInv'
  <2>1. active[k] \in Ids
    BY <1>1, <1>4 DEF CancelLatest, Live, TypeOK
  <2> QED BY <1>2, <1>4, <2>1 DEF CancelLatest
<1>5. CASE CancelComplete(c)
  <2>1. triggers' \in Seq([pr: PRs, done: BOOLEAN]) /\ Len(triggers') <= MaxTriggers
    BY <1>1, <1>5, UpdateCompletedAtType DEF CancelComplete, TypeOK
  <2>2. faults' \in 0..MaxFaults /\ call' \in [Callers -> Calls]
    BY <1>1, <1>5, Constants DEF CancelComplete, Fault, Returns, TypeOK
  <2> QED BY <1>5, <2>1, <2>2, HandlerPreserves DEF CancelComplete
<1> QED BY <1>3, <1>4, <1>5

\* The other tools, on trigger_log.
LEMMA ToolPreserves ==
  ASSUME IInv, NEW pr \in PRs, RequestReview(pr) \/ SettleLatest(pr)
  PROVE  IInv'
<1>1. TypeOK
  BY DEF IInv
<1>2. CASE RequestReview(pr)
  <2>1. triggers' \in Seq([pr: PRs, done: BOOLEAN]) /\ Len(triggers') = Len(triggers) + 1
    BY <1>1, <1>2 DEF RequestReview, TypeOK
  <2>2. Len(triggers') <= MaxTriggers
    <3>1. Len(triggers) \in Nat /\ MaxTriggers \in Nat /\ Len(triggers) < MaxTriggers
      BY <1>1, <1>2, Constants DEF RequestReview, TypeOK
    <3> QED BY <2>1, <3>1
  <2> QED BY <1>1, <1>2, <2>1, <2>2, HandlerPreserves DEF RequestReview, TypeOK
<1>3. CASE SettleLatest(pr)
  <2>1. triggers' \in Seq([pr: PRs, done: BOOLEAN]) /\ Len(triggers') <= MaxTriggers
    <3>1. PICK i \in RowsOf(pr) : UpdateCompletedAt(i)
      BY <1>3 DEF SettleLatest
    <3> QED BY <1>1, <3>1, UpdateCompletedAtType
  <2> QED BY <1>1, <1>3, <2>1, HandlerPreserves DEF SettleLatest, TypeOK
<1> QED BY <1>2, <1>3

\* A step of a worker that writes no watch and keeps polling, or exits after
\* the watch ended.
LEMMA WorkerMovePreserves ==
  ASSUME IInv, NEW w \in Ids, worker[w].pc # "none",
         UNCHANGED <<memory, rows, call, notes, seen, crashes>>,
         faults' \in 0..MaxFaults,
         triggers' \in Seq([pr: PRs, done: BOOLEAN]), Len(triggers') <= MaxTriggers,
         worker' \in [Ids -> Worker],
         \A v \in Ids \ {w} : worker'[v] = worker[v],
         ~watches[w].terminal => worker'[w].pc \notin {"none", "exited"}
  PROVE  IInv'
<1>1. AroundTypeOK'
  BY DEF AroundTypeOK, IInv, TypeOK, memory
<1>2. \A v \in Ids : /\ Live(v) => worker'[v].pc \notin {"none", "exited"}
                     /\ worker'[v].pc # "none" => worker[v].pc # "none"
  BY DEF IInv, LiveWatchHasWorker, Live
<1> QED BY <1>1, <1>2, QuietPreserves

\* The worker's steps up to and around the GitHub call.
LEMMA PollPreserves ==
  ASSUME IInv, NEW w \in Ids,
         \/ PollExpired(w) \/ PollNoClient(w) \/ PollCall(w) \/ WorkerStop(w)
         \/ PollReturns(w) \/ PollComplete(w) \/ PollRefused(w) \/ PollBroken(w)
         \/ WorkerPanic(w)
  PROVE  IInv'
<1>1. TypeOK /\ worker[w] \in Worker /\ worker[w].pc # "none"
  BY DEF IInv, TypeOK, PollExpired, PollNoClient, PollCall, WorkerStop, PollReturns,
         PollCancelled, PollFailure, HandleUpstreamFailure, PollRead, PollComplete,
         PollRefused, PollBroken, WorkerPanic, At
<1>2. watches[w] # Nil /\ watches[w] \in Watch /\ w # Nil
  BY <1>1, Constants DEF IInv, GoroutinesHaveWatch, TypeOK
<1>3. Nil \in Reason \union {Nil} /\ "INTERNAL_ERROR" \in Reason \union {Nil}
      /\ {"TIMEOUT", "FAILED", "STALE", "RATE_LIMITED"} \subseteq EndStatus
  BY DEF Reason, EndStatus
<1>4. /\ triggers \in Seq([pr: PRs, done: BOOLEAN]) /\ Len(triggers) <= MaxTriggers
      /\ faults \in 0..MaxFaults
  BY <1>1 DEF TypeOK
<1>5. CASE PollExpired(w)
  BY <1>1, <1>3, <1>5, FinishStatePreserves DEF PollExpired
<1>6. CASE PollNoClient(w)
  BY <1>1, <1>3, <1>6, FinishStatePreserves DEF PollNoClient
<1>7. CASE PollBroken(w)
  BY <1>1, <1>3, <1>7, FinishStatePreserves DEF PollBroken
<1>8. CASE WorkerPanic(w)
  BY <1>1, <1>3, <1>8, FinishStatePreserves DEF WorkerPanic
<1>9. CASE PollFailure(w)
  <2>1. PICK e \in Errors : FinishState(w, IF e = "RATE_LIMITED" THEN e ELSE "FAILED",
                                           IF e = "RATE_LIMITED" THEN Nil ELSE e)
    BY <1>9 DEF PollFailure
  <2> DEFINE status == IF e = "RATE_LIMITED" THEN e ELSE "FAILED"
             reason == IF e = "RATE_LIMITED" THEN Nil ELSE e
  <2>2. status \in EndStatus /\ reason \in Reason \union {Nil}
    BY Constants DEF EndStatus, Reason
  <2> HIDE DEF status, reason
  <2>3. FinishState(w, status, reason)
    BY <2>1 DEF status, reason
  <2> QED BY <1>1, <1>9, <2>2, <2>3, FinishStatePreserves DEF PollFailure
<1>10. CASE PollCall(w)
  <2>1. worker' \in [Ids -> Worker]
    <3>1. watches[w].client \in Tokens \union {Nil} /\ "call" \in WorkerPc
      BY <1>2 DEF Watch, WorkerPc
    <3>2. [worker[w] EXCEPT !.pc = "call", !.client = watches[w].client] \in Worker
      BY <1>1, <3>1 DEF Worker
    <3>3. worker' = [worker EXCEPT ![w] =
                      [worker[w] EXCEPT !.pc = "call", !.client = watches[w].client]]
      BY <1>1, <1>10 DEF PollCall, TypeOK
    <3> QED BY <1>1, <3>2, <3>3 DEF TypeOK
  <2>2. worker'[w].pc = "call" /\ \A v \in Ids \ {w} : worker'[v] = worker[v]
    BY <1>1, <1>10 DEF PollCall, TypeOK, Worker
  <2> QED BY <1>1, <1>4, <1>10, <2>1, <2>2, WorkerMovePreserves DEF PollCall
<1>11. CASE WorkerStop(w) \/ PollCancelled(w)
  <2>1. /\ worker' \in [Ids -> Worker]
        /\ \A v \in Ids \ {w} : worker'[v] = worker[v]
    BY <1>11, GoToMoves DEF WorkerStop, PollCancelled, Exits, WorkerPc
  <2>2. watches[w].terminal
    BY <1>2, <1>11 DEF WorkerStop, PollCancelled, IInv, ReleasedIffEnded
  <2> QED BY <1>1, <1>4, <1>11, <2>1, <2>2, WorkerMovePreserves DEF WorkerStop, PollCancelled
<1>12. CASE HandleUpstreamFailure(w)
  <2> DEFINE f == [watches[w] EXCEPT !.fails = @ + 1]
  <2>1. CASE watches[w].terminal /\ Exits(w)
             /\ UNCHANGED <<watches, active, rows, faults, notes>>
    <3>1. /\ worker' \in [Ids -> Worker]
          /\ \A v \in Ids \ {w} : worker'[v] = worker[v]
      BY <2>1, GoToMoves DEF Exits, WorkerPc
    <3> QED BY <1>1, <1>4, <1>12, <2>1, <3>1, WorkerMovePreserves
            DEF HandleUpstreamFailure, memory
  <2>2. CASE ~watches[w].terminal
    <3>1. Live(w) /\ Sound(watches[w])
      BY <1>2, <2>2, LiveIsSound DEF Live
    <3>2. watches[w].fails \in 0..Threshold /\ watches[w].fails < Threshold /\ Threshold \in Nat
      BY <1>2, <2>2, <3>1, Constants DEF Sound, Watch
    <3>3. watches[w].fails + 1 \in 0..Threshold
      BY <3>2
    <3>4. f \in Watch /\ f.key = watches[w].key /\ f.fails = watches[w].fails + 1
      BY <1>2, <3>3 DEF Watch
    <3>5. CASE f.fails >= Threshold
      <4>1. FinishLocked(w, f, "FAILED", "AUTH_EXPIRED") /\ Exits(w)
            /\ UNCHANGED <<latest, phase, triggers, call, seen, crashes>>
        BY <1>12, <2>2, <3>2, <3>4, <3>5 DEF HandleUpstreamFailure
      <4>2. "FAILED" \in EndStatus /\ "AUTH_EXPIRED" \in Reason \union {Nil}
            /\ call' \in [Callers -> Calls]
        BY <1>1, <4>1 DEF EndStatus, Reason, TypeOK
      <4>3. /\ worker' \in [Ids -> Worker]
            /\ \A v \in Ids \ {w} : worker'[v] = worker[v]
        BY <4>1, GoToMoves DEF Exits, WorkerPc
      <4> HIDE DEF f
      <4> QED BY <3>1, <3>4, <4>1, <4>2, <4>3, FinishLockedPreserves
    <3>6. CASE f.fails < Threshold
      <4>1. /\ PersistOrDegrade(w, f, "WATCHING")
            /\ GoTo(w, IF watches'[w].terminal THEN "exited" ELSE "wait")
            /\ notes' = IF watches'[w].terminal THEN notes \union {w} ELSE notes
            /\ UNCHANGED <<latest, phase, triggers, call, seen, crashes>>
        BY <1>12, <2>2, <3>2, <3>4, <3>6 DEF HandleUpstreamFailure
      <4>2. Sound(f) /\ ~f.terminal
        BY <1>2, <2>2, <3>1, <3>4, <3>6 DEF Sound, Watch
      <4>3. notes' \subseteq notes \union {w}
        BY <4>1
      <4> HIDE DEF f
      <4> QED BY <3>1, <3>4, <4>1, <4>2, <4>3, ProgressPreserves
    <3> QED BY <3>2, <3>4, <3>5, <3>6
  <2> QED BY <1>12, <2>1, <2>2 DEF HandleUpstreamFailure
<1>13. CASE PollRead(w)
  <2>1. PICK review \in Observable, low \in BOOLEAN, pc \in {"complete", "apply"},
             e \in LatestTriggers(PrOf(watches[w].key)) :
          worker' = [worker EXCEPT ![w] =
            [pc |-> pc, client |-> Nil, entry |-> e, review |-> review, low |-> low]]
    BY <1>13 DEF PollRead
  <2>2. PrOf(watches[w].key) \in PRs
    BY <1>2 DEF Watch, Keys, PrOf
  <2>3. e \in TriggerRef
    BY <1>1, <2>2, LatestTriggersType
  <2> DEFINE b == [pc |-> pc, client |-> Nil, entry |-> e, review |-> review, low |-> low]
  <2>4. b \in Worker /\ b.pc = pc
    <3>1. e \in TriggerRef /\ review \in ReviewStatus
      BY <2>3, Constants
    <3> QED BY <3>1 DEF Worker, WorkerPc
  <2>5. worker' = [worker EXCEPT ![w] = b] /\ worker \in [Ids -> Worker]
    BY <1>1, <2>1 DEF TypeOK
  <2> HIDE DEF b
  <2>6. /\ worker' \in [Ids -> Worker] /\ worker'[w].pc = pc
        /\ \A v \in Ids \ {w} : worker'[v] = worker[v]
    BY <2>4, <2>5
  <2> QED BY <1>1, <1>4, <1>13, <2>6, WorkerMovePreserves DEF PollRead
<1>14. CASE PollComplete(w)
  <2>1. triggers' \in Seq([pr: PRs, done: BOOLEAN]) /\ Len(triggers') <= MaxTriggers
    BY <1>1, <1>14, UpdateCompletedAtType DEF PollComplete
  <2>2. /\ worker' \in [Ids -> Worker] /\ worker'[w].pc = "apply"
        /\ \A v \in Ids \ {w} : worker'[v] = worker[v]
    <3>1. [worker[w] EXCEPT !.pc = "apply"] \in Worker
      BY <1>1 DEF Worker, WorkerPc
    <3> QED BY <1>1, <1>14, <3>1 DEF PollComplete, TypeOK, Worker
  <2> QED BY <1>1, <1>4, <1>14, <2>1, <2>2, WorkerMovePreserves DEF PollComplete
<1>15. CASE PollRefused(w)
  <2>1. /\ worker' \in [Ids -> Worker] /\ worker'[w].pc = "broken"
        /\ \A v \in Ids \ {w} : worker'[v] = worker[v]
    BY <1>15, GoToMoves DEF PollRefused, WorkerPc
  <2>2. faults' \in 0..MaxFaults
    BY <1>4, <1>15, Constants DEF PollRefused, Fault
  <2> QED BY <1>1, <1>4, <1>15, <2>1, <2>2, WorkerMovePreserves DEF PollRefused
<1> QED
  BY <1>5, <1>6, <1>7, <1>8, <1>9, <1>10, <1>11, <1>12, <1>13, <1>14, <1>15 DEF PollReturns

\* The worker's steps back under the lock.
LEMMA ApplyPreserves ==
  ASSUME IInv, NEW w \in Ids,
         ApplyLate(w) \/ ApplyRateLow(w) \/ ApplyDone(w) \/ ApplyProgress(w)
  PROVE  IInv'
<1>1. TypeOK /\ worker[w] \in Worker /\ worker[w].pc # "none"
  BY DEF IInv, TypeOK, ApplyLate, ApplyRateLow, ApplyDone, ApplyProgress, At
<1>2. watches[w] # Nil /\ watches[w] \in Watch /\ w # Nil
  BY <1>1, Constants DEF IInv, GoroutinesHaveWatch, TypeOK
<1>3. CASE ApplyLate(w)
  <2>1. /\ worker' \in [Ids -> Worker]
        /\ \A v \in Ids \ {w} : worker'[v] = worker[v]
    BY <1>3, GoToMoves DEF ApplyLate, Exits, WorkerPc
  <2> QED BY <1>1, <1>3, <2>1, WorkerMovePreserves DEF ApplyLate, TypeOK
<1> DEFINE o == Observed(w)
           l == Linked(o, worker[w].entry)
<1>4. /\ o \in Watch /\ o.key = watches[w].key /\ o.terminal = watches[w].terminal
      /\ l \in Watch /\ l.key = watches[w].key /\ l.terminal = watches[w].terminal
      /\ l.token = watches[w].token /\ l.client = watches[w].client
      /\ l.cancelled = watches[w].cancelled /\ l.status = watches[w].status
  <2>1. worker[w].review \in ReviewStatus \union {Nil} /\ worker[w].entry \in TriggerRef
    BY <1>1 DEF Worker
  <2>2. /\ o \in Watch /\ o.key = watches[w].key /\ o.terminal = watches[w].terminal
        /\ o.token = watches[w].token /\ o.client = watches[w].client
        /\ o.cancelled = watches[w].cancelled /\ o.status = watches[w].status
    BY <1>2, <2>1 DEF Observed, Watch
  <2> HIDE DEF o
  <2> QED BY <2>1, <2>2 DEF Linked, Watch
<1>5. CASE ApplyRateLow(w) \/ ApplyDone(w)
  <2>1. /\ worker' \in [Ids -> Worker]
        /\ \A v \in Ids \ {w} : worker'[v] = worker[v]
    BY <1>5, GoToMoves DEF ApplyRateLow, ApplyDone, Exits, WorkerPc
  <2>2. Live(w) /\ call' \in [Callers -> Calls]
        /\ UNCHANGED <<latest, phase, triggers, seen, crashes>>
    BY <1>1, <1>2, <1>5 DEF ApplyRateLow, ApplyDone, Live, TypeOK
  <2>3. Nil \in Reason \union {Nil} /\ "RATE_LIMITED" \in EndStatus
        /\ ReviewDone \subseteq EndStatus
    BY DEF EndStatus
  <2>4. CASE ApplyRateLow(w)
    <3>1. FinishLocked(w, o, "RATE_LIMITED", Nil)
      BY <2>4 DEF ApplyRateLow
    <3> HIDE DEF o, l
    <3> QED BY <1>4, <2>1, <2>2, <2>3, <3>1, FinishLockedPreserves
  <2>5. CASE ApplyDone(w)
    <3>1. FinishLocked(w, l, worker[w].review, Nil) /\ worker[w].review \in EndStatus
      BY <2>3, <2>5 DEF ApplyDone
    <3> HIDE DEF o, l
    <3> QED BY <1>4, <2>1, <2>2, <2>3, <3>1, FinishLockedPreserves
  <2> QED BY <1>5, <2>4, <2>5
<1>6. CASE ApplyProgress(w)
  <2> DEFINE p == [l EXCEPT !.fails = 0]
  <2>1. /\ Live(w)
        /\ PersistOrDegrade(w, p, "WATCHING")
        /\ GoTo(w, IF watches'[w].terminal THEN "exited" ELSE "wait")
        /\ notes' \subseteq notes \union {w}
        /\ UNCHANGED <<latest, phase, triggers, call, seen, crashes>>
    BY <1>2, <1>6 DEF ApplyProgress, Live
  <2>2. Sound(watches[w]) /\ watches[w].terminal = FALSE
    BY <1>2, <2>1, LiveIsSound DEF Live, Watch
  <2>3. Sound(p) /\ ~p.terminal /\ p.key = watches[w].key
    <3>1. 0 \in 0..Threshold /\ 0 < Threshold
      BY Constants
    <3> HIDE DEF l
    <3>2. /\ p \in Watch /\ p.fails = 0 /\ p.key = l.key /\ p.terminal = l.terminal
          /\ p.token = l.token /\ p.client = l.client /\ p.cancelled = l.cancelled
          /\ p.status = l.status
      BY <1>4, <3>1 DEF Watch
    <3> HIDE DEF p
    <3> QED BY <1>4, <2>2, <3>1, <3>2 DEF Sound
  <2> HIDE DEF p
  <2> QED BY <2>1, <2>3, ProgressPreserves
<1> QED BY <1>3, <1>5, <1>6

\* A notification is delivered, and the subscriber reads the watch.
LEMMA NotifyPreserves ==
  ASSUME IInv, NEW w \in Ids, Notify(w)
  PROVE  IInv'
<1>1. watches[w] \in Watch
  BY DEF IInv, TypeOK, GoroutinesHaveWatch, Notify
<1>2. seen' \in [Ids -> View \union {Nil}]
  <2>1. [status |-> watches[w].status, review |-> watches[w].review] \in View
    BY <1>1 DEF Watch, View
  <2> QED BY <2>1 DEF Notify, IInv, TypeOK
<1>3. AroundTypeOK' /\ faults' \in 0..MaxFaults /\ notes' \subseteq notes
  BY <1>2 DEF Notify, AroundTypeOK, IInv, TypeOK, memory
<1>4. \A v \in Ids : /\ Live(v) => worker'[v].pc \notin {"none", "exited"}
                     /\ worker'[v].pc # "none" => worker[v].pc # "none"
  BY DEF Notify, IInv, LiveWatchHasWorker
<1> QED BY <1>3, <1>4, QuietPreserves DEF Notify

\* Close ends every live watch, written or not, and empties the index.
LEMMA ClosePreserves ==
  ASSUME IInv, Close
  PROVE  IInv'
<1> DEFINE live == {w \in Ids : Live(w) /\ active[watches[w].key] = w}
<1>1. TypeOK
  BY DEF IInv
<1>2. live = {w \in Ids : Live(w)}
  <2>1. \A w \in Ids : Live(w) => watches[w].key \in Keys
    BY <1>1, NilIsNoRecord DEF TypeOK, Live, Watch
  <2> QED BY <2>1 DEF IInv, ActiveIndexExact
<1>3. PICK refused \in SUBSET live :
        /\ faults + Cardinality(refused) <= MaxFaults
        /\ faults' = faults + Cardinality(refused)
        /\ watches' = [w \in Ids |->
              CASE w \in refused        -> Degraded(watches[w], "STALE")
                [] w \in live \ refused -> Ended(watches[w], "STALE", watches[w].reason)
                [] OTHER                -> watches[w]]
        /\ rows' = [w \in Ids |-> IF w \in live \ refused
              THEN RowFor(Ended(watches[w], "STALE", watches[w].reason)) ELSE rows[w]]
  BY DEF Close
<1>4. /\ active' = [k \in Keys |-> Nil] /\ phase' = "closing"
      /\ UNCHANGED <<latest, triggers, worker, call, notes, seen, crashes>>
  BY DEF Close
<1>5. faults' \in 0..MaxFaults
  <2>1. IsFiniteSet(refused)
    BY <1>2, Constants, FS_Subset
  <2>2. Cardinality(refused) \in Nat
    BY <2>1, FS_CardinalityType
  <2> QED BY <1>1, <1>3, <2>2, Constants DEF TypeOK
<1>6. ASSUME NEW w \in live
      PROVE  /\ watches'[w] \in Watch /\ watches'[w].terminal = TRUE
             /\ watches'[w].token = Nil /\ watches'[w].client = Nil
  <2>1. watches[w] \in Watch /\ w \in Ids /\ Live(w)
    BY <1>1, <1>2 DEF TypeOK, Live
  <2>2. watches[w].reason \in Reason \union {Nil} /\ "STALE" \in EndStatus
    BY <2>1 DEF Watch, EndStatus
  <2>3. CASE w \in refused
    <3>1. watches'[w] = Degraded(watches[w], "STALE")
      BY <1>3, <2>1, <2>3
    <3>2. Sound(Degraded(watches[w], "STALE")) /\ Degraded(watches[w], "STALE").terminal
      BY <2>1, DegradedIsSound
    <3> QED BY <3>1, <3>2 DEF Sound, Watch
  <2>4. CASE w \notin refused
    <3>1. watches'[w] = Ended(watches[w], "STALE", watches[w].reason)
      BY <1>3, <2>1, <2>4
    <3> DEFINE r == watches[w]
               reason == watches[w].reason
    <3>2. r \in Watch /\ reason \in Reason \union {Nil} /\ watches'[w] = Ended(r, "STALE", reason)
      BY <2>1, <2>2, <3>1
    <3> HIDE DEF r, reason
    <3>3. LET e == Ended(r, "STALE", reason)
          IN e \in Watch /\ e.terminal = TRUE /\ e.token = Nil /\ e.client = Nil
      BY <2>2, <3>2, EndedType
    <3> QED BY <3>2, <3>3
  <2> QED BY <2>3, <2>4
<1>7. ASSUME NEW w \in Ids \ live
      PROVE  watches'[w] = watches[w] /\ rows'[w] = rows[w]
  BY <1>3
<1>8. watches' \in [Ids -> Watch \union {Nil}]
  <2>1. \A w \in Ids : watches'[w] \in Watch \union {Nil}
    BY <1>1, <1>6, <1>7 DEF TypeOK
  <2> QED BY <1>3, <2>1
<1>9. rows' \in [Ids -> Row \union {Nil}]
  <2>1. ASSUME NEW w \in live \ refused
        PROVE  RowFor(Ended(watches[w], "STALE", watches[w].reason)) \in Row
    <3>1. Ended(watches[w], "STALE", watches[w].reason) = watches'[w]
      BY <1>3, <2>1
    <3> QED BY <1>6, <3>1, RowForType
  <2>2. \A w \in Ids : rows'[w] \in Row \union {Nil}
    BY <1>1, <1>3, <2>1 DEF TypeOK
  <2> QED BY <1>3, <2>2
<1>10. TypeOK'
  BY <1>1, <1>4, <1>5, <1>8, <1>9 DEF TypeOK
<1>11. \A w \in Ids : ~Live(w)'
  BY <1>2, <1>6, <1>7 DEF Live
<1>12. ActiveIndexExact'
  BY <1>4, <1>11, Constants DEF ActiveIndexExact
<1>13. LiveWatchHasActiveRow' /\ LiveWatchHasWorker' /\ BudgetNotSpent'
  BY <1>11 DEF LiveWatchHasActiveRow, LiveWatchHasWorker, BudgetNotSpent
<1>14. ReleasedIffEnded'
  <2> SUFFICES ASSUME NEW w \in Ids, watches'[w] # Nil
               PROVE  /\ watches'[w].terminal <=> watches'[w].token = Nil
                      /\ watches'[w].token = watches'[w].client
                      /\ watches'[w].cancelled => watches'[w].terminal
                      /\ watches'[w].terminal => watches'[w].cancelled \/ phase' = "closing"
    BY DEF ReleasedIffEnded
  <2>1. CASE w \in live
    BY <1>4, <1>6, <2>1
  <2>2. CASE w \notin live
    BY <1>4, <1>7, <2>2 DEF IInv, ReleasedIffEnded
  <2> QED BY <2>1, <2>2
<1>16. GoroutinesHaveWatch'
  <2>1. \A w \in Ids : watches[w] # Nil => watches'[w] # Nil
    BY <1>6, <1>7, NilIsNoRecord
  <2> QED BY <1>4, <2>1 DEF IInv, GoroutinesHaveWatch
<1>17. WatchHasRow'
  <2>1. \A w \in live : rows'[w] # Nil
    <3> SUFFICES ASSUME NEW w \in live
                 PROVE  rows'[w] # Nil
      OBVIOUS
    <3>1. rows'[w] = rows[w] \/ rows'[w] = RowFor(Ended(watches[w], "STALE", watches[w].reason))
      BY <1>2, <1>3
    <3>2. rows[w] # Nil
      BY <1>2 DEF IInv, WatchHasRow, Live
    <3>3. w \notin refused =>
            watches'[w] = Ended(watches[w], "STALE", watches[w].reason)
      BY <1>2, <1>3
    <3>4. w \notin refused => rows'[w] \in Row
      <4>1. watches'[w] \in Watch
        BY <1>6
      <4>2. w \notin refused => rows'[w] = RowFor(watches'[w])
        BY <1>2, <1>3, <3>3
      <4> QED BY <4>1, <4>2, RowForType
    <3>5. w \in refused => rows'[w] = rows[w]
      BY <1>2, <1>3
    <3> QED BY <3>2, <3>4, <3>5, NilIsNoRecord
  <2> QED BY <1>7, <2>1 DEF IInv, WatchHasRow
<1> QED BY <1>10, <1>12, <1>13, <1>14, <1>16, <1>17 DEF IInv

\* The contexts are cancelled when no watch is live any more.
LEMMA CloseCancelPreserves ==
  ASSUME IInv, CloseCancel
  PROVE  IInv'
<1>1. TypeOK
  BY DEF IInv
<1>2. /\ phase = "closing" /\ phase' = "closed"
      /\ UNCHANGED <<active, latest, rows, triggers, worker, call, notes, seen, faults, crashes>>
  BY DEF CloseCancel
<1>3. ASSUME NEW w \in Ids
      PROVE  IF watches[w] = Nil THEN watches'[w] = Nil
             ELSE /\ watches'[w] \in Watch /\ watches'[w] # Nil
                  /\ watches'[w].cancelled = TRUE
                  /\ watches'[w].terminal = watches[w].terminal
                  /\ watches'[w].token = watches[w].token
                  /\ watches'[w].client = watches[w].client
  <2>1. CASE watches[w] = Nil
    BY <2>1 DEF CloseCancel
  <2>2. CASE watches[w] # Nil
    <3>1. watches[w] \in Watch /\ watches'[w] = [watches[w] EXCEPT !.cancelled = TRUE]
      BY <1>1, <2>2 DEF CloseCancel, TypeOK
    <3>2. watches'[w] \in Watch
      BY <3>1 DEF Watch
    <3> QED BY <2>2, <3>1, <3>2, NilIsNoRecord DEF Watch
  <2> QED BY <2>1, <2>2
<1>4. TypeOK'
  <2>1. watches' \in [Ids -> Watch \union {Nil}]
    <3>1. \A w \in Ids : watches'[w] \in Watch \union {Nil}
      BY <1>3
    <3> QED BY <3>1 DEF CloseCancel
  <2> QED BY <1>1, <1>2, <2>1 DEF TypeOK
<1>5. \A w \in Ids : ~Live(w) /\ ~Live(w)'
  <2>1. \A w \in Ids : ~Live(w)
    BY <1>2 DEF IInv, LiveWatchHasWorker
  <2> QED BY <1>3, <2>1 DEF Live
<1>6. ActiveIndexExact'
  BY <1>2, <1>5 DEF IInv, ActiveIndexExact
<1>7. LiveWatchHasActiveRow' /\ LiveWatchHasWorker' /\ BudgetNotSpent'
  BY <1>5 DEF LiveWatchHasActiveRow, LiveWatchHasWorker, BudgetNotSpent
<1>8. ReleasedIffEnded'
  <2>1. \A w \in Ids : watches[w] # Nil => watches[w].terminal
    BY <1>5, Constants DEF Live
  <2> QED BY <1>3, <2>1 DEF IInv, ReleasedIffEnded
<1>9. GoroutinesHaveWatch' /\ WatchHasRow'
  BY <1>2, <1>3 DEF IInv, GoroutinesHaveWatch, WatchHasRow
<1> QED BY <1>4, <1>6, <1>7, <1>8, <1>9 DEF IInv

\* A restart forgets the watches and marks their rows stale.
LEMMA RestartPreserves ==
  ASSUME IInv, Restart
  PROVE  IInv'
<1>1. TypeOK
  BY DEF IInv
<1>2. \A w \in Ids : watches'[w] = Nil /\ ~Live(w)' /\ worker'[w].pc = "none"
  BY DEF Restart, Live, NoWorker
<1>3. rows' \in [Ids -> Row \union {Nil}]
  <2>1. ASSUME NEW w \in Ids
        PROVE  MarkActiveStale(w) \in Row \union {Nil}
    <3>1. rows[w] \in Row \union {Nil} /\ "STALE" \in EndStatus
      BY <1>1 DEF TypeOK, EndStatus
    <3> QED BY <3>1 DEF MarkActiveStale, ActiveRow, Row
  <2> QED BY <2>1 DEF Restart
<1>4. TypeOK'
  <2>1. NoWorker \in Worker /\ Idle \in Calls
    BY Constants DEF NoWorker, Worker, WorkerPc, TriggerRef, Calls
  <2>2. crashes' \in 0..MaxCrashes
    BY <1>1, Constants DEF Restart, TypeOK
  <2> QED BY <1>1, <1>3, <2>1, <2>2 DEF Restart, TypeOK
<1>5. ActiveIndexExact'
  BY <1>2, Constants DEF Restart, ActiveIndexExact
<1>6. LiveWatchHasActiveRow' /\ LiveWatchHasWorker' /\ BudgetNotSpent'
  BY <1>2 DEF LiveWatchHasActiveRow, LiveWatchHasWorker, BudgetNotSpent
<1>7. ReleasedIffEnded'
  BY <1>2 DEF ReleasedIffEnded
<1>8. GoroutinesHaveWatch' /\ WatchHasRow'
  BY <1>2 DEF GoroutinesHaveWatch, WatchHasRow, Restart
<1> QED BY <1>4, <1>5, <1>6, <1>7, <1>8 DEF IInv

\* IInv is inductive.
LEMMA NextIInv == IInv /\ [Next]_vars => IInv'
<1> SUFFICES ASSUME IInv, [Next]_vars
             PROVE  IInv'
  OBVIOUS
<1>1. ASSUME NEW c \in Callers, CallerStep(c)
      PROVE  IInv'
  BY <1>1, StartPreserves, CancelPreserves DEF CallerStep
<1>2. ASSUME NEW w \in Ids, WorkerStep(w)
      PROVE  IInv'
  BY <1>2, PollPreserves, ApplyPreserves DEF WorkerStep
<1>3. ASSUME NEW w \in Ids, Notify(w)
      PROVE  IInv'
  BY <1>3, NotifyPreserves
<1>4. ASSUME NEW pr \in PRs, RequestReview(pr) \/ SettleLatest(pr)
      PROVE  IInv'
  BY <1>4, ToolPreserves
<1>5. CASE Close \/ CloseCancel \/ Restart
  BY <1>5, ClosePreserves, CloseCancelPreserves, RestartPreserves
<1>6. CASE UNCHANGED vars
  <2>1. UNCHANGED <<memory, rows>> /\ AroundTypeOK' /\ faults' \in 0..MaxFaults
    BY <1>6 DEF vars, memory, AroundTypeOK, IInv, TypeOK
  <2>2. \A w \in Ids : /\ Live(w) => worker'[w].pc \notin {"none", "exited"}
                       /\ worker'[w].pc # "none" => worker[w].pc # "none"
    BY <1>6 DEF vars, IInv, LiveWatchHasWorker
  <2>3. notes' \subseteq notes
    BY <1>6 DEF vars
  <2> QED BY <2>1, <2>2, <2>3, QuietPreserves
<1> QED BY <1>1, <1>2, <1>3, <1>4, <1>5, <1>6 DEF Next

(***************************************************************************)
(* The theorems.                                                           *)
(***************************************************************************)

\* The inductive invariant holds in every reachable state.
THEOREM Invariance == Spec => []IInv
<1> QED BY InitIInv, NextIInv, PTL DEF Spec

\* Every record the manager and the store keep has its type; in particular the
\* failure counter of handleUpstreamFailure never passes the threshold.
THEOREM TypeCorrect == Spec => []TypeOK
<1>1. IInv => TypeOK
  BY DEF IInv
<1> QED BY <1>1, Invariance, PTL

\* activeByKey is exactly the live watches, for any number of callers, workers
\* and watches, whatever is refused: Start never runs two watches for one key.
THEOREM ActiveIndexCorrect == Spec => []ActiveIndexExact
<1>1. IInv => ActiveIndexExact
  BY DEF IInv
<1> QED BY <1>1, Invariance, PTL

\* A live watch is never missing from the store, so a restart reports it STALE.
THEOREM LiveRowKept == Spec => []LiveWatchHasActiveRow
<1>1. IInv => LiveWatchHasActiveRow
  BY DEF IInv
<1> QED BY <1>1, Invariance, PTL

\* A watch that ended holds no credentials and its context is cancelled.
THEOREM EndReleases == Spec => []ReleasedIffEnded
<1>1. IInv => ReleasedIffEnded
  BY DEF IInv
<1> QED BY <1>1, Invariance, PTL

\* A live watch always has a goroutine that polls it.
THEOREM LiveIsPolled == Spec => []LiveWatchHasWorker
<1>1. IInv => LiveWatchHasWorker
  BY DEF IInv
<1> QED BY <1>1, Invariance, PTL

(***************************************************************************)
(* What no step does: write a watch or a row that ended.                   *)
(***************************************************************************)
KeepsEnded ==
  /\ \A w \in Ids : watches[w] # Nil /\ watches[w].terminal /\ watches'[w] # Nil
                    => Outcome(watches'[w]) = Outcome(watches[w])
  /\ \A w \in Ids : rows[w] # Nil /\ ~rows[w].active => rows'[w] = rows[w]

\* A write goes to a live watch, whose row is active.
LEMMA WriteKeepsEnded ==
  ASSUME IInv, NEW w \in Ids, Live(w), NEW r, NEW d, Persist(w, r, d)
  PROVE  KeepsEnded
<1>1. watches[w] # Nil /\ ~watches[w].terminal /\ rows[w] # Nil /\ rows[w].active
  BY DEF Live, IInv, LiveWatchHasActiveRow, ActiveRow
<1>2. \A v \in Ids \ {w} : watches'[v] = watches[v] /\ rows'[v] = rows[v]
  BY DEF Persist, Install, UpsertReviewWatch, UpsertRefused, IInv, TypeOK
<1> QED BY <1>1, <1>2 DEF KeepsEnded

LEMMA QuietKeepsEnded ==
  ASSUME UNCHANGED <<watches, rows>>
  PROVE  KeepsEnded
BY DEF KeepsEnded

LEMMA FinishStateKeepsEnded ==
  ASSUME IInv, NEW w \in Ids, worker[w].pc # "none", NEW status, NEW reason,
         FinishState(w, status, reason)
  PROVE  KeepsEnded
<1>1. watches[w] # Nil /\ w # Nil
  BY Constants DEF IInv, GoroutinesHaveWatch
<1>2. CASE watches[w].terminal
  BY <1>2, QuietKeepsEnded DEF FinishState
<1>3. CASE ~watches[w].terminal
  BY <1>1, <1>3, WriteKeepsEnded DEF FinishState, FinishLocked, PersistOrDegrade, Live
<1> QED BY <1>2, <1>3

\* Every step keeps what ended.
LEMMA NextKeepsEnded == IInv /\ [Next]_vars => KeepsEnded
<1> SUFFICES ASSUME IInv, [Next]_vars
             PROVE  KeepsEnded
  OBVIOUS
<1>1. ASSUME NEW c \in Callers, CallerStep(c)
      PROVE  KeepsEnded
  <2>1. CASE \/ \E k \in Keys, t \in Tokens : StartRead(c, k, t)
             \/ StartClosed(c) \/ CancelComplete(c)
    BY <2>1, QuietKeepsEnded DEF StartRead, StartClosed, CancelComplete, memory
  <2>2. CASE StartReuse(c)
    <3> DEFINE w == active[call[c].key]
               r == Reused(watches[w], call[c].token, call[c].trigger)
    <3>1. call[c] \in [op: {"start"}, key: Keys, token: Tokens, trigger: TriggerRef]
      BY <2>2 DEF StartReuse, IInv, TypeOK, Calls, Idle
    <3>2. w \in Ids /\ Live(w)
      BY <2>2, <3>1 DEF StartReuse, IInv, TypeOK, Live
    <3>3. UNCHANGED <<watches, rows>> \/ Persist(w, r, r)
      BY <2>2 DEF StartReuse
    <3> HIDE DEF w, r
    <3> QED BY <3>2, <3>3, WriteKeepsEnded, QuietKeepsEnded
  <2>3. CASE StartNew(c)
    <3>1. PICK w \in Fresh :
            \/ UNCHANGED <<watches, rows>>
            \/ \E r : watches' = [watches EXCEPT ![w] = r] /\ rows' = [rows EXCEPT ![w] = RowFor(r)]
      BY <2>3 DEF StartNew, UpsertReviewWatch, UpsertRefused
    <3>2. w \in Ids /\ rows[w] = Nil /\ watches[w] = Nil
      BY <3>1 DEF Fresh, IInv, WatchHasRow
    <3> QED BY <3>1, <3>2 DEF KeepsEnded, IInv, TypeOK
  <2>4. CASE \E l \in Logins, w \in Ids : CancelByID(c, l, w)
    BY <2>4, WriteKeepsEnded DEF CancelByID, Cancel, FinishLocked, PersistOrDegrade
  <2>5. CASE \E k \in Keys : CancelLatest(c, k)
    <3>1. PICK k \in Keys : CancelLatest(c, k)
      BY <2>5
    <3>2. active[k] \in Ids
      BY <3>1 DEF CancelLatest, Live, IInv, TypeOK
    <3> QED BY <3>1, <3>2, WriteKeepsEnded DEF CancelLatest, Cancel, FinishLocked, PersistOrDegrade
  <2> QED BY <1>1, <2>1, <2>2, <2>3, <2>4, <2>5 DEF CallerStep
<1>2. ASSUME NEW w \in Ids, WorkerStep(w)
      PROVE  KeepsEnded
  <2>1. worker[w].pc # "none"
    BY <1>2 DEF WorkerStep, PollExpired, PollNoClient, PollCall, WorkerStop, PollReturns,
         PollCancelled, PollFailure, HandleUpstreamFailure, PollRead, PollComplete,
         PollRefused, PollBroken, ApplyLate, ApplyRateLow, ApplyDone, ApplyProgress,
         WorkerPanic, At
  <2>2. watches[w] # Nil /\ w # Nil
    BY <2>1, Constants DEF IInv, GoroutinesHaveWatch
  <2>3. CASE \/ PollCall(w) \/ WorkerStop(w) \/ PollCancelled(w) \/ PollRead(w)
             \/ PollComplete(w) \/ PollRefused(w) \/ ApplyLate(w)
    BY <2>3, QuietKeepsEnded DEF PollCall, WorkerStop, PollCancelled, PollRead,
         PollComplete, PollRefused, ApplyLate, memory
  <2>4. CASE \/ PollExpired(w) \/ PollNoClient(w) \/ PollFailure(w) \/ PollBroken(w)
             \/ WorkerPanic(w)
    BY <2>1, <2>4, FinishStateKeepsEnded
       DEF PollExpired, PollNoClient, PollFailure, PollBroken, WorkerPanic
  <2>5. CASE HandleUpstreamFailure(w)
    <3>1. CASE watches[w].terminal
      BY <2>5, <3>1, QuietKeepsEnded DEF HandleUpstreamFailure
    <3>2. CASE ~watches[w].terminal
      BY <2>2, <2>5, <3>2, WriteKeepsEnded
         DEF HandleUpstreamFailure, FinishLocked, PersistOrDegrade, Live
    <3> QED BY <3>1, <3>2
  <2>6. CASE ApplyRateLow(w) \/ ApplyDone(w) \/ ApplyProgress(w)
    BY <2>2, <2>6, WriteKeepsEnded
       DEF ApplyRateLow, ApplyDone, ApplyProgress, FinishLocked, PersistOrDegrade, Live
  <2> QED BY <1>2, <2>3, <2>4, <2>5, <2>6 DEF WorkerStep, PollReturns
<1>3. CASE \/ \E w \in Ids : Notify(w)
           \/ \E pr \in PRs : RequestReview(pr) \/ SettleLatest(pr)
           \/ UNCHANGED vars
  BY <1>3, QuietKeepsEnded DEF Notify, RequestReview, SettleLatest, memory, vars
<1>4. CASE Close
  <2> DEFINE live == {w \in Ids : Live(w) /\ active[watches[w].key] = w}
  <2>1. \A w \in Ids \ live : watches'[w] = watches[w] /\ rows'[w] = rows[w]
    BY <1>4 DEF Close
  <2>2. \A w \in live : Live(w) /\ ActiveRow(w)
    BY DEF IInv, LiveWatchHasActiveRow
  <2> QED BY <2>1, <2>2 DEF KeepsEnded, Live, ActiveRow
<1>5. CASE CloseCancel
  <2>1. rows' = rows
    BY <1>5 DEF CloseCancel
  <2>2. ASSUME NEW w \in Ids, watches[w] # Nil
        PROVE  Outcome(watches'[w]) = Outcome(watches[w])
    <3>1. watches[w] \in Watch /\ watches'[w] = [watches[w] EXCEPT !.cancelled = TRUE]
      BY <1>5, <2>2 DEF CloseCancel, IInv, TypeOK
    <3> QED BY <3>1 DEF Outcome, Watch
  <2> QED BY <2>1, <2>2 DEF KeepsEnded
<1>6. CASE Restart
  BY <1>6 DEF Restart, MarkActiveStale, ActiveRow, KeepsEnded
<1> QED BY <1>1, <1>2, <1>3, <1>4, <1>5, <1>6 DEF Next

\* A watch that ended stays as it ended: no late poll, cancel, Close or Start
\* changes its status, reason, review or request while the process lives.
THEOREM EndsForGood == Spec => EndedForGood
<1>1. IInv /\ [Next]_vars =>
        [\A w \in Ids : watches[w] # Nil /\ watches[w].terminal /\ watches'[w] # Nil
                        => Outcome(watches'[w]) = Outcome(watches[w])]_vars
  BY NextKeepsEnded DEF KeepsEnded
<1> QED BY <1>1, Invariance, PTL DEF Spec, EndedForGood

\* A row that became inactive is never written again, across restarts too.
THEOREM RowsEndForGood == Spec => RowEndedForGood
<1>1. IInv /\ [Next]_vars =>
        [\A w \in Ids : rows[w] # Nil /\ ~rows[w].active => rows'[w] = rows[w]]_vars
  BY NextKeepsEnded DEF KeepsEnded
<1> QED BY <1>1, Invariance, PTL DEF Spec, RowEndedForGood

(***************************************************************************)
(* What a step does to the watches, in five shapes: nothing, the write of  *)
(* one live watch, a new watch, the end of all, or a restart.              *)
(***************************************************************************)

\* The rows of trigger_log that exist, and 0 for none.
Known == 0..Len(triggers)

\* A watch, a poll and a handler name rows that exist.
RefsKnown ==
  /\ \A w \in Ids : watches[w] # Nil => watches[w].trigger \in Known
  /\ \A w \in Ids : worker[w].entry \in Known
  /\ \A c \in Callers : call[c].op # "idle" => call[c].trigger \in Known

\* The caller that ended a watch has its request still to complete, if it has one.
OwesRequest(w) ==
  watches'[w].trigger # 0 =>
    \E c \in Callers : call'[c] = [op |-> "complete", trigger |-> watches'[w].trigger]

\* The watches and their rows stay; a subscriber may have read one.
Quiet ==
  /\ UNCHANGED <<watches, latest, rows, phase>>
  /\ UNCHANGED <<notes, seen>> \/ \E w \in Ids : Notify(w)
  /\ UNCHANGED faults \/ Fault

\* One live watch is written, and announced when its state changes.
Writes(w) ==
  /\ Live(w)
  /\ \E r, d \in Watch : /\ r.key = watches[w].key /\ d.key = watches[w].key
                         /\ Persist(w, r, d)
  /\ watches'[w].trigger \in Known
  /\ notes' \in {notes, notes \union {w}}
  /\ \/ w \in notes'
     \/ watches'[w].status = watches[w].status /\ watches'[w].review = watches[w].review
  /\ watches'[w].status \in ReviewDone => ApplyDone(w)
  /\ watches'[w].status = "CANCELLED" => OwesRequest(w)
  /\ UNCHANGED <<latest, phase, triggers, seen>>

\* A new watch is registered once its row is written.
Registers(w) ==
  /\ watches[w] = Nil /\ rows[w] = Nil
  /\ \E r \in Watch : /\ ~r.terminal /\ r.status = "WATCHING" /\ r.review = Nil
                      /\ r.trigger \in Known
                      /\ watches' = [watches EXCEPT ![w] = r]
                      /\ latest' = [latest EXCEPT ![r.key] = w]
                      /\ UpsertReviewWatch(w, r)
  /\ seen' = [seen EXCEPT ![w] = [status |-> "WATCHING", review |-> Nil]]
  /\ UNCHANGED <<phase, triggers, notes>>

WatchesStep ==
  \/ Quiet
  \/ \E w \in Ids : Writes(w) \/ Registers(w)
  \/ Close \/ CloseCancel \/ Restart

LEMMA PersistWrites ==
  ASSUME IInv, NEW w \in Ids, Live(w),
         NEW r \in Watch, r.key = watches[w].key, r.trigger \in Known,
         NEW d \in Watch, d.key = watches[w].key, d.trigger = r.trigger,
         Persist(w, r, d),
         d.status \in {"WATCHING", "FAILED", "STALE"},
         r.status \in ReviewDone => ApplyDone(w),
         r.status = "CANCELLED" => OwesRequest(w),
         notes' \in {notes, notes \union {w}},
         \/ w \in notes'
         \/ watches'[w].status = watches[w].status /\ watches'[w].review = watches[w].review,
         UNCHANGED <<latest, phase, triggers, seen>>
  PROVE  Writes(w)
<1>1. watches'[w] = r \/ watches'[w] = d
  BY DEF Persist, Install, IInv, TypeOK
<1>2. d.status \notin ReviewDone /\ d.status # "CANCELLED"
  BY DEF ReviewDone
<1>3. watches'[w].trigger \in Known
  BY <1>1
<1>4. watches'[w].status \in ReviewDone => ApplyDone(w)
  BY <1>1, <1>2
<1>5. watches'[w].status = "CANCELLED" => OwesRequest(w)
  BY <1>1, <1>2
<1> QED BY <1>3, <1>4, <1>5 DEF Writes

\* The record a refused write leaves is a failed or stale one of the same request.
LEMMA DegradedFails ==
  ASSUME NEW r \in Watch, NEW intended
  PROVE  LET d == Degraded(r, intended)
         IN /\ d \in Watch /\ d.key = r.key /\ d.trigger = r.trigger
            /\ d.terminal /\ d.status \in {"WATCHING", "FAILED", "STALE"}
<1> DEFINE status == IF intended = "STALE" THEN "STALE" ELSE "FAILED"
           reason == IF intended = "STALE" THEN Nil ELSE "INTERNAL_ERROR"
<1>1. /\ status \in EndStatus /\ status \in {"WATCHING", "FAILED", "STALE"}
      /\ reason \in Reason \union {Nil}
  BY DEF EndStatus, Reason
<1>2. Degraded(r, intended) = [Ended(r, status, reason) EXCEPT !.cancelled = TRUE]
  BY DEF Degraded
<1> HIDE DEF status, reason
<1>3. Degraded(r, intended).trigger = r.trigger
  BY <1>2 DEF Ended, Watch
<1> QED BY <1>1, <1>2, <1>3, EndedIsSound DEF Sound

\* finishLocked.
LEMMA FinishLockedWrites ==
  ASSUME IInv, NEW w \in Ids, Live(w),
         NEW r \in Watch, r.key = watches[w].key, r.trigger \in Known,
         NEW status \in EndStatus, NEW reason \in Reason \union {Nil},
         FinishLocked(w, r, status, reason),
         status \in ReviewDone => ApplyDone(w),
         status = "CANCELLED" => OwesRequest(w),
         UNCHANGED <<latest, phase, triggers, seen>>
  PROVE  Writes(w)
<1> DEFINE e == [Ended(r, status, reason) EXCEPT !.cancelled = TRUE]
           d == Degraded(e, status)
<1>1. e \in Watch /\ e.key = watches[w].key /\ e.status = status /\ e.trigger = r.trigger
  <2>1. e \in Watch /\ e.key = watches[w].key /\ e.status = status
    BY EndedIsSound DEF Sound
  <2>2. e.trigger = r.trigger
    BY DEF Ended, Watch
  <2> QED BY <2>1, <2>2
<1>2. Persist(w, e, d) /\ notes' = notes \union {w}
  BY DEF FinishLocked, PersistOrDegrade
<1>3. d \in Watch /\ d.key = e.key /\ d.trigger = e.trigger
      /\ d.status \in {"WATCHING", "FAILED", "STALE"}
  BY <1>1, DegradedFails
<1> HIDE DEF e, d
<1> QED BY <1>1, <1>2, <1>3, PersistWrites

\* finishState and markStale, for an end that is neither a review nor a cancel.
LEMMA FinishStateWrites ==
  ASSUME IInv, RefsKnown, NEW w \in Ids, worker[w].pc # "none",
         NEW status \in {"TIMEOUT", "RATE_LIMITED", "FAILED", "STALE"},
         NEW reason \in Reason \union {Nil},
         FinishState(w, status, reason),
         UNCHANGED <<latest, phase, triggers, seen>>
  PROVE  WatchesStep
<1>1. watches[w] # Nil /\ watches[w] \in Watch /\ w # Nil
  BY Constants DEF IInv, GoroutinesHaveWatch, TypeOK
<1>2. CASE watches[w].terminal
  BY <1>2 DEF FinishState, WatchesStep, Quiet
<1>3. CASE ~watches[w].terminal
  <2>1. Live(w) /\ FinishLocked(w, watches[w], status, reason)
    BY <1>1, <1>3 DEF FinishState, Live
  <2>2. status \in EndStatus /\ status \notin ReviewDone /\ status # "CANCELLED"
    BY DEF EndStatus, ReviewDone
  <2>3. watches[w].trigger \in Known
    BY <1>1 DEF RefsKnown
  <2>4. Writes(w)
    BY <1>1, <2>1, <2>2, <2>3, FinishLockedWrites
  <2> QED BY <2>4 DEF WatchesStep
<1> QED BY <1>2, <1>3

\* persistOrDegradeLocked of a watch that goes on.
LEMMA ProgressWrites ==
  ASSUME IInv, NEW w \in Ids, Live(w),
         NEW r \in Watch, r.key = watches[w].key, r.trigger \in Known,
         r.status = "WATCHING", ~r.terminal,
         PersistOrDegrade(w, r, "WATCHING"),
         notes' = IF watches'[w].terminal \/ watches[w].review # r.review
                  THEN notes \union {w} ELSE notes,
         UNCHANGED <<latest, phase, triggers, seen>>
  PROVE  Writes(w)
<1> DEFINE d == Degraded(r, "WATCHING")
<1>1. /\ d \in Watch /\ d.key = r.key /\ d.trigger = r.trigger
      /\ d.terminal /\ d.status \in {"WATCHING", "FAILED", "STALE"}
  BY DegradedFails
<1>2. Persist(w, r, d)
  BY DEF PersistOrDegrade
<1> HIDE DEF d
<1>3. watches'[w] = r \/ watches'[w] = d
  BY <1>2 DEF Persist, Install, IInv, TypeOK
<1>4. watches[w].status = "WATCHING"
  BY DEF IInv, LiveWatchHasActiveRow
<1>5. \/ w \in notes'
      \/ watches'[w].status = watches[w].status /\ watches'[w].review = watches[w].review
  BY <1>1, <1>3, <1>4
<1>6. r.status \notin ReviewDone /\ r.status # "CANCELLED"
  BY DEF ReviewDone
<1>7. notes' \in {notes, notes \union {w}}
  OBVIOUS
<1> QED BY <1>1, <1>2, <1>5, <1>6, <1>7, PersistWrites

\* Callers: Start and its outcomes, cancels.
LEMMA CallerWrites ==
  ASSUME IInv, RefsKnown, NEW c \in Callers, CallerStep(c)
  PROVE  WatchesStep
<1>1. CASE \/ \E k \in Keys, t \in Tokens : StartRead(c, k, t)
           \/ StartClosed(c) \/ CancelComplete(c)
  <2>1. UNCHANGED <<watches, latest, rows, phase, notes, seen>> /\ (UNCHANGED faults \/ Fault)
    BY <1>1, Zenon DEF StartRead, StartClosed, CancelComplete, memory
  <2> QED BY <2>1 DEF WatchesStep, Quiet
<1>2. CASE StartReuse(c)
  <2> DEFINE w == active[call[c].key]
             r == Reused(watches[w], call[c].token, call[c].trigger)
  <2>1. call[c] \in [op: {"start"}, key: Keys, token: Tokens, trigger: TriggerRef]
    BY <1>2 DEF StartReuse, IInv, TypeOK, Calls, Idle
  <2>2. Live(w) /\ w \in Ids /\ watches[w] \in Watch
    BY <1>2, <2>1 DEF StartReuse, IInv, TypeOK, Live
  <2>3. UNCHANGED <<latest, phase, triggers, notes, seen>>
    BY <1>2 DEF StartReuse
  <2>4. UNCHANGED <<watches, rows, faults>> \/ Persist(w, r, r)
    BY <1>2 DEF StartReuse
  <2>5. call[c].trigger \in Known /\ watches[w].trigger \in Known /\ call[c].trigger \in TriggerRef
    BY <2>1, <2>2 DEF RefsKnown, Live
  <2>6. /\ r \in Watch /\ r.key = watches[w].key /\ r.status = watches[w].status
        /\ r.review = watches[w].review /\ r.trigger \in Known
    <3>1. 0 \in 0..Threshold
      BY Constants
    <3> HIDE DEF w
    <3>2. CASE watches[w].token = call[c].token
      BY <2>1, <2>2, <2>5, <3>1, <3>2 DEF Reused, Linked, Watch
    <3>3. CASE watches[w].token # call[c].token
      BY <2>1, <2>2, <2>5, <3>1, <3>3 DEF Reused, Linked, Watch
    <3> QED BY <3>2, <3>3
  <2>7. watches[w].status = "WATCHING"
    BY <2>2 DEF IInv, LiveWatchHasActiveRow
  <2> HIDE DEF w, r
  <2>8. CASE UNCHANGED <<watches, rows, faults>>
    BY <2>3, <2>8 DEF WatchesStep, Quiet
  <2>9. CASE Persist(w, r, r)
    <3>1. watches'[w] = r
      BY <2>2, <2>9 DEF Persist, Install, IInv, TypeOK
    <3>2. r.status \notin ReviewDone /\ r.status # "CANCELLED"
          /\ r.status \in {"WATCHING", "FAILED", "STALE"}
      BY <2>6, <2>7 DEF ReviewDone
    <3>3. Writes(w)
      BY <2>2, <2>3, <2>6, <2>9, <3>1, <3>2, PersistWrites
    <3> QED BY <2>2, <3>3 DEF WatchesStep
  <2> QED BY <2>4, <2>8, <2>9
<1>3. CASE StartNew(c)
  <2> DEFINE k == call[c].key
             r == NewWatch(k, call[c].token, call[c].trigger)
  <2>1. call[c] \in [op: {"start"}, key: Keys, token: Tokens, trigger: TriggerRef]
    BY <1>3 DEF StartNew, IInv, TypeOK, Calls, Idle
  <2>2. PICK w \in Fresh :
          \/ /\ UpsertReviewWatch(w, r)
             /\ watches' = [watches EXCEPT ![w] = r]
             /\ latest' = [latest EXCEPT ![k] = w]
             /\ seen' = [seen EXCEPT ![w] = [status |-> "WATCHING", review |-> Nil]]
          \/ UpsertRefused(w, r) /\ UNCHANGED <<watches, latest, seen>>
    BY <1>3 DEF StartNew
  <2>3. UNCHANGED <<phase, triggers, notes>>
    BY <1>3 DEF StartNew
  <2>4. call[c].trigger \in Known
    BY <2>1 DEF RefsKnown
  <2>5. /\ r \in Watch /\ ~r.terminal /\ r.status = "WATCHING" /\ r.review = Nil
        /\ r.trigger \in Known /\ r.key = k
    <3>1. 0 \in 0..Threshold /\ call[c].token \in Tokens /\ call[c].trigger \in TriggerRef
          /\ k \in Keys
      BY <2>1, Constants
    <3> HIDE DEF k
    <3>2. r \in Watch
      BY <3>1 DEF NewWatch, Watch
    <3>3. r.status = "WATCHING" /\ r.review = Nil /\ r.terminal = FALSE
          /\ r.trigger = call[c].trigger /\ r.key = k
      BY DEF NewWatch
    <3> QED BY <2>4, <3>2, <3>3
  <2>6. w \in Ids /\ rows[w] = Nil /\ watches[w] = Nil
    BY <2>2 DEF Fresh, IInv, WatchHasRow
  <2> HIDE DEF r
  <2>7. CASE UpsertRefused(w, r) /\ UNCHANGED <<watches, latest, seen>>
    <3>1. UNCHANGED rows /\ (UNCHANGED faults \/ Fault)
      BY <2>7 DEF UpsertRefused
    <3> QED BY <2>3, <2>7, <3>1 DEF WatchesStep, Quiet
  <2>8. CASE /\ UpsertReviewWatch(w, r)
             /\ watches' = [watches EXCEPT ![w] = r]
             /\ latest' = [latest EXCEPT ![k] = w]
             /\ seen' = [seen EXCEPT ![w] = [status |-> "WATCHING", review |-> Nil]]
    <3>1. Registers(w)
      BY <2>3, <2>5, <2>6, <2>8 DEF Registers
    <3> QED BY <2>6, <3>1 DEF WatchesStep
  <2> QED BY <2>2, <2>7, <2>8
<1>4. ASSUME NEW w \in Ids, Live(w), Cancel(c, w)
      PROVE  WatchesStep
  <2>1. watches[w] \in Watch /\ watches[w].trigger \in Known
    BY <1>4 DEF IInv, TypeOK, Live, RefsKnown
  <2>2. /\ FinishLocked(w, watches[w], "CANCELLED", Nil)
        /\ UNCHANGED <<latest, phase, triggers, seen>>
    BY <1>4 DEF Cancel
  <2>3. "CANCELLED" \in EndStatus /\ "CANCELLED" \notin ReviewDone
    BY DEF EndStatus, ReviewDone
  <2>4. watches'[w].trigger = watches[w].trigger
    <3> DEFINE e == [Ended(watches[w], "CANCELLED", Nil) EXCEPT !.cancelled = TRUE]
               d == Degraded(e, "CANCELLED")
    <3>1. e \in Watch
      BY <2>1, <2>3, EndedIsSound DEF Sound
    <3>2. e.trigger = watches[w].trigger
      BY <2>1 DEF Ended, Watch
    <3>3. d.trigger = e.trigger
      BY <3>1, DegradedFails
    <3>4. Persist(w, e, d)
      BY <2>2 DEF FinishLocked, PersistOrDegrade
    <3> HIDE DEF e, d
    <3>5. watches'[w] = e \/ watches'[w] = d
      BY <3>4 DEF Persist, Install, IInv, TypeOK
    <3> QED BY <3>2, <3>3, <3>5
  <2>5. OwesRequest(w)
    BY <1>4, <2>4 DEF OwesRequest, Cancel, IInv, TypeOK
  <2>6. Writes(w)
    BY <1>4, <2>1, <2>2, <2>3, <2>5, FinishLockedWrites
  <2> QED BY <2>6 DEF WatchesStep
<1>5. CASE \E l \in Logins, w \in Ids : CancelByID(c, l, w)
  BY <1>4, <1>5 DEF CancelByID
<1>6. CASE \E k \in Keys : CancelLatest(c, k)
  <2>1. PICK k \in Keys : CancelLatest(c, k)
    BY <1>6
  <2>2. active[k] \in Ids
    BY <2>1 DEF CancelLatest, Live, IInv, TypeOK
  <2> QED BY <1>4, <2>1, <2>2 DEF CancelLatest
<1> QED BY <1>1, <1>2, <1>3, <1>5, <1>6 DEF CallerStep

\* The worker's steps, up to and around the GitHub call and back under the lock.
LEMMA WorkerWrites ==
  ASSUME IInv, RefsKnown, NEW w \in Ids, WorkerStep(w)
  PROVE  WatchesStep
<1>1. worker[w].pc # "none"
  BY DEF WorkerStep, PollExpired, PollNoClient, PollCall, WorkerStop, PollReturns,
       PollCancelled, PollFailure, HandleUpstreamFailure, PollRead, PollComplete,
       PollRefused, PollBroken, ApplyLate, ApplyRateLow, ApplyDone, ApplyProgress,
       WorkerPanic, At
<1>2. watches[w] # Nil /\ watches[w] \in Watch /\ w # Nil /\ watches[w].trigger \in Known
  BY <1>1, Constants DEF IInv, GoroutinesHaveWatch, TypeOK, RefsKnown
<1>3. CASE \/ PollCall(w) \/ WorkerStop(w) \/ PollCancelled(w) \/ PollRead(w)
           \/ PollComplete(w) \/ PollRefused(w) \/ ApplyLate(w)
  <2>1. UNCHANGED <<watches, latest, rows, phase, notes, seen>> /\ (UNCHANGED faults \/ Fault)
    BY <1>3, Zenon DEF PollCall, WorkerStop, PollCancelled, PollRead, PollComplete,
                       PollRefused, ApplyLate, memory
  <2> QED BY <2>1 DEF WatchesStep, Quiet
<1>4. CASE PollExpired(w) \/ PollNoClient(w) \/ PollBroken(w) \/ WorkerPanic(w)
  <2>1. Nil \in Reason \union {Nil} /\ "INTERNAL_ERROR" \in Reason \union {Nil}
    BY DEF Reason
  <2> QED BY <1>1, <1>4, <2>1, FinishStateWrites
          DEF PollExpired, PollNoClient, PollBroken, WorkerPanic
<1>5. CASE PollFailure(w)
  <2>1. PICK e \in Errors : FinishState(w, IF e = "RATE_LIMITED" THEN e ELSE "FAILED",
                                           IF e = "RATE_LIMITED" THEN Nil ELSE e)
    BY <1>5 DEF PollFailure
  <2> DEFINE status == IF e = "RATE_LIMITED" THEN e ELSE "FAILED"
             reason == IF e = "RATE_LIMITED" THEN Nil ELSE e
  <2>2. /\ status \in {"TIMEOUT", "RATE_LIMITED", "FAILED", "STALE"}
        /\ reason \in Reason \union {Nil}
    BY Constants DEF Reason
  <2> HIDE DEF status, reason
  <2>3. FinishState(w, status, reason)
    BY <2>1 DEF status, reason
  <2> QED BY <1>1, <1>5, <2>2, <2>3, FinishStateWrites DEF PollFailure
<1>6. CASE HandleUpstreamFailure(w)
  <2> DEFINE f == [watches[w] EXCEPT !.fails = @ + 1]
  <2>1. UNCHANGED <<latest, phase, triggers, seen>>
    BY <1>6 DEF HandleUpstreamFailure
  <2>2. CASE watches[w].terminal
    BY <1>6, <2>2 DEF HandleUpstreamFailure, WatchesStep, Quiet
  <2>3. CASE ~watches[w].terminal
    <3>1. Live(w) /\ Sound(watches[w])
      BY <1>2, <2>3, LiveIsSound DEF Live
    <3>2. watches[w].fails \in 0..Threshold /\ watches[w].fails < Threshold /\ Threshold \in Nat
      BY <1>2, <2>3, <3>1, Constants DEF Sound, Watch
    <3>3. watches[w].fails + 1 \in 0..Threshold
      BY <3>2
    <3>4. /\ f \in Watch /\ f.key = watches[w].key /\ f.fails = watches[w].fails + 1
          /\ f.trigger = watches[w].trigger /\ f.status = watches[w].status
          /\ f.review = watches[w].review /\ f.terminal = watches[w].terminal
      BY <1>2, <3>3 DEF Watch
    <3>5. CASE f.fails >= Threshold
      <4>1. FinishLocked(w, f, "FAILED", "AUTH_EXPIRED")
        BY <1>6, <2>3, <3>2, <3>4, <3>5 DEF HandleUpstreamFailure
      <4>2. "FAILED" \in EndStatus /\ "FAILED" \notin ReviewDone
            /\ "AUTH_EXPIRED" \in Reason \union {Nil}
        BY DEF EndStatus, ReviewDone, Reason
      <4> HIDE DEF f
      <4>3. Writes(w)
        BY <1>2, <2>1, <3>1, <3>4, <4>1, <4>2, FinishLockedWrites
      <4> QED BY <4>3 DEF WatchesStep
    <3>6. CASE f.fails < Threshold
      <4>1. /\ PersistOrDegrade(w, f, "WATCHING")
            /\ notes' = IF watches'[w].terminal THEN notes \union {w} ELSE notes
        BY <1>6, <2>3, <3>2, <3>4, <3>6 DEF HandleUpstreamFailure
      <4>2. f.status = "WATCHING" /\ ~f.terminal
        BY <2>3, <3>1, <3>4 DEF Sound
      <4> HIDE DEF f
      <4>3. Writes(w)
        BY <1>2, <2>1, <3>1, <3>4, <4>1, <4>2, ProgressWrites
      <4> QED BY <4>3 DEF WatchesStep
    <3> QED BY <3>2, <3>4, <3>5, <3>6
  <2> QED BY <2>2, <2>3
<1> DEFINE o == Observed(w)
           l == Linked(o, worker[w].entry)
<1>7. /\ o \in Watch /\ o.key = watches[w].key /\ o.trigger = watches[w].trigger
      /\ o.review = worker[w].review
      /\ l \in Watch /\ l.key = watches[w].key /\ l.trigger \in Known
      /\ l.review = worker[w].review /\ l.status = watches[w].status
      /\ l.terminal = watches[w].terminal
  <2>1. worker[w].review \in ReviewStatus \union {Nil} /\ worker[w].entry \in TriggerRef
        /\ worker[w].entry \in Known
    BY DEF IInv, TypeOK, Worker, RefsKnown
  <2>2. /\ o \in Watch /\ o.key = watches[w].key /\ o.trigger = watches[w].trigger
        /\ o.review = worker[w].review /\ o.status = watches[w].status
        /\ o.terminal = watches[w].terminal
    BY <1>2, <2>1 DEF Observed, Watch
  <2> HIDE DEF o
  <2> QED BY <1>2, <2>1, <2>2 DEF Linked, Watch
<1>8. CASE ApplyRateLow(w)
  <2>1. /\ Live(w) /\ FinishLocked(w, o, "RATE_LIMITED", Nil)
        /\ UNCHANGED <<latest, phase, triggers, seen>>
    BY <1>2, <1>8 DEF ApplyRateLow, Live
  <2>2. "RATE_LIMITED" \in EndStatus /\ "RATE_LIMITED" \notin ReviewDone
    BY DEF EndStatus, ReviewDone
  <2> HIDE DEF o, l
  <2>3. Writes(w)
    BY <1>2, <1>7, <2>1, <2>2, FinishLockedWrites
  <2> QED BY <2>3 DEF WatchesStep
<1>9. CASE ApplyDone(w)
  <2>1. /\ Live(w) /\ FinishLocked(w, l, worker[w].review, Nil)
        /\ worker[w].review \in ReviewDone
        /\ UNCHANGED <<latest, phase, triggers, seen>>
    BY <1>2, <1>9 DEF ApplyDone, Live
  <2>2. worker[w].review \in EndStatus /\ worker[w].review # "CANCELLED"
    BY <2>1 DEF EndStatus, ReviewDone
  <2> HIDE DEF o, l
  <2>3. Writes(w)
    BY <1>7, <1>9, <2>1, <2>2, FinishLockedWrites
  <2> QED BY <2>3 DEF WatchesStep
<1>10. CASE ApplyProgress(w)
  <2> DEFINE p == [l EXCEPT !.fails = 0]
  <2>1. /\ Live(w)
        /\ PersistOrDegrade(w, p, "WATCHING")
        /\ notes' = IF watches'[w].terminal \/ watches[w].review # worker[w].review
                    THEN notes \union {w} ELSE notes
        /\ UNCHANGED <<latest, phase, triggers, seen>>
    BY <1>2, <1>10 DEF ApplyProgress, Live
  <2>2. /\ p \in Watch /\ p.key = l.key /\ p.trigger = l.trigger /\ p.review = l.review
        /\ p.status = l.status /\ p.terminal = l.terminal
    <3>1. 0 \in 0..Threshold
      BY Constants
    <3> HIDE DEF l
    <3> QED BY <1>7, <3>1 DEF Watch
  <2>3. watches[w].status = "WATCHING" /\ ~watches[w].terminal
    BY <2>1 DEF IInv, LiveWatchHasActiveRow, Live
  <2> HIDE DEF p, l, o
  <2>4. /\ p.key = watches[w].key /\ p.trigger \in Known /\ p.review = worker[w].review
        /\ p.status = "WATCHING" /\ ~p.terminal
    BY <1>7, <2>2, <2>3
  <2>5. Writes(w)
    BY <2>1, <2>2, <2>4, ProgressWrites
  <2> QED BY <2>5 DEF WatchesStep
<1> QED
  BY <1>3, <1>4, <1>5, <1>6, <1>8, <1>9, <1>10 DEF WorkerStep, PollReturns

\* Every step is one of the five shapes.
LEMMA EveryStepWrites == IInv /\ RefsKnown /\ [Next]_vars => WatchesStep
<1> SUFFICES ASSUME IInv, RefsKnown, [Next]_vars
             PROVE  WatchesStep
  OBVIOUS
<1>1. CASE \E w \in Ids : Notify(w)
  BY <1>1 DEF WatchesStep, Quiet, Notify, memory
<1>2. CASE (\E pr \in PRs : RequestReview(pr) \/ SettleLatest(pr)) \/ UNCHANGED vars
  <2>1. UNCHANGED <<watches, latest, rows, phase, notes, seen, faults>>
    BY <1>2, Zenon DEF RequestReview, SettleLatest, memory, vars
  <2> QED BY <2>1 DEF WatchesStep, Quiet
<1>3. CASE Close \/ CloseCancel \/ Restart
  BY <1>3 DEF WatchesStep
<1> QED BY <1>1, <1>2, <1>3, CallerWrites, WorkerWrites DEF Next

(***************************************************************************)
(* trigger_log only grows, and what is completed stays completed.          *)
(***************************************************************************)
TriggersGrow ==
  /\ Len(triggers) <= Len(triggers')
  /\ \A i \in 1..Len(triggers) : triggers[i].done => triggers'[i].done

\* UpdateCompletedAt completes its row and leaves the others.
LEMMA UpdateGrows ==
  ASSUME TypeOK, NEW i, UpdateCompletedAt(i)
  PROVE  /\ TriggersGrow
         /\ i \in 1..Len(triggers) => triggers'[i].done
<1> DEFINE S == [pr: PRs, done: BOOLEAN]
<1>1. triggers \in Seq(S) /\ Len(triggers) \in Nat
  BY DEF TypeOK
<1>2. CASE i \in 1..Len(triggers)
  <2> DEFINE e == [triggers[i] EXCEPT !.done = TRUE]
  <2>1. triggers[i] \in S
    <3> HIDE DEF S
    <3> QED BY <1>1, <1>2, ElementOfSeq
  <2>2. e \in S /\ e.done
    BY <2>1
  <2>3. triggers' = [triggers EXCEPT ![i] = e]
    BY DEF UpdateCompletedAt
  <2> HIDE DEF e, S
  <2>4. Len(triggers') = Len(triggers) /\ triggers'[i] = e
        /\ \A j \in 1..Len(triggers) : j # i => triggers'[j] = triggers[j]
    BY <1>1, <1>2, <2>2, <2>3, ExceptSeq
  <2> QED BY <1>1, <2>2, <2>4 DEF TriggersGrow
<1>3. CASE i \notin 1..Len(triggers)
  <2>1. triggers' = triggers
    BY <1>1, <1>3 DEF UpdateCompletedAt
  <2> QED BY <1>1, <1>3, <2>1 DEF TriggersGrow
<1> QED BY <1>2, <1>3

\* Every step keeps the rows of trigger_log, and their completion.
LEMMA NextTriggersGrow == IInv /\ [Next]_vars => TriggersGrow
<1> SUFFICES ASSUME IInv, [Next]_vars
             PROVE  TriggersGrow
  OBVIOUS
<1>1. TypeOK /\ triggers \in Seq([pr: PRs, done: BOOLEAN]) /\ Len(triggers) \in Nat
  BY DEF IInv, TypeOK
<1>2. UNCHANGED triggers => TriggersGrow
  BY <1>1 DEF TriggersGrow
<1>3. CASE \E c \in Callers : CallerStep(c)
  BY <1>1, <1>2, <1>3, UpdateGrows
     DEF CallerStep, StartRead, StartClosed, StartReuse, StartNew, CancelByID, CancelLatest,
         Cancel, CancelComplete
<1>4. CASE \E w \in Ids : WorkerStep(w) \/ Notify(w)
  <2>1. UNCHANGED triggers \/ \E w \in Ids : PollComplete(w)
    BY <1>4, Zenon
       DEF WorkerStep, PollExpired, PollNoClient, PollCall, WorkerStop, PollReturns,
           PollCancelled, PollFailure, HandleUpstreamFailure, PollRead, PollRefused,
           PollBroken, ApplyLate, ApplyRateLow, ApplyDone, ApplyProgress, WorkerPanic, Notify
  <2> QED BY <1>1, <1>2, <2>1, UpdateGrows DEF PollComplete
<1>5. CASE \E pr \in PRs : RequestReview(pr)
  <2>1. PICK e \in [pr: PRs, done: BOOLEAN] : triggers' = Append(triggers, e)
    BY <1>5 DEF RequestReview
  <2>2. Len(triggers') = Len(triggers) + 1
        /\ \A i \in 1..Len(triggers) : triggers'[i] = triggers[i]
    BY <1>1, <2>1
  <2> QED BY <1>1, <2>2 DEF TriggersGrow
<1>6. CASE \E pr \in PRs : SettleLatest(pr)
  <2>1. PICK i : UpdateCompletedAt(i)
    BY <1>6 DEF SettleLatest
  <2> QED BY <1>1, <2>1, UpdateGrows
<1>7. CASE Close \/ CloseCancel \/ Restart \/ UNCHANGED vars
  BY <1>2, <1>7 DEF Close, CloseCancel, Restart, vars
<1> QED BY <1>3, <1>4, <1>5, <1>6, <1>7 DEF Next

LEMMA SettledStays ==
  ASSUME IInv, TriggersGrow, NEW i \in Known
  PROVE  Settled(i) => i = 0 \/ triggers'[i].done
<1>1. Len(triggers) \in Nat
  BY DEF IInv, TypeOK
<1>2. i # 0 => i \in 1..Len(triggers)
  BY <1>1 DEF Known
<1> QED BY <1>2 DEF TriggersGrow, Settled

LEMMA KnownGrows ==
  ASSUME IInv, IInv', TriggersGrow
  PROVE  Known \subseteq Known'
<1>1. Len(triggers) \in Nat /\ Len(triggers') \in Nat
  BY DEF IInv, TypeOK
<1> QED BY <1>1 DEF TriggersGrow, Known

(***************************************************************************)
(* The polls: what a worker carries from the read of trigger_log to the    *)
(* write of its watch.                                                     *)
(***************************************************************************)

\* A worker that is about to complete a request has one; a worker about to end
\* its watch as reviewed has completed the request it read.
PollsSettle ==
  \A w \in Ids :
    /\ At(w, "complete") => worker[w].entry # 0
    /\ At(w, "apply") /\ ~worker[w].low /\ worker[w].review \in ReviewDone
         => Settled(worker[w].entry)

\* A worker that is between polls or gone carries nothing to settle.
CarriesOn(w) ==
  /\ worker'[w].pc \notin {"complete", "apply"}
  /\ worker'[w].entry \in {0, worker[w].entry}

LEMMA GoToCarriesOn ==
  ASSUME IInv, NEW w \in Ids, NEW pc, pc \notin {"complete", "apply"}, GoTo(w, pc)
  PROVE  CarriesOn(w) /\ \A v \in Ids \ {w} : worker'[v] = worker[v]
<1> DEFINE b == [NoWorker EXCEPT !.pc = pc]
<1>1. b.pc = pc /\ b.entry = 0
  BY DEF NoWorker
<1>2. worker' = [worker EXCEPT ![w] = b] /\ worker \in [Ids -> Worker]
  BY DEF GoTo, IInv, TypeOK
<1> HIDE DEF b
<1> QED BY <1>1, <1>2 DEF CarriesOn

\* The steps of a worker that move it; all but two leave it nothing to settle.
LEMMA WorkerCarries ==
  ASSUME IInv, NEW w \in Ids, WorkerStep(w)
  PROVE  /\ \A v \in Ids \ {w} : worker'[v] = worker[v]
         /\ CarriesOn(w) \/ PollRead(w) \/ PollComplete(w)
<1>1. worker \in [Ids -> Worker] /\ worker[w] \in Worker
  BY DEF IInv, TypeOK
<1>2. CASE \/ PollExpired(w) \/ PollNoClient(w) \/ WorkerStop(w) \/ PollCancelled(w)
           \/ PollFailure(w) \/ PollBroken(w) \/ ApplyLate(w) \/ ApplyRateLow(w)
           \/ ApplyDone(w) \/ WorkerPanic(w)
  <2>1. GoTo(w, "exited")
    BY <1>2, Zenon
       DEF PollExpired, PollNoClient, WorkerStop, PollCancelled, PollFailure, PollBroken,
           ApplyLate, ApplyRateLow, ApplyDone, WorkerPanic, Exits
  <2> QED BY <2>1, GoToCarriesOn
<1>3. CASE HandleUpstreamFailure(w) \/ ApplyProgress(w) \/ PollRefused(w)
  <2>1. \E pc \in {"exited", "wait", "broken"} : GoTo(w, pc)
    BY <1>3 DEF HandleUpstreamFailure, ApplyProgress, PollRefused, Exits
  <2> QED BY <2>1, GoToCarriesOn
<1>4. CASE PollCall(w)
  <2>1. worker' = [worker EXCEPT ![w] =
                    [worker[w] EXCEPT !.pc = "call", !.client = watches[w].client]]
    BY <1>1, <1>4 DEF PollCall
  <2> QED BY <1>1, <2>1 DEF CarriesOn, Worker
<1>5. CASE PollRead(w)
  BY <1>1, <1>5 DEF PollRead
<1>6. CASE PollComplete(w)
  BY <1>1, <1>6 DEF PollComplete
<1> QED BY <1>2, <1>3, <1>4, <1>5, <1>6 DEF WorkerStep, PollReturns

\* The poll reads the newest request, and completes it when the review is over.
LEMMA PollReadSettles ==
  ASSUME IInv, NEW w \in Ids, PollRead(w)
  PROVE  /\ worker'[w].entry \in Known
         /\ worker'[w].pc = "complete" => worker'[w].entry # 0
         /\ worker'[w].pc = "apply" /\ ~worker'[w].low /\ worker'[w].review \in ReviewDone
              => Settled(worker'[w].entry)
<1> DEFINE owes(entry, review, low) ==
             ~low /\ review \in ReviewDone /\ entry # 0 /\ ~triggers[entry].done
<1>1. worker \in [Ids -> Worker] /\ worker[w].pc = "call"
  BY DEF IInv, TypeOK, PollRead, At
<1>2. watches[w] \in Watch
  BY <1>1 DEF IInv, TypeOK, GoroutinesHaveWatch
<1>3. PrOf(watches[w].key) \in PRs
  BY <1>2 DEF Watch, Keys, PrOf
<1>4. ASSUME NEW entry \in LatestTriggers(PrOf(watches[w].key))
      PROVE  entry \in Known
  <2>1. TypeOK
    BY DEF IInv
  <2>2. entry \in TriggerRef /\ (entry # 0 => entry \in RowsOf(PrOf(watches[w].key)))
    BY <1>3, <2>1, LatestTriggersType
  <2>3. DOMAIN triggers = 1..Len(triggers) /\ Len(triggers) \in Nat
    BY <2>1 DEF TypeOK
  <2> QED BY <2>2, <2>3 DEF RowsOf, Known
<1>5. PICK review \in Observable, low \in BOOLEAN,
           entry \in LatestTriggers(PrOf(watches[w].key)) :
        worker' = [worker EXCEPT ![w] =
                     [pc |-> IF owes(entry, review, low) THEN "complete" ELSE "apply", client |-> Nil,
                      entry |-> entry, review |-> review, low |-> low]]
  BY DEF PollRead
<1>6. /\ worker'[w].pc = IF owes(entry, review, low) THEN "complete" ELSE "apply"
      /\ worker'[w].entry = entry /\ worker'[w].review = review /\ worker'[w].low = low
  BY <1>1, <1>5
<1> QED BY <1>4, <1>6 DEF Settled

\* The polls keep to the requests that exist and settle what they read.
LEMMA NextPollsSettle ==
  ASSUME IInv, IInv', RefsKnown, PollsSettle, [Next]_vars
  PROVE  PollsSettle' /\ \A w \in Ids : worker'[w].entry \in Known'
<1>1. worker \in [Ids -> Worker] /\ 0 \in Known'
  <2>1. Len(triggers') \in Nat
    BY DEF IInv, TypeOK
  <2> QED BY <2>1 DEF IInv, TypeOK, Known
<1>2. TriggersGrow /\ Known \subseteq Known'
  BY NextTriggersGrow, KnownGrows
<1> DEFINE Sure(v) ==
             /\ worker'[v].entry \in Known'
             /\ worker'[v].pc = "complete" => worker'[v].entry # 0
             /\ worker'[v].pc = "apply" /\ ~worker'[v].low /\ worker'[v].review \in ReviewDone
                  => worker'[v].entry = 0 \/ triggers'[worker'[v].entry].done
<1>3. ASSUME NEW v \in Ids, worker'[v] = worker[v]
      PROVE  Sure(v)
  <2>1. worker[v].entry \in Known
    BY DEF RefsKnown
  <2>2. Settled(worker[v].entry) => worker[v].entry = 0 \/ triggers'[worker[v].entry].done
    BY <1>2, <2>1, SettledStays
  <2> QED BY <1>2, <1>3, <2>1, <2>2 DEF PollsSettle, At
<1>4. ASSUME NEW v \in Ids, CarriesOn(v)
      PROVE  Sure(v)
  BY <1>1, <1>2, <1>4 DEF CarriesOn, RefsKnown
<1>5. ASSUME NEW v \in Ids, PollRead(v)
      PROVE  Sure(v)
  <2>1. triggers' = triggers
    BY <1>5 DEF PollRead
  <2> QED BY <1>2, <1>5, <2>1, PollReadSettles DEF Settled
<1>6. ASSUME NEW v \in Ids, PollComplete(v)
      PROVE  Sure(v)
  <2>1. worker'[v].pc = "apply" /\ worker'[v].entry = worker[v].entry
    BY <1>1, <1>6 DEF PollComplete, Worker
  <2>2. worker[v].entry \in Known /\ worker[v].entry # 0
    BY <1>6 DEF RefsKnown, PollsSettle, PollComplete
  <2>3. Len(triggers) \in Nat
    BY DEF IInv, TypeOK
  <2>4. worker[v].entry \in 1..Len(triggers)
    BY <2>2, <2>3 DEF Known
  <2>5. triggers'[worker[v].entry].done
    BY <1>6, <2>4, UpdateGrows DEF PollComplete, IInv
  <2> QED BY <1>2, <2>1, <2>2, <2>5
<1>7. \A v \in Ids : Sure(v)
  <2>1. CASE \E w \in Ids : WorkerStep(w)
    BY <1>3, <1>4, <1>5, <1>6, <2>1, WorkerCarries
  <2>2. CASE \E c \in Callers : StartNew(c)
    <3>1. \A v \in Ids : \/ worker'[v] = worker[v]
                         \/ worker'[v] = [worker[v] EXCEPT !.pc = "wait"]
      BY <1>1, <2>2 DEF StartNew
    <3>2. \A v \in Ids : worker'[v] = worker[v] \/ CarriesOn(v)
      BY <1>1, <3>1 DEF CarriesOn, Worker
    <3> QED BY <1>3, <1>4, <3>2
  <2>3. CASE Restart
    <3>1. \A v \in Ids : CarriesOn(v)
      BY <2>3 DEF Restart, NoWorker, CarriesOn
    <3> QED BY <1>4, <3>1
  <2>4. CASE UNCHANGED worker
    BY <1>3, <2>4
  <2>5. \/ \E w \in Ids : WorkerStep(w)
        \/ \E c \in Callers : StartNew(c)
        \/ Restart \/ UNCHANGED worker
    <3>1. ASSUME NEW c \in Callers, CallerStep(c)
          PROVE  StartNew(c) \/ UNCHANGED worker
      BY <3>1, Zenon DEF CallerStep, StartRead, StartClosed, StartReuse, CancelByID,
                         CancelLatest, Cancel, CancelComplete
    <3>2. CASE \/ \E w \in Ids : Notify(w)
               \/ \E pr \in PRs : RequestReview(pr) \/ SettleLatest(pr)
               \/ Close \/ CloseCancel \/ UNCHANGED vars
      BY <3>2, Zenon DEF Notify, RequestReview, SettleLatest, Close, CloseCancel, vars
    <3> QED BY <3>1, <3>2 DEF Next
  <2> QED BY <2>1, <2>2, <2>3, <2>4, <2>5
<1> QED BY <1>7 DEF PollsSettle, At, Settled

(***************************************************************************)
(* The handlers: what a caller carries from the lock to trigger_log.       *)
(***************************************************************************)

\* A handler names a request that exists, and a cancel under way ends by
\* completing its request, unless SQLite refuses or the process dies.
LEMMA NextCalls ==
  ASSUME IInv, IInv', RefsKnown, [Next]_vars, NEW c \in Callers
  PROVE  /\ call'[c].op # "idle" => call'[c].trigger \in Known'
         /\ call[c].op = "complete" =>
              \/ call'[c] = call[c] \/ triggers'[call[c].trigger].done
              \/ Fault \/ Restart
<1>1. call \in [Callers -> Calls] /\ call[c] \in Calls /\ TypeOK /\ Len(triggers) \in Nat
  BY DEF IInv, TypeOK
<1>2. Known \subseteq Known'
  BY NextTriggersGrow, KnownGrows
<1>3. call'[c] = call[c] \/ call'[c] = Idle => (call'[c].op # "idle" => call'[c].trigger \in Known')
  BY <1>2 DEF Idle, RefsKnown
<1>4. ASSUME NEW k \in Keys, NEW t \in Tokens, StartRead(c, k, t)
      PROVE  call[c] = Idle /\ call'[c].trigger \in Known'
  <2>1. PICK entry \in LatestTriggers(PrOf(k)) :
          call' = [call EXCEPT ![c] = [op |-> "start", key |-> k, token |-> t,
                                       trigger |-> entry]]
    BY <1>4 DEF StartRead
  <2>2. entry \in TriggerRef /\ (entry # 0 => entry \in RowsOf(PrOf(k)))
    BY <1>1, LatestTriggersType DEF Keys, PrOf
  <2>3. entry \in Known
    BY <1>1, <2>2 DEF TypeOK, RowsOf, Known
  <2>4. call'[c].trigger = entry /\ call[c] = Idle
    BY <1>1, <1>4, <2>1 DEF StartRead
  <2> QED BY <1>2, <2>3, <2>4
<1>5. ASSUME NEW w \in Ids, Live(w), Cancel(c, w)
      PROVE  call[c] = Idle /\ (call'[c].op # "idle" => call'[c].trigger \in Known')
  <2>1. watches[w].trigger \in Known /\ call[c] = Idle
    BY <1>5 DEF RefsKnown, Live, Cancel
  <2>2. call'[c] = Idle \/ call'[c] = [op |-> "complete", trigger |-> watches[w].trigger]
    BY <1>1, <1>5 DEF Cancel
  <2> QED BY <1>2, <2>1, <2>2 DEF Idle
<1>6. ASSUME CancelComplete(c)
      PROVE  call'[c] = Idle /\ (triggers'[call[c].trigger].done \/ Fault)
  <2>1. call[c].trigger \in 1..Len(triggers)
    <3>1. call[c].trigger \in TriggerRef \ {0} /\ call[c].trigger \in Known
      BY <1>1, <1>6 DEF CancelComplete, Calls, Idle, RefsKnown
    <3> QED BY <1>1, <3>1 DEF Known
  <2>2. UpdateCompletedAt(call[c].trigger) \/ Fault
    BY <1>6 DEF CancelComplete
  <2>3. call'[c] = Idle
    BY <1>1, <1>6 DEF CancelComplete, Returns
  <2> QED BY <1>1, <2>1, <2>2, <2>3, UpdateGrows
<1>7. ASSUME StartClosed(c) \/ StartReuse(c) \/ StartNew(c)
      PROVE  call[c].op = "start" /\ call'[c] = Idle
  BY <1>1, <1>7 DEF StartClosed, StartReuse, StartNew, Returns
<1>8. ASSUME NEW k \in Keys, CancelLatest(c, k)
      PROVE  call[c] = Idle /\ (call'[c].op # "idle" => call'[c].trigger \in Known')
  <2>1. active[k] \in Ids
    BY <1>8 DEF CancelLatest, Live, IInv, TypeOK
  <2> QED BY <1>5, <1>8, <2>1 DEF CancelLatest
<1>9. CASE CallerStep(c)
  BY <1>3, <1>4, <1>5, <1>6, <1>7, <1>8, <1>9 DEF CallerStep, CancelByID, Idle
<1>10. ASSUME NEW b \in Callers, b # c, CallerStep(b)
       PROVE  call'[c] = call[c]
  <2>1. \E x : call' = [call EXCEPT ![b] = x]
    BY <1>10, Zenon DEF CallerStep, StartRead, StartClosed, StartReuse, StartNew, CancelByID,
                       CancelLatest, Cancel, CancelComplete, Returns
  <2> QED BY <1>1, <1>10, <2>1
<1>11. CASE Restart
  BY <1>3, <1>11 DEF Restart
<1>12. CASE \/ \E w \in Ids : WorkerStep(w) \/ Notify(w)
            \/ \E pr \in PRs : RequestReview(pr) \/ SettleLatest(pr)
            \/ Close \/ CloseCancel \/ UNCHANGED vars
  <2>1. ASSUME NEW w \in Ids, WorkerStep(w)
        PROVE  call' = call
    BY <2>1, Zenon
       DEF WorkerStep, PollExpired, PollNoClient, PollCall, WorkerStop, PollReturns,
           PollCancelled, PollFailure, HandleUpstreamFailure, PollRead, PollComplete,
           PollRefused, PollBroken, ApplyLate, ApplyRateLow, ApplyDone, ApplyProgress,
           WorkerPanic
  <2>2. call' = call
    BY <1>12, <2>1, Zenon
       DEF Notify, RequestReview, SettleLatest, Close, CloseCancel, vars
  <2> QED BY <1>3, <2>2
<1> QED BY <1>3, <1>9, <1>10, <1>11, <1>12 DEF Next

(***************************************************************************)
(* The second inductive invariant: what the watches, their rows, their     *)
(* subscribers and the requests say of each other.                         *)
(***************************************************************************)

AccountInv ==
  /\ IInv
  /\ RefsKnown
  /\ PollsSettle
  /\ ActiveRowIsLatest
  /\ SubscribersCurrent
  /\ RowMirrorsMemory
  /\ CancelSettlesItsTrigger

\* What one write changes.
LEMMA WritesEffect ==
  ASSUME IInv, NEW w \in Ids, Writes(w)
  PROVE  /\ \A v \in Ids \ {w} : watches'[v] = watches[v] /\ rows'[v] = rows[v]
         /\ watches'[w] \in Watch /\ watches'[w] # Nil
         /\ watches'[w].key = watches[w].key
<1>1. PICK r, d \in Watch : /\ r.key = watches[w].key /\ d.key = watches[w].key
                            /\ Persist(w, r, d)
  BY DEF Writes
<1>2. watches'[w] \in {r, d}
  BY <1>1 DEF Persist, Install, IInv, TypeOK
<1>3. \A v \in Ids \ {w} : watches'[v] = watches[v] /\ rows'[v] = rows[v]
  BY <1>1 DEF Persist, Install, UpsertReviewWatch, UpsertRefused, IInv, TypeOK
<1> QED BY <1>1, <1>2, <1>3, NilIsNoRecord

\* What the registration of a watch changes.
LEMMA RegistersEffect ==
  ASSUME IInv, NEW w \in Ids, Registers(w)
  PROVE  /\ \A v \in Ids \ {w} : watches'[v] = watches[v] /\ rows'[v] = rows[v]
         /\ watches'[w] \in Watch /\ watches'[w] # Nil
         /\ watches'[w].status = "WATCHING" /\ watches'[w].review = Nil
         /\ watches'[w].trigger \in Known
         /\ rows'[w] = RowFor(watches'[w])
<1>1. PICK r \in Watch : /\ ~r.terminal /\ r.status = "WATCHING" /\ r.review = Nil
                         /\ r.trigger \in Known
                         /\ watches' = [watches EXCEPT ![w] = r]
                         /\ UpsertReviewWatch(w, r)
  BY DEF Registers
<1>2. watches'[w] = r /\ rows'[w] = RowFor(r)
  BY <1>1 DEF UpsertReviewWatch, IInv, TypeOK
<1>3. \A v \in Ids \ {w} : watches'[v] = watches[v] /\ rows'[v] = rows[v]
  BY <1>1 DEF UpsertReviewWatch, IInv, TypeOK
<1> QED BY <1>1, <1>2, <1>3, NilIsNoRecord

\* Close: a watch that was live is stale, in memory and, unless refused, in its
\* row; the others are as they were.
LEMMA CloseEffect ==
  ASSUME IInv, Close, NEW w \in Ids
  PROVE  /\ ~Live(w) => watches'[w] = watches[w] /\ rows'[w] = rows[w]
         /\ Live(w) => /\ watches'[w] \in Watch /\ watches'[w] # Nil
                       /\ watches'[w].status = "STALE"
                       /\ watches'[w].trigger = watches[w].trigger
                       /\ rows'[w] = rows[w] \/ rows'[w] = RowFor(watches'[w])
                       /\ faults' = 0 => rows'[w] = RowFor(watches'[w])
<1> DEFINE live == {v \in Ids : Live(v) /\ active[watches[v].key] = v}
<1>1. live = {v \in Ids : Live(v)}
  <2>1. \A v \in Ids : Live(v) => watches[v].key \in Keys
    BY NilIsNoRecord DEF IInv, TypeOK, Live, Watch
  <2> QED BY <2>1 DEF IInv, ActiveIndexExact
<1>2. PICK refused \in SUBSET live :
        /\ faults' = faults + Cardinality(refused)
        /\ watches' = [v \in Ids |->
              CASE v \in refused        -> Degraded(watches[v], "STALE")
                [] v \in live \ refused -> Ended(watches[v], "STALE", watches[v].reason)
                [] OTHER                -> watches[v]]
        /\ rows' = [v \in Ids |-> IF v \in live \ refused
              THEN RowFor(Ended(watches[v], "STALE", watches[v].reason)) ELSE rows[v]]
  BY DEF Close
<1>3. ~Live(w) => watches'[w] = watches[w] /\ rows'[w] = rows[w]
  BY <1>1, <1>2
<1>4. faults' = 0 => refused = {}
  <2>1. IsFiniteSet(refused)
    BY <1>1, Constants, FS_Subset
  <2>2. Cardinality(refused) \in Nat /\ (Cardinality(refused) = 0 <=> refused = {})
    BY <2>1, FS_CardinalityType, FS_EmptySet
  <2>3. faults \in Nat
    BY Constants DEF IInv, TypeOK
  <2> QED BY <1>2, <2>2, <2>3
<1>5. ASSUME Live(w)
      PROVE  /\ watches'[w] \in Watch /\ watches'[w].status = "STALE"
             /\ watches'[w].trigger = watches[w].trigger
             /\ IF w \in refused THEN rows'[w] = rows[w] ELSE rows'[w] = RowFor(watches'[w])
  <2> DEFINE r == watches[w]
             reason == watches[w].reason
  <2>1. r \in Watch /\ w \in live
    BY <1>1, <1>5 DEF IInv, TypeOK, Live
  <2>2. reason \in Reason \union {Nil} /\ "STALE" \in EndStatus /\ Nil \in Reason \union {Nil}
    BY <2>1 DEF Watch, EndStatus
  <2>3. CASE w \in refused
    <3>1. watches'[w] = Degraded(r, "STALE") /\ rows'[w] = rows[w]
      BY <1>2, <2>1, <2>3
    <3> HIDE DEF r, reason
    <3>2. Degraded(r, "STALE") = [Ended(r, "STALE", Nil) EXCEPT !.cancelled = TRUE]
      BY DEF Degraded
    <3>3. Degraded(r, "STALE") \in Watch /\ Degraded(r, "STALE").status = "STALE"
      <4> DEFINE e == [Ended(r, "STALE", Nil) EXCEPT !.cancelled = TRUE]
      <4>1. Sound(e) /\ e.status = "STALE"
        BY <2>1, <2>2, EndedIsSound
      <4> QED BY <3>2, <4>1 DEF Sound
    <3>4. Degraded(r, "STALE").trigger = r.trigger
      BY <2>1, DegradedFails
    <3> QED BY <2>3, <3>1, <3>3, <3>4 DEF r
  <2>4. CASE w \notin refused
    <3>1. watches'[w] = Ended(r, "STALE", reason)
          /\ rows'[w] = RowFor(Ended(r, "STALE", reason))
      BY <1>2, <2>1, <2>4
    <3> HIDE DEF r, reason
    <3>2. Ended(r, "STALE", reason) \in Watch
      BY <2>1, <2>2, EndedType
    <3>3. Ended(r, "STALE", reason).status = "STALE"
          /\ Ended(r, "STALE", reason).trigger = r.trigger
      BY <2>1 DEF Ended, Watch
    <3> QED BY <2>4, <3>1, <3>2, <3>3 DEF r
  <2> QED BY <2>3, <2>4
<1> QED BY <1>2, <1>3, <1>4, <1>5, NilIsNoRecord

\* CloseCancel: only the contexts change, and no watch is live.
LEMMA CloseCancelEffect ==
  ASSUME IInv, CloseCancel, NEW w \in Ids
  PROVE  /\ ~Live(w) /\ phase' = "closed" /\ rows' = rows
         /\ UNCHANGED <<notes, seen, triggers, call, faults>>
         /\ watches[w] = Nil => watches'[w] = Nil
         /\ watches[w] # Nil => /\ watches'[w] # Nil
                                /\ watches'[w].status = watches[w].status
                                /\ watches'[w].trigger = watches[w].trigger
                                /\ RowFor(watches'[w]) = RowFor(watches[w])
<1>1. phase = "closing" /\ phase' = "closed" /\ rows' = rows
      /\ UNCHANGED <<notes, seen, triggers, call, faults>>
  BY DEF CloseCancel
<1>2. ~Live(w)
  BY <1>1 DEF IInv, LiveWatchHasWorker
<1>3. watches[w] = Nil => watches'[w] = Nil
  BY DEF CloseCancel
<1>4. ASSUME watches[w] # Nil
      PROVE  /\ watches'[w] # Nil
             /\ watches'[w].status = watches[w].status
             /\ watches'[w].trigger = watches[w].trigger
             /\ RowFor(watches'[w]) = RowFor(watches[w])
  <2> DEFINE r == watches[w]
  <2>1. r \in Watch /\ watches'[w] = [r EXCEPT !.cancelled = TRUE]
    BY <1>4 DEF CloseCancel, IInv, TypeOK
  <2> HIDE DEF r
  <2>2. /\ watches'[w].status = r.status /\ watches'[w].trigger = r.trigger
        /\ RowFor(watches'[w]) = RowFor(r)
    BY <2>1 DEF Watch, RowFor
  <2>3. watches'[w] \in Watch
    BY <2>1 DEF Watch
  <2> QED BY <2>2, <2>3, NilIsNoRecord DEF r
<1> QED BY <1>1, <1>2, <1>3, <1>4

(***************************************************************************)
(* The parts of AccountInv, one by one.                                    *)
(***************************************************************************)

LEMMA InitAccountInv == Init => AccountInv
<1> SUFFICES ASSUME Init PROVE AccountInv
  OBVIOUS
<1>1. IInv
  BY InitIInv
<1>2. RefsKnown
  <2>1. 0 \in Known
    BY DEF Init, Known
  <2> QED BY <2>1 DEF Init, RefsKnown, NoWorker, Idle
<1> QED BY <1>1, <1>2 DEF Init, AccountInv, PollsSettle, NoWorker, At, ActiveRowIsLatest, ActiveRow,
      SubscribersCurrent, RowMirrorsMemory, CancelSettlesItsTrigger

LEMMA NextRefsKnown == AccountInv /\ IInv' /\ [Next]_vars => RefsKnown'
<1> SUFFICES ASSUME AccountInv, IInv', [Next]_vars
             PROVE  RefsKnown'
  OBVIOUS
<1>1. IInv /\ RefsKnown /\ PollsSettle
  BY DEF AccountInv
<1>2. \A w \in Ids : worker'[w].entry \in Known'
  BY <1>1, NextPollsSettle
<1>3. \A c \in Callers : call'[c].op # "idle" => call'[c].trigger \in Known'
  BY <1>1, NextCalls
<1>4. ASSUME NEW v \in Ids, watches'[v] # Nil
      PROVE  watches'[v].trigger \in Known'
  <2>1. Known \subseteq Known'
    BY <1>1, NextTriggersGrow, KnownGrows
  <2>2. watches[v] # Nil => watches[v].trigger \in Known
    BY <1>1 DEF RefsKnown
  <2>3. CASE watches'[v] = watches[v]
    BY <1>4, <2>1, <2>2, <2>3
  <2>4. CASE Quiet
    BY <2>3, <2>4 DEF Quiet
  <2>5. ASSUME NEW w \in Ids, Writes(w)
        PROVE  watches'[v].trigger \in Known'
    <3>1. watches'[w].trigger \in Known'
      BY <2>1, <2>5 DEF Writes
    <3> QED BY <1>1, <2>3, <2>5, <3>1, WritesEffect
  <2>6. ASSUME NEW w \in Ids, Registers(w)
        PROVE  watches'[v].trigger \in Known'
    BY <1>1, <2>1, <2>3, <2>6, RegistersEffect
  <2>7. CASE Close
    BY <1>1, <2>1, <2>2, <2>3, <2>7, CloseEffect DEF Live
  <2>8. CASE CloseCancel
    BY <1>1, <1>4, <2>1, <2>2, <2>8, CloseCancelEffect
  <2>9. CASE Restart
    BY <1>4, <2>9 DEF Restart
  <2> QED BY <1>1, <2>4, <2>5, <2>6, <2>7, <2>8, <2>9, EveryStepWrites DEF WatchesStep
<1> QED BY <1>2, <1>3, <1>4 DEF RefsKnown

LEMMA NextActiveRowIsLatest == AccountInv /\ [Next]_vars => ActiveRowIsLatest'
<1> SUFFICES ASSUME AccountInv, [Next]_vars, NEW v \in Ids, ActiveRow(v)'
             PROVE  watches'[v] # Nil /\ latest'[rows'[v].key] = v
  BY DEF ActiveRowIsLatest
<1>1. IInv /\ RefsKnown /\ ActiveRowIsLatest /\ rows \in [Ids -> Row \union {Nil}]
      /\ latest \in [Keys -> Ids \union {Nil}]
  BY DEF AccountInv, IInv, TypeOK
<1>2. CASE Quiet
  BY <1>1, <1>2 DEF Quiet, ActiveRowIsLatest, ActiveRow
<1>3. ASSUME NEW w \in Ids, Writes(w)
      PROVE  watches'[v] # Nil /\ latest'[rows'[v].key] = v
  <2>1. latest' = latest /\ Live(w)
    BY <1>3 DEF Writes
  <2>2. CASE v # w
    BY <1>1, <1>3, <2>1, <2>2, WritesEffect DEF ActiveRowIsLatest, ActiveRow
  <2>3. CASE v = w
    <3>1. ActiveRow(w) /\ rows[w].key = watches[w].key
      BY <1>1, <2>1 DEF IInv, LiveWatchHasActiveRow
    <3>2. PICK r \in Watch : r.key = watches[w].key /\ rows' \in {rows, [rows EXCEPT ![w] = RowFor(r)]}
      BY <1>3 DEF Writes, Persist, UpsertReviewWatch, UpsertRefused
    <3>3. rows'[w].key = rows[w].key
      BY <1>1, <3>1, <3>2, RowForType
    <3> QED BY <1>1, <1>3, <2>1, <2>3, <3>1, <3>3, WritesEffect DEF ActiveRowIsLatest
  <2> QED BY <2>2, <2>3
<1>4. ASSUME NEW w \in Ids, Registers(w)
      PROVE  watches'[v] # Nil /\ latest'[rows'[v].key] = v
  <2>1. PICK r \in Watch : /\ ~r.terminal
                           /\ latest' = [latest EXCEPT ![r.key] = w]
                           /\ UpsertReviewWatch(w, r)
    BY <1>4 DEF Registers
  <2>2. r.key \in Keys /\ rows'[w] = RowFor(r) /\ RowFor(r).key = r.key
    BY <1>1, <2>1, RowForType DEF UpsertReviewWatch, Watch
  <2>3. CASE v = w
    BY <1>1, <1>4, <2>1, <2>2, <2>3, RegistersEffect
  <2>4. CASE v # w
    <3>1. watches'[v] = watches[v] /\ rows'[v] = rows[v]
      BY <1>1, <1>4, <2>4, RegistersEffect
    <3>2. ActiveRow(v) /\ rows[v].key # r.key
      BY <2>1, <2>4, <3>1 DEF ActiveRow, UpsertReviewWatch, Conflict
    <3>3. rows[v].key \in Keys
      BY <1>1, <3>2 DEF ActiveRow, Row
    <3> QED BY <1>1, <2>1, <3>1, <3>2, <3>3 DEF ActiveRowIsLatest
  <2> QED BY <2>3, <2>4
<1>5. CASE Close
  <2>1. latest' = latest
    BY <1>5 DEF Close
  <2>2. rows'[v] = rows[v]
    <3> DEFINE e == Ended(watches[v], "STALE", watches[v].reason)
    <3>1. rows'[v] = rows[v] \/ (rows'[v] = RowFor(e) /\ Live(v))
      BY <1>5 DEF Close
    <3>2. ASSUME Live(v) PROVE RowFor(e).active = FALSE
      <4>1. watches[v] \in Watch /\ watches[v].reason \in Reason \union {Nil}
        BY <1>1, <3>2 DEF IInv, TypeOK, Live, Watch
      <4>2. e \in Watch /\ e.terminal = TRUE
        BY <4>1, EndedType DEF EndStatus
      <4> HIDE DEF e
      <4> QED BY <4>2, RowForType DEF RowFor
    <3> HIDE DEF e
    <3> QED BY <3>1, <3>2 DEF ActiveRow
  <2>3. ActiveRow(v) /\ watches[v] # Nil
    BY <1>1, <2>2 DEF ActiveRow, ActiveRowIsLatest
  <2> QED BY <1>1, <1>5, <2>1, <2>2, <2>3, CloseEffect DEF ActiveRowIsLatest, ActiveRow
<1>6. CASE CloseCancel
  <2>1. rows' = rows /\ (watches[v] # Nil => watches'[v] # Nil) /\ latest' = latest
    BY <1>1, <1>6, CloseCancelEffect DEF CloseCancel
  <2> QED BY <1>1, <2>1 DEF ActiveRowIsLatest, ActiveRow
<1>7. CASE Restart
  <2>1. rows[v] \in Row \union {Nil}
    BY <1>1
  <2>2. rows'[v] = MarkActiveStale(v)
    BY <1>7 DEF Restart
  <2> QED BY <2>1, <2>2 DEF MarkActiveStale, ActiveRow, Row
<1> QED BY <1>1, <1>2, <1>3, <1>4, <1>5, <1>6, <1>7, EveryStepWrites DEF WatchesStep

LEMMA NextSubscribersCurrent == AccountInv /\ [Next]_vars => SubscribersCurrent'
<1> SUFFICES ASSUME AccountInv, [Next]_vars, phase' = "open",
                    NEW v \in Ids, watches'[v] # Nil, v \notin notes'
             PROVE  seen'[v] = [status |-> watches'[v].status, review |-> watches'[v].review]
  BY DEF SubscribersCurrent
<1>1. IInv /\ RefsKnown /\ SubscribersCurrent /\ seen \in [Ids -> View \union {Nil}]
  BY DEF AccountInv, IInv, TypeOK
<1>2. CASE Quiet
  <2>1. CASE UNCHANGED <<notes, seen>>
    BY <1>1, <1>2, <2>1 DEF Quiet, SubscribersCurrent
  <2>2. ASSUME NEW w \in Ids, Notify(w)
        PROVE  seen'[v] = [status |-> watches'[v].status, review |-> watches'[v].review]
    BY <1>1, <1>2, <2>2 DEF Quiet, Notify, SubscribersCurrent
  <2> QED BY <1>2, <2>1, <2>2 DEF Quiet
<1>3. ASSUME NEW w \in Ids, Writes(w)
      PROVE  seen'[v] = [status |-> watches'[v].status, review |-> watches'[v].review]
  <2>1. UNCHANGED <<phase, seen>> /\ v \notin notes
    BY <1>3 DEF Writes
  <2>2. watches'[v].status = watches[v].status /\ watches'[v].review = watches[v].review
        /\ watches[v] # Nil
    BY <1>1, <1>3, WritesEffect DEF Writes, Live
  <2> QED BY <1>1, <2>1, <2>2 DEF SubscribersCurrent
<1>4. ASSUME NEW w \in Ids, Registers(w)
      PROVE  seen'[v] = [status |-> watches'[v].status, review |-> watches'[v].review]
  <2>1. UNCHANGED <<phase, notes>>
        /\ seen' = [seen EXCEPT ![w] = [status |-> "WATCHING", review |-> Nil]]
    BY <1>4 DEF Registers
  <2>2. CASE v = w
    BY <1>1, <1>4, <2>1, <2>2, RegistersEffect
  <2>3. CASE v # w
    <3>1. watches'[v] = watches[v] /\ seen'[v] = seen[v]
      BY <1>1, <1>4, <2>1, <2>3, RegistersEffect
    <3> QED BY <1>1, <2>1, <3>1 DEF SubscribersCurrent
  <2> QED BY <2>2, <2>3
<1>5. CASE Close \/ CloseCancel
  BY <1>5 DEF Close, CloseCancel
<1>6. CASE Restart
  BY <1>6 DEF Restart
<1> QED BY <1>1, <1>2, <1>3, <1>4, <1>5, <1>6, EveryStepWrites DEF WatchesStep

LEMMA NextRowMirrorsMemory == AccountInv /\ [Next]_vars => RowMirrorsMemory'
<1> SUFFICES ASSUME AccountInv, [Next]_vars, faults' = 0, NEW v \in Ids, watches'[v] # Nil
             PROVE  rows'[v] = RowFor(watches'[v])
  BY DEF RowMirrorsMemory
<1>1. IInv /\ RefsKnown /\ ActiveRowIsLatest /\ faults \in Nat
  BY Constants DEF AccountInv, IInv, TypeOK
<1>2. faults = 0 => \A w \in Ids : watches[w] # Nil => rows[w] = RowFor(watches[w])
  BY DEF AccountInv, RowMirrorsMemory
<1>3. CASE Quiet
  BY <1>1, <1>2, <1>3 DEF Quiet, Fault
<1>4. ASSUME NEW w \in Ids, Writes(w)
      PROVE  rows'[v] = RowFor(watches'[v])
  <2>1. PICK r, d \in Watch : /\ r.key = watches[w].key /\ d.key = watches[w].key
                              /\ Persist(w, r, d)
    BY <1>4 DEF Writes
  <2>2. faults = 0
    BY <1>1, <2>1 DEF Persist, UpsertReviewWatch, UpsertRefused, Fault
  <2>3. ~Conflict(w, r)
    <3> SUFFICES ASSUME NEW u \in Ids \ {w}, ActiveRow(u), rows[u].key = r.key
                 PROVE  FALSE
      BY DEF Conflict
    <3>1. watches[u] # Nil /\ watches[u] \in Watch
      BY <1>1 DEF ActiveRowIsLatest, IInv, TypeOK
    <3>2. rows[u] = RowFor(watches[u])
      BY <1>2, <2>2, <3>1
    <3>3. Live(u) /\ watches[u].key = watches[w].key
      BY <2>1, <3>1, <3>2, RowForType, Constants DEF ActiveRow, Live
    <3>4. watches[w].key \in Keys /\ Live(w)
      BY <1>4, <2>1 DEF Writes, Watch
    <3> QED BY <1>1, <3>3, <3>4 DEF IInv, ActiveIndexExact
  <2>4. ~UpsertRefused(w, r)
    BY <1>1, <2>2, <2>3 DEF UpsertRefused, Fault
  <2>5. UpsertReviewWatch(w, r) /\ Install(w, r)
    BY <2>1, <2>4 DEF Persist
  <2>6. rows'[w] = RowFor(r) /\ watches'[w] = r
    BY <1>1, <2>5 DEF UpsertReviewWatch, Install, IInv, TypeOK
  <2> QED BY <1>1, <1>2, <1>4, <2>2, <2>6, WritesEffect
<1>5. ASSUME NEW w \in Ids, Registers(w)
      PROVE  rows'[v] = RowFor(watches'[v])
  <2>1. faults = 0
    BY <1>5 DEF Registers, UpsertReviewWatch
  <2> QED BY <1>1, <1>2, <1>5, <2>1, RegistersEffect
<1>6. CASE Close
  <2>1. faults = 0
    <3> DEFINE live == {w \in Ids : Live(w) /\ active[watches[w].key] = w}
    <3>1. PICK refused \in SUBSET live : faults' = faults + Cardinality(refused)
      BY <1>6 DEF Close
    <3>2. Cardinality(refused) \in Nat
      BY Constants, FS_Subset, FS_CardinalityType
    <3> QED BY <1>1, <3>1, <3>2
  <2> QED BY <1>1, <1>2, <1>6, <2>1, CloseEffect
<1>7. CASE CloseCancel
  <2>1. /\ faults = 0 /\ rows'[v] = rows[v] /\ watches[v] # Nil
        /\ RowFor(watches'[v]) = RowFor(watches[v])
    BY <1>1, <1>7, CloseCancelEffect
  <2> QED BY <1>2, <2>1
<1>8. CASE Restart
  BY <1>8 DEF Restart
<1> QED BY <1>1, <1>3, <1>4, <1>5, <1>6, <1>7, <1>8, EveryStepWrites DEF WatchesStep

LEMMA NextCancelSettles ==
  ASSUME AccountInv, IInv', [Next]_vars
  PROVE  CancelSettlesItsTrigger'
<1> SUFFICES ASSUME NEW v \in Ids, watches'[v] # Nil, watches'[v].status = "CANCELLED",
                    ~(faults' > 0)
             PROVE  \/ watches'[v].trigger = 0 \/ triggers'[watches'[v].trigger].done
                    \/ \E c \in Callers : call'[c] = [op |-> "complete",
                                                      trigger |-> watches'[v].trigger]
  BY DEF CancelSettlesItsTrigger, Settled
<1>1. IInv /\ RefsKnown /\ TriggersGrow /\ faults \in Nat
  BY NextTriggersGrow, Constants DEF AccountInv, IInv, TypeOK
<1>2. ~Fault
  BY <1>1 DEF Fault
<1>3. ~Restart
  BY DEF Restart
<1>4. faults' \in Nat /\ faults' = 0
  BY Constants DEF IInv, TypeOK
<1>5. faults = 0
  <2>1. CASE Quiet
    BY <1>2, <1>4, <2>1 DEF Quiet
  <2>2. ASSUME NEW w \in Ids, Writes(w) \/ Registers(w)
        PROVE  faults = 0
    BY <1>2, <1>4, <2>2 DEF Writes, Registers, Persist, UpsertReviewWatch, UpsertRefused
  <2>3. CASE Close
    <3> DEFINE live == {w \in Ids : Live(w) /\ active[watches[w].key] = w}
    <3>1. PICK refused \in SUBSET live : faults' = faults + Cardinality(refused)
      BY <2>3 DEF Close
    <3>2. Cardinality(refused) \in Nat
      BY Constants, FS_Subset, FS_CardinalityType
    <3> QED BY <1>1, <1>4, <3>1, <3>2
  <2>4. CASE CloseCancel
    BY <1>4, <2>4 DEF CloseCancel
  <2> QED BY <1>1, <1>3, <2>1, <2>2, <2>3, <2>4, EveryStepWrites DEF WatchesStep
\* A request that was settled or owed before the step is settled or owed after it.
<1>6. ASSUME watches[v] # Nil, watches[v].status = "CANCELLED",
             watches'[v].trigger = watches[v].trigger
      PROVE  \/ watches'[v].trigger = 0 \/ triggers'[watches'[v].trigger].done
             \/ \E c \in Callers : call'[c] = [op |-> "complete",
                                               trigger |-> watches'[v].trigger]
  <2> DEFINE t == watches[v].trigger
  <2>1. t \in Known /\ watches'[v].trigger = t
    BY <1>1, <1>6 DEF RefsKnown
  <2>2. Settled(t) \/ \E c \in Callers : call[c] = [op |-> "complete", trigger |-> t]
    BY <1>5, <1>6 DEF AccountInv, CancelSettlesItsTrigger
  <2> HIDE DEF t
  <2>3. CASE Settled(t)
    BY <1>1, <2>1, <2>3, SettledStays
  <2>4. ASSUME NEW c \in Callers, call[c] = [op |-> "complete", trigger |-> t]
        PROVE  triggers'[t].done \/ call'[c] = [op |-> "complete", trigger |-> t]
    <3>1. call[c].op = "complete" /\ call[c].trigger = t
      BY <2>4
    <3> QED BY <1>1, <1>2, <1>3, <2>4, <3>1, NextCalls
  <2> QED BY <2>1, <2>2, <2>3, <2>4
<1>7. CASE Quiet
  BY <1>6, <1>7 DEF Quiet
<1>8. ASSUME NEW w \in Ids, Writes(w)
      PROVE  \/ watches'[v].trigger = 0 \/ triggers'[watches'[v].trigger].done
             \/ \E c \in Callers : call'[c] = [op |-> "complete",
                                               trigger |-> watches'[v].trigger]
  <2>1. CASE v = w
    BY <1>8, <2>1 DEF Writes, OwesRequest
  <2>2. CASE v # w
    BY <1>1, <1>6, <1>8, <2>2, WritesEffect
  <2> QED BY <2>1, <2>2
<1>9. ASSUME NEW w \in Ids, Registers(w)
      PROVE  \/ watches'[v].trigger = 0 \/ triggers'[watches'[v].trigger].done
             \/ \E c \in Callers : call'[c] = [op |-> "complete",
                                               trigger |-> watches'[v].trigger]
  BY <1>1, <1>6, <1>9, RegistersEffect
<1>10. CASE Close
  BY <1>1, <1>6, <1>10, CloseEffect
<1>11. CASE CloseCancel
  BY <1>1, <1>6, <1>11, CloseCancelEffect
<1> QED BY <1>1, <1>3, <1>7, <1>8, <1>9, <1>10, <1>11, EveryStepWrites DEF WatchesStep

\* AccountInv is inductive.
LEMMA NextAccountInv == AccountInv /\ [Next]_vars => AccountInv'
<1> SUFFICES ASSUME AccountInv, [Next]_vars
             PROVE  AccountInv'
  OBVIOUS
<1>1. IInv'
  BY NextIInv DEF AccountInv
<1>2. PollsSettle'
  BY <1>1, NextPollsSettle DEF AccountInv
<1> QED BY <1>1, <1>2, NextRefsKnown, NextActiveRowIsLatest, NextSubscribersCurrent,
           NextRowMirrorsMemory, NextCancelSettles DEF AccountInv

\* In every reachable state the manager's watches, their rows, the requests of
\* trigger_log and the notifications under way account for each other.
THEOREM AccountInvariance == Spec => []AccountInv
<1> QED BY InitAccountInv, NextAccountInv, PTL DEF Spec

\* While the manager is open, a subscriber knows the state of its watch or a
\* notification is on its way, whatever writes are refused.
THEOREM NoticeIsNeverLost == Spec => []SubscribersCurrent
<1>1. AccountInv => SubscribersCurrent
  BY DEF AccountInv
<1> QED BY <1>1, AccountInvariance, PTL

\* As long as SQLite refuses nothing, the store says of every watch what the
\* process says, so a restart loses no more than the watch's goroutine.
THEOREM StoreIsMemory == Spec => []RowMirrorsMemory
<1>1. AccountInv => RowMirrorsMemory
  BY DEF AccountInv
<1> QED BY <1>1, AccountInvariance, PTL

\* Every row the unique index counts as active is of a watch of this process, and
\* of the newest of its key: activeByKey, latestByKey and the table never
\* disagree on which watch a restart will find, refused ends included.
THEOREM ActiveRowsAreLatest == Spec => []ActiveRowIsLatest
<1>1. AccountInv => ActiveRowIsLatest
  BY DEF AccountInv
<1> QED BY <1>1, AccountInvariance, PTL

\* A cancelled watch leaves no request pending for good while nothing is refused.
THEOREM CancelIsAccounted == Spec => []CancelSettlesItsTrigger
<1>1. AccountInv => CancelSettlesItsTrigger
  BY DEF AccountInv
<1> QED BY <1>1, AccountInvariance, PTL

\* A watch ends reviewed only when the poll that ended it had completed the
\* request it read.
THEOREM RequestBeforeWatch == Spec => DoneAfterItsRequest
<1> DEFINE A == \A w \in Ids : Live(w) /\ watches'[w] # Nil /\ watches'[w].status \in ReviewDone
                               => Settled(worker[w].entry)
<1>1. AccountInv /\ [Next]_vars => A
  <2> SUFFICES ASSUME AccountInv, [Next]_vars,
                      NEW v \in Ids, Live(v), watches'[v] # Nil,
                      watches'[v].status \in ReviewDone
               PROVE  Settled(worker[v].entry)
    OBVIOUS
  <2>1. IInv /\ RefsKnown /\ PollsSettle
    BY DEF AccountInv
  <2>2. watches[v].status = "WATCHING" /\ watches[v] # Nil
    BY <2>1 DEF IInv, LiveWatchHasActiveRow, Live
  <2>3. watches'[v].status # "WATCHING" /\ watches'[v].status # "STALE"
    BY DEF ReviewDone
  <2>4. CASE Quiet
    BY <2>2, <2>3, <2>4 DEF Quiet
  <2>5. ASSUME NEW w \in Ids, Writes(w)
        PROVE  Settled(worker[v].entry)
    <3>1. w = v
      BY <2>1, <2>2, <2>3, <2>5, WritesEffect
    <3>2. ApplyDone(v)
      BY <2>5, <3>1 DEF Writes
    <3> QED BY <2>1, <3>2 DEF PollsSettle, ApplyDone
  <2>6. ASSUME NEW w \in Ids, Registers(w)
        PROVE  FALSE
    BY <2>1, <2>2, <2>3, <2>6, RegistersEffect
  <2>7. CASE Close
    BY <2>1, <2>3, <2>7, CloseEffect
  <2>8. CASE CloseCancel
    BY <2>1, <2>8, CloseCancelEffect
  <2>9. CASE Restart
    BY <2>9 DEF Restart
  <2> QED BY <2>1, <2>4, <2>5, <2>6, <2>7, <2>8, <2>9, EveryStepWrites DEF WatchesStep
<1> HIDE DEF A
<1>2. AccountInv /\ [Next]_vars => [A]_vars
  BY <1>1
<1>3. Spec => [][A]_vars
  BY <1>2, AccountInvariance, PTL DEF Spec
<1> QED BY <1>3 DEF A, DoneAfterItsRequest
====
