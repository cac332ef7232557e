------------------------- MODULE WatchRefinementProofs -------------------------
(***************************************************************************)
(* WatchManager implements WatchRegistry, for any number of logins, pull   *)
(* requests, tokens, watches and callers, and any bounds: every step of a  *)
(* caller, a worker, Close or a restart is one step of the registry, or    *)
(* none.                                                                   *)
(***************************************************************************)
EXTENDS WatchManagerProofs

(***************************************************************************)
(* What the mapping needs beyond IInv: the status alone tells whether a    *)
(* watch, or a row, has ended.                                             *)
(***************************************************************************)
Tells(r) == r.terminal <=> r.status # "WATCHING"

StatusTells ==
  /\ \A w \in Ids : watches[w] # Nil => Tells(watches[w])
  /\ \A w \in Ids : rows[w] # Nil => (rows[w].active <=> rows[w].status = "WATCHING")

\* One step of the registry, or none.
RegistryStep == Registry!RegistryNext \/ UNCHANGED Registry!registry

(***************************************************************************)
(* The mapping.                                                            *)
(***************************************************************************)

\* A table whose entries in S took the status s, and only those, is the marked one.
LEMMA MarkedSummary ==
  ASSUME NEW f, NEW g, NEW S \in SUBSET Ids, NEW s,
         \A w \in S : /\ f[w] # Nil /\ g[w] # Nil
                      /\ g[w].key = f[w].key /\ g[w].status = s,
         \A w \in Ids \ S : \/ g[w] = f[w]
                            \/ /\ f[w] # Nil /\ g[w] # Nil
                               /\ g[w].key = f[w].key /\ g[w].status = f[w].status
  PROVE  Summary(g) = Registry!Marked(Summary(f), S, s)
<1> DEFINE G == Summary(g)
           M == Registry!Marked(Summary(f), S, s)
<1>1. G = [w \in Ids |-> G[w]] /\ M = [w \in Ids |-> M[w]]
  BY DEF Summary, Registry!Marked
<1>2. ASSUME NEW w \in S
      PROVE  G[w] = M[w]
  <2>1. w \in Ids /\ f[w] # Nil /\ g[w] # Nil /\ g[w].key = f[w].key /\ g[w].status = s
    OBVIOUS
  <2>2. G[w] = [key |-> f[w].key, status |-> s]
    BY <2>1 DEF Summary
  <2>3. Summary(f)[w] = [key |-> f[w].key, status |-> f[w].status]
    BY <2>1 DEF Summary
  <2>4. M[w] = [Summary(f)[w] EXCEPT !.status = s]
    BY <2>1 DEF Registry!Marked
  <2> QED BY <2>2, <2>3, <2>4
<1>3. ASSUME NEW w \in Ids \ S
      PROVE  G[w] = M[w]
  BY DEF Summary, Registry!Marked
<1>4. \A w \in Ids : G[w] = M[w]
  BY <1>2, <1>3
<1> HIDE DEF G, M
<1> QED BY <1>1, <1>4 DEF G, M

\* The registry's watching entries are the live watches and the active rows.
LEMMA WatchingIsLive ==
  ASSUME IInv, StatusTells, NEW w \in Ids
  PROVE  /\ Registry!Watching(Summary(watches), w) <=> Live(w)
         /\ Registry!Watching(Summary(rows), w) <=> ActiveRow(w)
         /\ watches[w] # Nil => /\ Summary(watches)[w].key = watches[w].key
                                /\ Summary(watches)[w].status = watches[w].status
         /\ rows[w] # Nil => /\ Summary(rows)[w].key = rows[w].key
                             /\ Summary(rows)[w].status = rows[w].status
<1>1. w # Nil
  BY Constants
<1>2. /\ watches[w] # Nil => watches[w] \in Watch
      /\ rows[w] # Nil => rows[w] \in Row
  BY DEF IInv, TypeOK
<1>3. ASSUME watches[w] # Nil
      PROVE  Summary(watches)[w] = [key |-> watches[w].key, status |-> watches[w].status]
             /\ Summary(watches)[w] # Nil
  <2>1. Summary(watches)[w] = [key |-> watches[w].key, status |-> watches[w].status]
    BY <1>3 DEF Summary
  <2>2. watches[w].key \in Keys /\ watches[w].status \in EndStatus \union {"WATCHING"}
    BY <1>2, <1>3 DEF Watch
  <2> QED BY <2>1, <2>2, NilIsNoRecord
<1>4. ASSUME rows[w] # Nil
      PROVE  Summary(rows)[w] = [key |-> rows[w].key, status |-> rows[w].status]
             /\ Summary(rows)[w] # Nil
  <2>1. Summary(rows)[w] = [key |-> rows[w].key, status |-> rows[w].status]
    BY <1>4 DEF Summary
  <2>2. rows[w].key \in Keys /\ rows[w].status \in EndStatus \union {"WATCHING"}
    BY <1>2, <1>4 DEF Row
  <2> QED BY <2>1, <2>2, NilIsNoRecord
<1>5. /\ watches[w] = Nil => Summary(watches)[w] = Nil
      /\ rows[w] = Nil => Summary(rows)[w] = Nil
  BY DEF Summary
<1> QED BY <1>1, <1>3, <1>4, <1>5 DEF Registry!Watching, StatusTells, Tells, Live, ActiveRow

\* Tables whose entries have the same keys and statuses are the same to the registry.
LEMMA SameSummary ==
  ASSUME NEW f, NEW g,
         \A w \in Ids : \/ g[w] = f[w]
                        \/ /\ f[w] # Nil /\ g[w] # Nil
                           /\ g[w].key = f[w].key /\ g[w].status = f[w].status
  PROVE  Summary(g) = Summary(f)
BY DEF Summary

\* A step that leaves the watches and their rows alone.
LEMMA QuietRefines ==
  ASSUME StatusTells, UNCHANGED <<watches, rows>>
  PROVE  StatusTells' /\ RegistryStep
BY DEF StatusTells, Tells, RegistryStep, Registry!registry, Summary

(***************************************************************************)
(* A write of one live watch.                                              *)
(***************************************************************************)

\* persistLocked and persistOrDegradeLocked: an accepted write ends the watch in
\* both tables or in none, a refused one loses it or leaves it as it was.
LEMMA WriteRefines ==
  ASSUME IInv, StatusTells, NEW w \in Ids, Live(w),
         NEW r, r \in Watch, Tells(r), r.key = watches[w].key,
         NEW d, d \in Watch, Tells(d), d.key = watches[w].key,
         d.status \in {"WATCHING", "FAILED", "STALE"},
         Persist(w, r, d)
  PROVE  StatusTells' /\ RegistryStep
<1>1. /\ watches[w] # Nil /\ watches[w].status = "WATCHING"
      /\ rows[w] # Nil /\ rows[w].status = "WATCHING" /\ rows[w].key = watches[w].key
  BY DEF Live, IInv, LiveWatchHasActiveRow, ActiveRow
<1>2. Registry!Watching(Summary(watches), w)
  BY WatchingIsLive
<1>3. r # Nil /\ d # Nil /\ RowFor(r) # Nil
      /\ (RowFor(r).active <=> ~r.terminal) /\ RowFor(r).key = r.key /\ RowFor(r).status = r.status
  BY RowForType, NilIsNoRecord
<1>4. r.status \in EndStatus \union {"WATCHING"}
  BY DEF Watch
<1>5. CASE UpsertReviewWatch(w, r) /\ Install(w, r)
  <2>1. /\ watches'[w] = r /\ \A v \in Ids \ {w} : watches'[v] = watches[v]
        /\ rows'[w] = RowFor(r) /\ \A v \in Ids \ {w} : rows'[v] = rows[v]
    BY <1>5 DEF UpsertReviewWatch, Install, IInv, TypeOK
  <2>2. StatusTells'
    BY <1>3, <2>1 DEF StatusTells, Tells
  <2>3. CASE r.status = "WATCHING"
    <3>1. Summary(watches') = Summary(watches) /\ Summary(rows') = Summary(rows)
      BY <1>1, <1>3, <2>1, <2>3, SameSummary
    <3> QED BY <2>2, <3>1 DEF RegistryStep, Registry!registry, Summary
  <2>4. CASE r.status # "WATCHING"
    <3>1. /\ Summary(watches') = Registry!Marked(Summary(watches), {w}, r.status)
          /\ Summary(rows') = Registry!Marked(Summary(rows), {w}, r.status)
      BY <1>1, <1>3, <2>1, MarkedSummary
    <3>2. Registry!End(w, r.status)
      BY <1>2, <3>1 DEF Registry!End, Summary
    <3> QED BY <1>4, <2>2, <2>4, <3>2 DEF RegistryStep, Registry!RegistryNext
  <2> QED BY <2>3, <2>4
<1>6. CASE UpsertRefused(w, r) /\ Install(w, d)
  <2>1. /\ watches'[w] = d /\ \A v \in Ids \ {w} : watches'[v] = watches[v]
        /\ rows' = rows
    BY <1>6 DEF UpsertRefused, Install, IInv, TypeOK
  <2>2. StatusTells'
    BY <2>1 DEF StatusTells, Tells
  <2>3. CASE d.status = "WATCHING"
    <3>1. Summary(watches') = Summary(watches)
      BY <1>1, <1>3, <2>1, <2>3, SameSummary
    <3> QED BY <2>1, <2>2, <3>1 DEF RegistryStep, Registry!registry, Summary
  <2>4. CASE d.status # "WATCHING"
    <3>1. Summary(watches') = Registry!Marked(Summary(watches), {w}, d.status)
      BY <1>1, <1>3, <2>1, MarkedSummary
    <3>2. Registry!Lose(w)
      BY <1>2, <2>1, <2>4, <3>1 DEF Registry!Lose, Summary
    <3> QED BY <2>2, <3>2 DEF RegistryStep, Registry!RegistryNext
  <2> QED BY <2>3, <2>4
<1> QED BY <1>5, <1>6 DEF Persist

\* The record a refused write leaves.
LEMMA DegradedTells ==
  ASSUME NEW r \in Watch, NEW intended
  PROVE  LET d == Degraded(r, intended)
         IN /\ d \in Watch /\ d.key = r.key /\ Tells(d)
            /\ d.status \in {"FAILED", "STALE"}
<1> DEFINE status == IF intended = "STALE" THEN "STALE" ELSE "FAILED"
           reason == IF intended = "STALE" THEN Nil ELSE "INTERNAL_ERROR"
<1>1. status \in EndStatus /\ reason \in Reason \union {Nil} /\ status \in {"FAILED", "STALE"}
  BY DEF EndStatus, Reason
<1>2. Degraded(r, intended) = [Ended(r, status, reason) EXCEPT !.cancelled = TRUE]
  BY DEF Degraded
<1> HIDE DEF status, reason
<1> QED BY <1>1, <1>2, EndedIsSound DEF Tells, Sound

\* persistOrDegradeLocked.
LEMMA PersistOrDegradeRefines ==
  ASSUME IInv, StatusTells, NEW w \in Ids, Live(w),
         NEW r, r \in Watch, Tells(r), r.key = watches[w].key, NEW intended,
         PersistOrDegrade(w, r, intended)
  PROVE  StatusTells' /\ RegistryStep
<1> DEFINE d == Degraded(r, intended)
<1>1. /\ d \in Watch /\ d.key = watches[w].key /\ Tells(d)
      /\ d.status \in {"WATCHING", "FAILED", "STALE"}
  BY DegradedTells
<1>2. Persist(w, r, d)
  BY DEF PersistOrDegrade
<1> HIDE DEF d
<1> QED BY <1>1, <1>2, WriteRefines

\* finishLocked.
LEMMA FinishLockedRefines ==
  ASSUME IInv, StatusTells, NEW w \in Ids, Live(w),
         NEW r, r \in Watch, r.key = watches[w].key,
         NEW status \in EndStatus, NEW reason \in Reason \union {Nil},
         FinishLocked(w, r, status, reason)
  PROVE  StatusTells' /\ RegistryStep
<1> DEFINE e == [Ended(r, status, reason) EXCEPT !.cancelled = TRUE]
<1>1. Sound(e) /\ e.terminal /\ e.key = watches[w].key /\ e.status = status
  BY EndedIsSound
<1>2. status # "WATCHING"
  BY DEF EndStatus, ReviewDone
<1>3. PersistOrDegrade(w, e, status)
  BY DEF FinishLocked
<1> HIDE DEF e
<1>4. e \in Watch /\ Tells(e)
  BY <1>1, <1>2 DEF Sound, Tells
<1> QED BY <1>1, <1>3, <1>4, PersistOrDegradeRefines

\* finishState and markStale.
LEMMA FinishStateRefines ==
  ASSUME IInv, StatusTells, NEW w \in Ids, worker[w].pc # "none",
         NEW status \in EndStatus, NEW reason \in Reason \union {Nil},
         FinishState(w, status, reason)
  PROVE  StatusTells' /\ RegistryStep
<1>1. watches[w] # Nil /\ watches[w] \in Watch /\ w # Nil
  BY Constants DEF IInv, GoroutinesHaveWatch, TypeOK
<1>2. CASE watches[w].terminal
  BY <1>2, QuietRefines DEF FinishState
<1>3. CASE ~watches[w].terminal
  BY <1>1, <1>3, FinishLockedRefines DEF FinishState, Live
<1> QED BY <1>2, <1>3

(***************************************************************************)
(* Every action of the manager is a step of the registry, or none.         *)
(***************************************************************************)

\* Start: reuse writes the live watch, a new watch is registered.
LEMMA StartRefines ==
  ASSUME IInv, StatusTells, NEW c \in Callers,
         \/ \E k \in Keys, t \in Tokens : StartRead(c, k, t)
         \/ StartClosed(c) \/ StartReuse(c) \/ StartNew(c)
  PROVE  StatusTells' /\ RegistryStep
<1>1. CASE (\E k \in Keys, t \in Tokens : StartRead(c, k, t)) \/ StartClosed(c)
  BY <1>1, QuietRefines DEF StartRead, StartClosed, memory
<1>2. CASE StartReuse(c)
  <2> DEFINE w == active[call[c].key]
             r == Reused(watches[w], call[c].token, call[c].trigger)
  <2>1. call[c] \in [op: {"start"}, key: Keys, token: Tokens, trigger: TriggerRef]
    BY <1>2 DEF StartReuse, IInv, TypeOK, Calls, Idle
  <2>2. Live(w) /\ w \in Ids /\ watches[w] \in Watch
    BY <1>2, <2>1 DEF StartReuse, IInv, TypeOK, Live
  <2>3. watches[w].status = "WATCHING" /\ ~watches[w].terminal
    BY <2>2 DEF Live, IInv, LiveWatchHasActiveRow
  <2>4. UNCHANGED <<watches, rows>> \/ Persist(w, r, r)
    BY <1>2 DEF StartReuse
  <2>5. r \in Watch /\ r.key = watches[w].key
        /\ r.status = watches[w].status /\ r.terminal = watches[w].terminal
    <3>1. 0 \in 0..Threshold
      BY Constants
    <3> HIDE DEF w
    <3>2. CASE watches[w].token = call[c].token
      BY <2>1, <2>2, <3>1, <3>2 DEF Reused, Linked, Watch
    <3>3. CASE watches[w].token # call[c].token
      BY <2>1, <2>2, <3>1, <3>3 DEF Reused, Linked, Watch
    <3> QED BY <3>2, <3>3
  <2> HIDE DEF w, r
  <2>6. Tells(r) /\ r.status \in {"WATCHING", "FAILED", "STALE"}
    BY <2>3, <2>5 DEF Tells
  <2> QED BY <2>2, <2>4, <2>5, <2>6, WriteRefines, QuietRefines
<1>3. CASE StartNew(c)
  <2> DEFINE k == call[c].key
  <2>1. call[c] \in [op: {"start"}, key: Keys, token: Tokens, trigger: TriggerRef]
    BY <1>3 DEF StartNew, IInv, TypeOK, Calls, Idle
  <2>2. \A v \in Ids : ~(Live(v) /\ watches[v].key = k)
    BY <1>3, <2>1 DEF StartNew, IInv, ActiveIndexExact
  <2>3. PICK w \in Fresh :
          LET r == NewWatch(k, call[c].token, call[c].trigger)
          IN \/ UpsertReviewWatch(w, r) /\ watches' = [watches EXCEPT ![w] = r]
             \/ UNCHANGED <<watches, rows>>
    BY <1>3 DEF StartNew, UpsertRefused
  <2> DEFINE r == NewWatch(k, call[c].token, call[c].trigger)
  <2>4. /\ r \in Watch /\ r # Nil /\ r.key = k /\ r.status = "WATCHING" /\ r.terminal = FALSE
        /\ k \in Keys
    <3>1. 0 \in 0..Threshold /\ call[c].token \in Tokens /\ call[c].trigger \in TriggerRef
          /\ k \in Keys
      BY <2>1, Constants
    <3> HIDE DEF k
    <3>2. r \in Watch
      BY <3>1 DEF NewWatch, Watch
    <3>3. r.key = k /\ r.status = "WATCHING" /\ r.terminal = FALSE
      BY DEF NewWatch
    <3> QED BY <3>1, <3>2, <3>3, NilIsNoRecord
  <2>5. w \in Ids /\ rows[w] = Nil /\ watches[w] = Nil
    BY <2>3 DEF Fresh, IInv, WatchHasRow
  <2> HIDE DEF r, k
  <2>6. CASE UpsertReviewWatch(w, r) /\ watches' = [watches EXCEPT ![w] = r]
    <3>1. /\ watches'[w] = r /\ \A v \in Ids \ {w} : watches'[v] = watches[v]
          /\ rows'[w] = RowFor(r) /\ \A v \in Ids \ {w} : rows'[v] = rows[v]
      BY <2>5, <2>6 DEF UpsertReviewWatch, IInv, TypeOK
    <3>2. RowFor(r) # Nil /\ RowFor(r).key = k /\ RowFor(r).status = "WATCHING"
          /\ RowFor(r).active
      BY <2>4, RowForType, NilIsNoRecord
    <3>3. StatusTells'
      BY <2>4, <3>1, <3>2 DEF StatusTells, Tells
    <3>4. ~Registry!Watched(Summary(watches), k)
      <4> SUFFICES ASSUME NEW v \in Ids, Registry!Watching(Summary(watches), v),
                          Summary(watches)[v].key = k
                   PROVE  FALSE
        BY DEF Registry!Watched
      <4> QED BY <2>2, WatchingIsLive DEF Live
    <3>5. ~Registry!Watched(Summary(rows), k)
      <4> SUFFICES ASSUME NEW v \in Ids, Registry!Watching(Summary(rows), v),
                          Summary(rows)[v].key = k
                   PROVE  FALSE
        BY DEF Registry!Watched
      <4>1. ActiveRow(v) /\ rows[v].key = k
        BY WatchingIsLive DEF ActiveRow
      <4>2. ~Conflict(w, r)
        BY <2>6 DEF UpsertReviewWatch
      <4> QED BY <2>4, <2>5, <4>1, <4>2 DEF Conflict, ActiveRow
    <3>6. /\ Summary(watches)[w] = Nil /\ Summary(rows)[w] = Nil
          /\ Summary(watches') = [Summary(watches) EXCEPT ![w] = [key |-> k, status |-> "WATCHING"]]
          /\ Summary(rows') = [Summary(rows) EXCEPT ![w] = [key |-> k, status |-> "WATCHING"]]
      BY <2>4, <2>5, <3>1, <3>2 DEF Summary
    <3>7. Registry!Register(w, k)
      BY <3>4, <3>5, <3>6 DEF Registry!Register, Summary
    <3> QED BY <2>4, <2>5, <3>3, <3>7 DEF RegistryStep, Registry!RegistryNext
  <2>7. CASE UNCHANGED <<watches, rows>>
    BY <2>7, QuietRefines
  <2> QED BY <2>3, <2>6, <2>7 DEF r
<1> QED BY <1>1, <1>2, <1>3

\* Cancel, by ID or by key, and the trigger_log update that follows it.
LEMMA CancelRefines ==
  ASSUME IInv, StatusTells, NEW c \in Callers,
         \/ \E l \in Logins, w \in Ids : CancelByID(c, l, w)
         \/ \E k \in Keys : CancelLatest(c, k)
         \/ CancelComplete(c)
  PROVE  StatusTells' /\ RegistryStep
<1>1. ASSUME NEW w \in Ids, Live(w), Cancel(c, w)
      PROVE  StatusTells' /\ RegistryStep
  <2>1. watches[w] \in Watch
    BY <1>1 DEF IInv, TypeOK, Live
  <2>2. "CANCELLED" \in EndStatus /\ Nil \in Reason \union {Nil}
    BY DEF EndStatus
  <2> QED BY <1>1, <2>1, <2>2, FinishLockedRefines DEF Cancel
<1>2. CASE \E l \in Logins, w \in Ids : CancelByID(c, l, w)
  BY <1>1, <1>2 DEF CancelByID
<1>3. ASSUME NEW k \in Keys, CancelLatest(c, k)
      PROVE  StatusTells' /\ RegistryStep
  <2>1. active[k] \in Ids
    BY <1>3 DEF CancelLatest, Live, IInv, TypeOK
  <2> QED BY <1>1, <1>3, <2>1 DEF CancelLatest
<1>4. CASE CancelComplete(c)
  BY <1>4, QuietRefines DEF CancelComplete, memory
<1> QED BY <1>2, <1>3, <1>4

\* A worker writes no watch, ends its watch, or goes on with it.
LEMMA WorkerRefines ==
  ASSUME IInv, StatusTells, NEW w \in Ids, WorkerStep(w)
  PROVE  StatusTells' /\ RegistryStep
<1>1. worker[w] \in Worker /\ worker[w].pc # "none"
  BY DEF WorkerStep, PollExpired, PollNoClient, PollCall, WorkerStop, PollReturns,
         PollCancelled, PollFailure, HandleUpstreamFailure, PollRead, PollComplete,
         PollRefused, PollBroken, ApplyLate, ApplyRateLow, ApplyDone, ApplyProgress,
         WorkerPanic, At, IInv, TypeOK
<1>2. watches[w] # Nil /\ watches[w] \in Watch /\ w # Nil
  BY <1>1, Constants DEF IInv, GoroutinesHaveWatch, TypeOK
<1>3. Nil \in Reason \union {Nil} /\ {"INTERNAL_ERROR", "AUTH_EXPIRED"} \subseteq Reason \union {Nil}
      /\ {"TIMEOUT", "FAILED", "STALE", "RATE_LIMITED"} \union ReviewDone \subseteq EndStatus
  BY DEF Reason, EndStatus
<1>4. ~watches[w].terminal => /\ Live(w) /\ watches[w].status = "WATCHING"
                              /\ watches[w].terminal = FALSE
  BY <1>2 DEF Live, StatusTells, Tells, Watch
<1>5. CASE \/ PollCall(w) \/ WorkerStop(w) \/ PollCancelled(w) \/ PollRead(w)
           \/ PollComplete(w) \/ PollRefused(w) \/ ApplyLate(w)
  BY <1>5, QuietRefines DEF PollCall, WorkerStop, PollCancelled, PollRead,
       PollComplete, PollRefused, ApplyLate, memory
<1>6. CASE PollExpired(w) \/ PollNoClient(w) \/ PollBroken(w) \/ WorkerPanic(w)
  BY <1>1, <1>3, <1>6, FinishStateRefines DEF PollExpired, PollNoClient, PollBroken, WorkerPanic
<1>7. CASE PollFailure(w)
  <2>1. PICK e \in Errors : FinishState(w, IF e = "RATE_LIMITED" THEN e ELSE "FAILED",
                                           IF e = "RATE_LIMITED" THEN Nil ELSE e)
    BY <1>7 DEF PollFailure
  <2> DEFINE status == IF e = "RATE_LIMITED" THEN e ELSE "FAILED"
             reason == IF e = "RATE_LIMITED" THEN Nil ELSE e
  <2>2. status \in EndStatus /\ reason \in Reason \union {Nil}
    BY Constants DEF EndStatus, Reason
  <2>3. FinishState(w, status, reason)
    BY <2>1
  <2> HIDE DEF status, reason
  <2> QED BY <1>1, <2>2, <2>3, FinishStateRefines
<1>8. CASE HandleUpstreamFailure(w)
  <2> DEFINE f == [watches[w] EXCEPT !.fails = @ + 1]
  <2>1. CASE watches[w].terminal
    BY <1>8, <2>1, QuietRefines DEF HandleUpstreamFailure
  <2>2. CASE ~watches[w].terminal
    <3>1. f \in Watch /\ f.key = watches[w].key /\ Tells(f)
      <4>1. watches[w].fails \in 0..Threshold /\ watches[w].fails < Threshold /\ Threshold \in Nat
        BY <1>2, <1>4, <2>2, Constants DEF IInv, BudgetNotSpent, Watch
      <4>2. watches[w].fails + 1 \in 0..Threshold
        BY <4>1
      <4>3. f \in Watch /\ f.key = watches[w].key
            /\ f.status = watches[w].status /\ f.terminal = watches[w].terminal
        BY <1>2, <4>2 DEF Watch
      <4> QED BY <1>4, <2>2, <4>3 DEF Tells
    <3>2. FinishLocked(w, f, "FAILED", "AUTH_EXPIRED") \/ PersistOrDegrade(w, f, "WATCHING")
      BY <1>8, <2>2 DEF HandleUpstreamFailure
    <3> HIDE DEF f
    <3> QED BY <1>3, <1>4, <2>2, <3>1, <3>2, FinishLockedRefines, PersistOrDegradeRefines
  <2> QED BY <2>1, <2>2
<1> DEFINE o == Observed(w)
           l == Linked(o, worker[w].entry)
<1>9. /\ o \in Watch /\ o.key = watches[w].key
      /\ l \in Watch /\ l.key = watches[w].key
      /\ l.status = watches[w].status /\ l.terminal = watches[w].terminal
  <2>1. worker[w].review \in ReviewStatus \union {Nil} /\ worker[w].entry \in TriggerRef
    BY <1>1 DEF Worker
  <2>2. /\ o \in Watch /\ o.key = watches[w].key
        /\ o.status = watches[w].status /\ o.terminal = watches[w].terminal
    BY <1>2, <2>1 DEF Observed, Watch
  <2> HIDE DEF o
  <2> QED BY <2>1, <2>2 DEF Linked, Watch
<1>10. CASE ApplyRateLow(w)
  <2>1. FinishLocked(w, o, "RATE_LIMITED", Nil) /\ ~watches[w].terminal
    BY <1>10 DEF ApplyRateLow
  <2> HIDE DEF o, l
  <2> QED BY <1>3, <1>4, <1>9, <2>1, FinishLockedRefines
<1>11. CASE ApplyDone(w)
  <2>1. FinishLocked(w, l, worker[w].review, Nil) /\ ~watches[w].terminal
        /\ worker[w].review \in EndStatus
    BY <1>3, <1>11 DEF ApplyDone
  <2> HIDE DEF o, l
  <2> QED BY <1>3, <1>4, <1>9, <2>1, FinishLockedRefines
<1>12. CASE ApplyProgress(w)
  <2> DEFINE p == [l EXCEPT !.fails = 0]
  <2>1. PersistOrDegrade(w, p, "WATCHING") /\ ~watches[w].terminal
    BY <1>12 DEF ApplyProgress
  <2> HIDE DEF o, l
  <2>2. p \in Watch /\ p.key = watches[w].key
        /\ p.status = watches[w].status /\ p.terminal = watches[w].terminal
    <3>1. 0 \in 0..Threshold
      BY Constants
    <3> QED BY <1>9, <3>1 DEF Watch
  <2> HIDE DEF p
  <2>3. Tells(p)
    BY <1>4, <2>1, <2>2 DEF Tells
  <2> QED BY <1>4, <2>1, <2>2, <2>3, PersistOrDegradeRefines
<1> QED BY <1>5, <1>6, <1>7, <1>8, <1>10, <1>11, <1>12 DEF WorkerStep, PollReturns

\* Close ends all live watches, and records those it can.
LEMMA CloseRefines ==
  ASSUME IInv, StatusTells, Close
  PROVE  StatusTells' /\ RegistryStep
<1> DEFINE live == {w \in Ids : Live(w) /\ active[watches[w].key] = w}
           ended(w) == Ended(watches[w], "STALE", watches[w].reason)
<1>1. live = {w \in Ids : Live(w)}
  <2>1. \A w \in Ids : Live(w) => watches[w].key \in Keys
    BY NilIsNoRecord DEF IInv, TypeOK, Live, Watch
  <2> QED BY <2>1 DEF IInv, ActiveIndexExact
<1>2. PICK refused \in SUBSET live :
        /\ watches' = [w \in Ids |->
              CASE w \in refused        -> Degraded(watches[w], "STALE")
                [] w \in live \ refused -> ended(w)
                [] OTHER                -> watches[w]]
        /\ rows' = [w \in Ids |-> IF w \in live \ refused THEN RowFor(ended(w)) ELSE rows[w]]
  BY DEF Close
<1>3. ASSUME NEW w \in live
      PROVE  /\ watches[w] # Nil /\ watches'[w] \in Watch /\ watches'[w] # Nil
             /\ watches'[w].key = watches[w].key
             /\ watches'[w].terminal = TRUE /\ watches'[w].status = "STALE"
             /\ w \notin refused => watches'[w] = ended(w)
  <2>1. watches[w] # Nil /\ watches[w] \in Watch /\ w \in Ids
    BY <1>1 DEF IInv, TypeOK, Live
  <2> DEFINE r == watches[w]
             reason == watches[w].reason
  <2>2. r \in Watch /\ reason \in Reason \union {Nil} /\ "STALE" \in EndStatus /\ Nil \in Reason \union {Nil}
    BY <2>1 DEF Watch, EndStatus
  <2>3. w \in refused => watches'[w] = Degraded(r, "STALE")
    BY <1>2, <2>1
  <2>4. w \notin refused => watches'[w] = Ended(r, "STALE", reason)
    BY <1>2, <2>1
  <2>5. Degraded(r, "STALE") = [Ended(r, "STALE", Nil) EXCEPT !.cancelled = TRUE]
    BY DEF Degraded
  <2> HIDE DEF r, reason
  <2>6. LET e == [Ended(r, "STALE", Nil) EXCEPT !.cancelled = TRUE]
        IN e \in Watch /\ e.terminal = TRUE /\ e.key = r.key /\ e.status = "STALE"
    BY <2>2 DEF Watch, Ended
  <2>7. LET e == Ended(r, "STALE", reason)
        IN e \in Watch /\ e.terminal = TRUE /\ e.key = r.key /\ e.status = "STALE"
    BY <2>2 DEF Watch, Ended
  <2>8. /\ watches'[w] \in Watch /\ watches'[w].key = r.key
        /\ watches'[w].terminal = TRUE /\ watches'[w].status = "STALE"
    BY <2>3, <2>4, <2>5, <2>6, <2>7
  <2> QED BY <2>1, <2>4, <2>8, NilIsNoRecord DEF r, reason
<1>4. ASSUME NEW w \in live \ refused
      PROVE  /\ rows[w] # Nil /\ rows'[w] # Nil /\ rows'[w].key = rows[w].key
             /\ rows'[w].status = "STALE" /\ ~rows'[w].active
  <2>1. rows[w] # Nil /\ rows[w].key = watches[w].key
    BY <1>1 DEF IInv, LiveWatchHasActiveRow, ActiveRow
  <2>2. w \in live /\ w \in Ids /\ w \notin refused
    BY <1>1
  <2>3. rows'[w] = RowFor(ended(w)) /\ watches'[w] = ended(w)
    BY <1>2, <1>3, <2>2
  <2> HIDE DEF ended
  <2>4. /\ watches'[w] \in Watch /\ watches'[w].key = watches[w].key
        /\ watches'[w].terminal = TRUE /\ watches'[w].status = "STALE"
    BY <1>3, <2>2
  <2> QED BY <2>1, <2>3, <2>4, RowForType, NilIsNoRecord
<1>5. /\ \A w \in Ids \ live : watches'[w] = watches[w]
      /\ \A w \in Ids \ (live \ refused) : rows'[w] = rows[w]
  BY <1>2
<1> HIDE DEF live, ended
<1>6. live \subseteq Ids /\ refused \subseteq live
  BY <1>1
<1>7. StatusTells'
  <2>1. ASSUME NEW w \in Ids, watches'[w] # Nil
        PROVE  Tells(watches'[w])
    BY <1>3, <1>5, <2>1 DEF StatusTells, Tells
  <2>2. ASSUME NEW w \in Ids, rows'[w] # Nil
        PROVE  rows'[w].active <=> rows'[w].status = "WATCHING"
    <3>1. CASE w \in live \ refused
      BY <1>4, <3>1
    <3>2. CASE w \notin live \ refused
      BY <1>5, <2>2, <3>2 DEF StatusTells
    <3> QED BY <3>1, <3>2
  <2> QED BY <2>1, <2>2 DEF StatusTells, Tells
<1>8. Summary(watches') = Registry!Marked(Summary(watches), live, "STALE")
  <2>1. \A w \in live : /\ watches[w] # Nil /\ watches'[w] # Nil
                        /\ watches'[w].key = watches[w].key /\ watches'[w].status = "STALE"
    BY <1>3
  <2> QED BY <1>5, <1>6, <2>1, MarkedSummary
<1>9. Summary(rows') = Registry!Marked(Summary(rows), live \ refused, "STALE")
  <2>1. \A w \in live \ refused : /\ rows[w] # Nil /\ rows'[w] # Nil
                                  /\ rows'[w].key = rows[w].key /\ rows'[w].status = "STALE"
    BY <1>4
  <2>2. live \ refused \in SUBSET Ids
    BY <1>6
  <2> QED BY <1>5, <2>1, <2>2, MarkedSummary
<1>10. live = {w \in Ids : Registry!Watching(Summary(watches), w)}
  BY <1>1, WatchingIsLive
<1>11. Registry!StopAll
  BY <1>6, <1>8, <1>9, <1>10 DEF Registry!StopAll, Summary
<1> QED BY <1>7, <1>11 DEF RegistryStep, Registry!RegistryNext

\* The cancellation of the contexts is no step of the registry.
LEMMA CloseCancelRefines ==
  ASSUME IInv, StatusTells, CloseCancel
  PROVE  StatusTells' /\ RegistryStep
<1>1. rows' = rows
  BY DEF CloseCancel
<1>2. ASSUME NEW w \in Ids, watches[w] # Nil
      PROVE  /\ watches'[w] # Nil /\ watches'[w].key = watches[w].key
             /\ watches'[w].status = watches[w].status
             /\ watches'[w].terminal = watches[w].terminal
  <2>1. watches[w] \in Watch /\ watches'[w] = [watches[w] EXCEPT !.cancelled = TRUE]
    BY <1>2 DEF CloseCancel, IInv, TypeOK
  <2>2. watches'[w] \in Watch
    BY <2>1 DEF Watch
  <2> QED BY <2>1, <2>2, NilIsNoRecord DEF Watch
<1>3. ASSUME NEW w \in Ids, watches[w] = Nil
      PROVE  watches'[w] = watches[w]
  BY <1>3 DEF CloseCancel
<1>4. StatusTells'
  BY <1>1, <1>2, <1>3 DEF StatusTells, Tells
<1>5. Summary(watches') = Summary(watches)
  BY <1>2, <1>3, SameSummary
<1> QED BY <1>1, <1>4, <1>5 DEF RegistryStep, Registry!registry, Summary

\* A restart replaces the registry's process.
LEMMA RestartRefines ==
  ASSUME IInv, StatusTells, Restart
  PROVE  StatusTells' /\ RegistryStep
<1> DEFINE S == {w \in Ids : ActiveRow(w)}
<1>1. /\ watches' = [w \in Ids |-> Nil]
      /\ rows' = [w \in Ids |-> MarkActiveStale(w)]
  BY DEF Restart
<1>2. ASSUME NEW w \in S
      PROVE  /\ rows[w] # Nil /\ rows'[w] # Nil /\ rows'[w].key = rows[w].key
             /\ rows'[w].status = "STALE" /\ rows'[w].active = FALSE
  <2>1. rows[w] \in Row /\ rows[w] # Nil /\ "STALE" \in EndStatus
    BY DEF ActiveRow, IInv, TypeOK, EndStatus
  <2>2. rows'[w] = [rows[w] EXCEPT !.status = "STALE", !.reason = Nil, !.active = FALSE]
    BY <1>1 DEF MarkActiveStale
  <2>3. rows'[w] \in Row
    BY <2>1, <2>2 DEF Row
  <2> QED BY <2>1, <2>2, <2>3, NilIsNoRecord DEF Row
<1>3. ASSUME NEW w \in Ids \ S
      PROVE  rows'[w] = rows[w]
  BY <1>1 DEF MarkActiveStale
<1>4. S \in SUBSET Ids
  OBVIOUS
<1>5. S = {w \in Ids : Registry!Watching(Summary(rows), w)}
  BY WatchingIsLive
<1> HIDE DEF S
<1>6. StatusTells'
  <2>1. ASSUME NEW w \in Ids, rows'[w] # Nil
        PROVE  rows'[w].active <=> rows'[w].status = "WATCHING"
    <3>1. CASE w \in S
      BY <1>2, <3>1
    <3>2. CASE w \notin S
      BY <1>3, <2>1, <3>2 DEF StatusTells
    <3> QED BY <3>1, <3>2
  <2> QED BY <1>1, <2>1 DEF StatusTells
<1>7. Summary(rows') = Registry!Marked(Summary(rows), S, "STALE")
  <2>1. \A w \in S : /\ rows[w] # Nil /\ rows'[w] # Nil
                     /\ rows'[w].key = rows[w].key /\ rows'[w].status = "STALE"
    BY <1>2
  <2> QED BY <1>3, <1>4, <2>1, MarkedSummary
<1>8. Summary(watches') = [w \in Ids |-> Nil]
  BY <1>1 DEF Summary
<1>9. Registry!Replace
  BY <1>5, <1>7, <1>8 DEF Registry!Replace, Summary
<1> QED BY <1>6, <1>9 DEF RegistryStep, Registry!RegistryNext

(***************************************************************************)
(* The refinement.                                                         *)
(***************************************************************************)

LEMMA InitRefines == Init => StatusTells /\ Registry!RegistryInit
BY DEF Init, StatusTells, Summary, Registry!RegistryInit

LEMMA NextRefines == IInv /\ StatusTells /\ [Next]_vars => StatusTells' /\ RegistryStep
<1> SUFFICES ASSUME IInv, StatusTells, [Next]_vars
             PROVE  StatusTells' /\ RegistryStep
  OBVIOUS
<1>1. ASSUME NEW c \in Callers, CallerStep(c)
      PROVE  StatusTells' /\ RegistryStep
  BY <1>1, StartRefines, CancelRefines DEF CallerStep
<1>2. ASSUME NEW w \in Ids, WorkerStep(w)
      PROVE  StatusTells' /\ RegistryStep
  BY <1>2, WorkerRefines
<1>3. CASE \/ \E w \in Ids : Notify(w)
           \/ \E pr \in PRs : RequestReview(pr) \/ SettleLatest(pr)
           \/ UNCHANGED vars
  BY <1>3, QuietRefines DEF Notify, RequestReview, SettleLatest, memory, vars
<1>4. CASE Close \/ CloseCancel \/ Restart
  BY <1>4, CloseRefines, CloseCancelRefines, RestartRefines
<1> QED BY <1>1, <1>2, <1>3, <1>4 DEF Next

\* The manager implements the registry: a watch ends once, with one status, in
\* the process and in the database together unless a write about it was refused,
\* and no key is ever watched twice, whatever callers, workers, Close, refusals
\* and restarts do.
THEOREM Implements == Spec => ImplementsRegistry
<1>1. Init => IInv /\ StatusTells /\ Registry!RegistryInit
  BY InitIInv, InitRefines
<1>2. IInv /\ StatusTells /\ [Next]_vars => IInv' /\ StatusTells'
  BY NextIInv, NextRefines
<1>3. IInv /\ StatusTells /\ [Next]_vars => [Registry!RegistryNext]_Registry!registry
  BY NextRefines DEF RegistryStep
<1> QED BY <1>1, <1>2, <1>3, PTL DEF Spec, ImplementsRegistry, Registry!RegistrySpec
====
