------------------------------ MODULE WatchViews ------------------------------
(***************************************************************************)
(* What a client is told of its watches: the lookups of the manager        *)
(* (GetByID, GetLatest, List and the read-only part of CancelLatest in     *)
(* src/internal/watch/manager.go), the queries behind them                 *)
(* (src/internal/store/db.go) and the tools and the resource that show     *)
(* their results (src/internal/tools/watch.go).                            *)
(*                                                                         *)
(* The watches are those of WatchRegistry, with the time stamps that order *)
(* them.  A lookup reads memory under the lock and, when it has to, the    *)
(* rows after the lock is released; watches start, end and are refreshed   *)
(* and the process is replaced in between.  (Close ends the live watches   *)
(* one by one, as Finish and FinishRefused do.)  Memory keeps its stamps   *)
(* in ticks, rows in seconds of Grain ticks.  No two registry events share *)
(* a tick, and IDs are numbered in the order nextID hands them out.        *)
(***************************************************************************)
EXTENDS WatchRegistry, Naturals

CONSTANTS
  Readers,   \* concurrent lookups
  Login,     \* the login they are made for
  Limits,    \* limits a client may pass to a list
  Grain,     \* ticks in a second
  Origins,   \* ticks time may begin at: where in a second the first watch starts
  MaxTicks   \* bound on the ticks that pass

ASSUME ViewParameters ==
  /\ IsFiniteSet(Ids) /\ Ids = 1..Cardinality(Ids)
  /\ Limits \subseteq Nat \ {0} /\ Grain \in Nat \ {0}
  /\ Origins \subseteq Nat /\ MaxTicks \in Nat
  /\ {"FAILED", "STALE", "CANCELLED"} \subseteq EndStatus /\ "WATCHING" \notin EndStatus

VARIABLES
  origin,   \* the tick time began at
  now,      \* ticks
  memAt,    \* stamps of the watches in memory: watch ID -> [started, updated], or Nil
  rowAt,    \* stamps of the rows
  reader,   \* the lookup each reader is in the middle of, or Nil
  told,     \* the newest watch of a key each reader was last told of; 0 is none
  ended,    \* the watches each reader was shown as ended
  changed   \* when each watch last changed; only the properties read it

clocks == <<origin, now, memAt, rowAt, changed>>
views  == <<reader, told, ended>>
viewVars == <<mem, row, origin, now, memAt, rowAt, changed, reader, told, ended>>

LoginOf(k) == k[1]
Mine       == {k \in Keys : LoginOf(k) = Login}

Stamps     == [started: Nat, updated: Nat]
Seconds(s) == [started |-> Grain * (s.started \div Grain), updated |-> Grain * (s.updated \div Grain)]

\* A snapshot as the views compare and show it.
Snapshot == [id: Ids, status: Status, started: Nat, updated: Nat]
Shown(w, f, at) == [id |-> w, status |-> f[w].status,
                    started |-> at[w].started, updated |-> at[w].updated]
FromMemory(w) == Shown(w, mem, memAt)
FromRow(w)    == Shown(w, row, rowAt)

Live(e) == e.status = "WATCHING"

\* deriveRecommendedNextAction (a FAILED watch may also ask for a new login).
NextAction(e) ==
  CASE e.status = "WATCHING"                -> "POLL_AFTER"
    [] e.status \in {"COMPLETED", "BLOCKED"} -> "READ_REVIEW_THREADS"
    [] e.status = "FAILED"                  -> "CHECK_FAILURE"
    [] OTHER                                -> "START_NEW_WATCH"

(***************************************************************************)
(* Orders.  A row ID grows with the watch ID, so that the queries and the  *)
(* list compare alike: the list only puts live watches first.              *)
(***************************************************************************)
\* Faulty variant: ties go to the watch that started first.
NewerEarlierStart(e, f) ==
  \/ e.updated > f.updated
  \/ e.updated = f.updated /\ e.started < f.started
  \/ e.updated = f.updated /\ e.started = f.started /\ e.id < f.id

Newer(e, f) ==
  \/ e.updated > f.updated
  \/ e.updated = f.updated /\ e.started > f.started
  \/ e.updated = f.updated /\ e.started = f.started /\ e.id > f.id

Before(e, f) == IF Live(e) = Live(f) THEN Newer(e, f) ELSE Live(e)

\* Faulty variant: the limit does not put live watches first.
FirstByTime(S, n) == {e \in S : Cardinality({f \in S : Newer(f, e)}) < n}

\* ORDER BY ... LIMIT n, and the cut of the merged list.
First(S, n) == {e \in S : Cardinality({f \in S : Before(f, e)}) < n}

(***************************************************************************)
(* The watches.                                                            *)
(***************************************************************************)
Fresh == {w \in Ids : row[w] = Nil}

Ticks == now < origin + MaxTicks /\ now' = now + 1 /\ UNCHANGED origin

Happens(w) ==
  /\ Ticks
  /\ changed' = [changed EXCEPT ![w] = now']

\* A row whose write is accepted is dated as memory is.
Stamp(w, at)       == memAt' = [memAt EXCEPT ![w].updated = at]
StampBoth(w, at)   == Stamp(w, at) /\ rowAt' = [rowAt EXCEPT ![w] = Seconds(memAt'[w])]

Start(k) ==
  \E w \in Fresh :
    /\ \A v \in Fresh : w <= v
    /\ Register(w, k)
    /\ Happens(w)
    /\ memAt' = [memAt EXCEPT ![w] = [started |-> now, updated |-> now]]
    /\ rowAt' = [rowAt EXCEPT ![w] = Seconds([started |-> now, updated |-> now])]
    /\ UNCHANGED views

\* A poll writes the time it had before it took the lock, any since the watch
\* started; a reuse and a cancel write the time under the lock.  The write of a
\* reuse may be refused.
Refresh(w) ==
  /\ Watching(mem, w)
  /\ Happens(w)
  /\ \/ \E at \in memAt[w].started..now : StampBoth(w, at)
     \/ Stamp(w, now) /\ UNCHANGED rowAt
  /\ UNCHANGED <<registry, views>>

Finish(w, s) ==
  /\ End(w, s)
  /\ Happens(w)
  /\ \E at \in memAt[w].started..now : StampBoth(w, at)
  /\ UNCHANGED views

FinishRefused(w) ==
  /\ Lose(w)
  /\ Happens(w)
  /\ \E at \in memAt[w].started..now : Stamp(w, at)
  /\ UNCHANGED <<rowAt, views>>

\* The process is replaced; the clients, and what they were told, remain.
Restart ==
  /\ Ticks
  /\ Replace
  /\ memAt' = [w \in Ids |-> Nil]
  /\ rowAt' = [w \in Ids |-> IF Watching(row, w)
                 THEN Seconds([started |-> rowAt[w].started, updated |-> now]) ELSE rowAt[w]]
  /\ changed' = [w \in Ids |-> IF Watching(row, w) THEN now' ELSE changed[w]]
  /\ reader' = [r \in Readers |-> Nil]
  /\ UNCHANGED <<told, ended>>

(***************************************************************************)
(* Lookups: by ID, the latest of a key, a list, and a cancel by key (the   *)
(* read-only answer of a cancel by ID is that of a lookup by ID).          *)
(***************************************************************************)
Requests ==
  [op: {"id"}, id: Ids] \union [op: {"latest", "cancel"}, key: Mine]
  \union [op: {"list"}, live: BOOLEAN, limit: Limits]

ASSUME NilIsNoRecord ==
  /\ Nil \notin Entry /\ Nil \notin Stamps
  /\ Nil \notin [request: Requests, pc: {"memory", "rows"}, found: SUBSET Snapshot, began: Nat]

\* A watch of another login is not found.
OwnOnly(S)   == {e \in S : LoginOf(row[e.id].key) = Login}
Wanted(q, S) == IF q.op = "list" /\ q.live THEN {e \in S : Live(e)} ELSE S

\* What memory has for a request.  latestByKey is the last watch of the key that
\* this process started.
InMemory(q) ==
  LET M == {w \in Ids : mem[w] # Nil}
      K == {w \in M : mem[w].key = q.key}
  IN CASE q.op = "id"   -> OwnOnly({FromMemory(w) : w \in M \intersect {q.id}})
       [] q.op = "list" -> Wanted(q, OwnOnly({FromMemory(w) : w \in M}))
       [] OTHER         -> {FromMemory(w) : w \in {v \in K : \A u \in K : u <= v}}

\* What the rows have: GetReviewWatchByID, GetLatestReviewWatch, ListReviewWatches.
InRows(q) ==
  LET R == {FromRow(w) : w \in {v \in Ids : row[v] # Nil}}
      K == {e \in R : row[e.id].key = q.key}
  IN CASE q.op = "id"   -> OwnOnly({e \in R : e.id = q.id})
       [] q.op = "list" -> First(Wanted(q, OwnOnly(R)), q.limit)
       [] OTHER         -> {e \in K : \A f \in K \ {e} : Newer(e, f)}

\* Faulty variant: the rows win over memory.
MergedRowsFirst(q, found) ==
  IF q.op = "list"
  THEN First(InRows(q) \union {e \in found : \A f \in InRows(q) : f.id # e.id}, q.limit)
  ELSE InRows(q)

\* A list adds to what memory had the rows memory did not show, and is cut again.
Merged(q, found) ==
  IF q.op = "list"
  THEN First(found \union {e \in InRows(q) : \A f \in found : f.id # e.id}, q.limit)
  ELSE InRows(q)

\* The lookup needs no row: a list always does, an ID that memory has never.
Known(q) ==
  \/ (q.op = "id" /\ mem[q.id] # Nil)
  \/ (q.op \in {"latest", "cancel"} /\ InMemory(q) # {})

Ask(r, q) ==
  /\ reader[r] = Nil
  /\ reader' = [reader EXCEPT ![r] = [request |-> q, pc |-> "memory", found |-> {}, began |-> now]]
  /\ UNCHANGED <<registry, clocks, told, ended>>

At(r, pc)  == reader[r] # Nil /\ reader[r].pc = pc
Request(r) == reader[r].request

\* The handler returns: the client remembers what it was shown.
Return(r, found) ==
  /\ reader' = [reader EXCEPT ![r] = Nil]
  /\ ended' = [ended EXCEPT ![r] = @ \union {e.id : e \in {f \in found : NextAction(f) # "POLL_AFTER"}}]
  /\ told' = IF Request(r).op # "latest" THEN told
             ELSE [told EXCEPT ![r][Request(r).key] =
                     IF found = {} THEN 0 ELSE CHOOSE w \in Ids : \E e \in found : e.id = w]

\* CancelLatest ends the live watch of the key, as FAILED if the write is refused.
CancelLive(r) ==
  /\ At(r, "memory") /\ Request(r).op = "cancel"
  /\ \E e \in InMemory(Request(r)) :
       /\ \/ End(e.id, "CANCELLED") /\ StampBoth(e.id, now)
          \/ (Lose(e.id) /\ mem'[e.id].status = "FAILED" /\ Stamp(e.id, now) /\ UNCHANGED rowAt)
       /\ Happens(e.id)
       /\ Return(r, {[e EXCEPT !.status = mem'[e.id].status, !.updated = now]})

\* The part under the lock.  What memory knows is the answer, but for a list.
ReadMemory(r) ==
  /\ At(r, "memory")
  /\ LET q == Request(r)
     IN /\ q.op = "cancel" => \A e \in InMemory(q) : ~Live(e)
        /\ IF Known(q) THEN Return(r, InMemory(q))
           ELSE /\ reader' = [reader EXCEPT ![r].pc = "rows", ![r].found = InMemory(q)]
                /\ UNCHANGED <<told, ended>>
  /\ UNCHANGED <<registry, clocks>>

\* The query, after the lock is released.
ReadRows(r) ==
  /\ At(r, "rows")
  /\ Return(r, Merged(Request(r), reader[r].found))
  /\ UNCHANGED <<registry, clocks>>

\* The query is refused: not found, or an error.
ReadRefused(r) ==
  /\ At(r, "rows")
  /\ reader' = [reader EXCEPT ![r] = Nil]
  /\ UNCHANGED <<registry, clocks, told, ended>>

Lookup(r) == (\E q \in Requests : Ask(r, q)) \/ CancelLive(r) \/ ReadMemory(r)
             \/ ReadRows(r) \/ ReadRefused(r)

ViewInit ==
  /\ RegistryInit
  /\ origin \in Origins /\ now = origin
  /\ memAt = [w \in Ids |-> Nil] /\ rowAt = [w \in Ids |-> Nil]
  /\ changed = [w \in Ids |-> 0]
  /\ reader = [r \in Readers |-> Nil]
  /\ told = [r \in Readers |-> [k \in Mine |-> 0]]
  /\ ended = [r \in Readers |-> {}]

ViewNext ==
  \/ \E k \in Keys : Start(k)
  \/ \E w \in Ids : Refresh(w) \/ FinishRefused(w) \/ \E s \in EndStatus : Finish(w, s)
  \/ Restart
  \/ \E r \in Readers : Lookup(r)

ViewSpec == ViewInit /\ [][ViewNext]_viewVars

(***************************************************************************)
(* Properties.                                                             *)
(***************************************************************************)
ViewTypeOK ==
  /\ RegistryTypeOK
  /\ origin \in Origins /\ now \in origin..(origin + MaxTicks)
  /\ memAt \in [Ids -> Stamps \union {Nil}] /\ rowAt \in [Ids -> Stamps \union {Nil}]
  /\ changed \in [Ids -> 0..now]
  /\ \A w \in Ids : (mem[w] = Nil <=> memAt[w] = Nil) /\ (row[w] = Nil <=> rowAt[w] = Nil)
  /\ \A r \in Readers : reader[r] # Nil =>
       /\ reader[r].request \in Requests /\ reader[r].pc \in {"memory", "rows"}
       /\ reader[r].began \in 0..now /\ \A e \in reader[r].found : e \in Snapshot
  /\ told \in [Readers -> [Mine -> {0} \union Ids]]
  /\ ended \in [Readers -> SUBSET Ids]

\* The lookup of r can return now, and what it returns then.
Answering(r) == At(r, "rows") \/ (At(r, "memory") /\ Known(Request(r)))
Answer(r)    == IF At(r, "rows") THEN Merged(Request(r), reader[r].found) ELSE InMemory(Request(r))

\* Whoever was told of a watch of a key is told of it, or of a newer one, when
\* it asks again: across ends, refused writes and restarts, whatever the stamps.
LatestNeverGoesBack ==
  \A r \in Readers : Answering(r) /\ Request(r).op = "latest" =>
    LET last == told[r][Request(r).key]
    IN last # 0 => \E e \in Answer(r) : e.id >= last

\* The end of the watch was not recorded in its row.
Unrecorded(w) == mem[w] # Nil /\ ~Watching(mem, w) /\ Watching(row, w)

\* A watch once shown as ended is never again shown as one to poll, with one
\* exception: a list of live watches takes an end that was not recorded from the
\* row.
EndIsShownForGood ==
  \A r \in Readers : Answering(r) /\ Request(r).op # "cancel" =>
    \A e \in Answer(r) : e.id \in ended[r] /\ NextAction(e) = "POLL_AFTER" =>
      Unrecorded(e.id) /\ Request(r).op = "list" /\ Request(r).live

\* A cancel that ends nothing and shows a live watch did not overlook it: the
\* watch started after the cancel was asked for.
CancelOverlooksNothing ==
  \A r \in Readers : At(r, "rows") /\ Request(r).op = "cancel" =>
    \A e \in Answer(r) : Live(e) => mem[e.id] # Nil /\ memAt[e.id].started >= reader[r].began

\* The watches that did not change since the list was asked for.
Still(r) == {w \in Ids : row[w] # Nil /\ changed[w] <= reader[r].began}
Truth(w) == IF mem[w] # Nil THEN FromMemory(w) ELSE FromRow(w)

\* A list leaves a watch out only for its limit, and only behind those it shows:
\* although rows are cut before they are merged with a memory read earlier.
LimitHidesTheLast ==
  \A r \in Readers : At(r, "rows") /\ Request(r).op = "list" =>
    \A e \in Wanted(Request(r), OwnOnly({Truth(w) : w \in Still(r)})) :
      (\A f \in Answer(r) : f.id # e.id) =>
        /\ Cardinality(Answer(r)) = Request(r).limit
        /\ \A f \in Answer(r) : f.id \in Still(r) => Before(f, e)
====
