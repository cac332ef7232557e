--------------------------- MODULE WatchViewsProofs ---------------------------
(***************************************************************************)
(* Theorems about WatchViews, for any number of watches, logins, pull      *)
(* requests and readers, any limit, any length of a second and any time.   *)
(***************************************************************************)
EXTENDS WatchViews, FiniteSetTheorems, TLAPS

(***************************************************************************)
(* Orders and cuts.                                                        *)
(***************************************************************************)

LEMMA IdsAreNumbers == Ids \subseteq Nat \ {0} /\ IsFiniteSet(Ids)
<1>1. IsFiniteSet(Ids) /\ Ids = 1..Cardinality(Ids)
  BY ViewParameters
<1>2. Cardinality(Ids) \in Nat
  BY <1>1, FS_CardinalityType
<1> QED BY <1>1, <1>2

\* A strict order on a finite, nonempty set has a minimal element.
LEMMA MinimalExists ==
  ASSUME NEW S, IsFiniteSet(S), S # {}, NEW R,
         \A x \in S : <<x, x>> \notin R,
         \A x, y, z \in S : <<x, y>> \in R /\ <<y, z>> \in R => <<x, z>> \in R
  PROVE  \E x \in S : \A y \in S : <<y, x>> \notin R
<1> DEFINE Below(x) == {y \in S : <<y, x>> \in R}
           Q == StrictSubsetOrdering(S)
           U == {Below(x) : x \in S}
<1>1. IsWellFoundedOn(Q, SUBSET S)
  <2>1. IsWellFoundedOn(Q, FiniteSubsetsOf(S))
    BY FS_StrictSubsetOrderingWellFounded
  <2>2. FiniteSubsetsOf(S) = SUBSET S
    BY FS_FiniteSubsetsOfFinite
  <2> QED BY <2>1, <2>2
<1>2. U \subseteq SUBSET S /\ U # {}
  <2>1. U \subseteq SUBSET S
    BY Zenon
  <2>2. PICK x \in S : TRUE
    BY Zenon
  <2>3. Below(x) \in U
    BY Zenon
  <2> HIDE DEF U
  <2> QED BY <2>1, <2>3, Zenon
<1>3. PICK b \in U : \A a \in U : ~(<<a, b>> \in Q)
  <2> HIDE DEF U, Q
  <2> QED BY <1>1, <1>2, WFMin
<1>4. PICK x \in S : b = Below(x)
  OBVIOUS
<1>5. ASSUME NEW y \in S, <<y, x>> \in R
      PROVE  FALSE
  <2>1. Below(y) \subseteq Below(x)
    BY <1>5
  <2>2. y \in Below(x) /\ y \notin Below(y)
    BY <1>5
  <2>3. <<Below(y), Below(x)>> \in Q
    BY <2>1, <2>2 DEF StrictSubsetOrdering
  <2> QED BY <1>3, <1>4, <2>3
<1> QED BY <1>5

\* A nonempty set of watch IDs has a greatest one.
LEMMA LastIdExists ==
  ASSUME NEW T \in SUBSET Ids, T # {}
  PROVE  \E w \in T : \A v \in T : v <= w
<1> DEFINE R == {p \in T \X T : p[1] > p[2]}
<1>1. T \subseteq Nat /\ IsFiniteSet(T)
  BY IdsAreNumbers, FS_Subset
<1>2. \A x \in T : <<x, x>> \notin R
  BY <1>1
<1>3. \A x, y, z \in T : <<x, y>> \in R /\ <<y, z>> \in R => <<x, z>> \in R
  BY <1>1
<1>4. PICK w \in T : \A v \in T : <<v, w>> \notin R
  <2> HIDE DEF R
  <2> QED BY <1>1, <1>2, <1>3, MinimalExists
<1>5. \A v \in T : ~(v > w)
  BY <1>4
<1> QED BY <1>1, <1>5

\* Before, the order of a list, is a strict total order on snapshots of different
\* watches.
LEMMA BeforeMeans ==
  ASSUME NEW e \in Snapshot, NEW f \in Snapshot
  PROVE  Before(e, f) <=> \/ Live(e) /\ ~Live(f)
                          \/ Live(e) /\ Live(f) /\ Newer(e, f)
                          \/ ~Live(e) /\ ~Live(f) /\ Newer(e, f)
BY Zenon DEF Before, Live

LEMMA SnapshotNumbers ==
  ASSUME NEW e \in Snapshot
  PROVE  e.id \in Nat /\ e.started \in Nat /\ e.updated \in Nat
BY IdsAreNumbers DEF Snapshot

LEMMA BeforeIsStrict ==
  ASSUME NEW e \in Snapshot
  PROVE  ~Before(e, e)
<1>1. ~Newer(e, e)
  BY SnapshotNumbers DEF Newer
<1> QED BY <1>1, Zenon DEF Before

LEMMA BeforeIsTransitive ==
  ASSUME NEW e \in Snapshot, NEW f \in Snapshot, NEW g \in Snapshot,
         Before(e, f), Before(f, g)
  PROVE  Before(e, g)
<1>1. Newer(e, f) /\ Newer(f, g) => Newer(e, g)
  BY SnapshotNumbers DEF Newer
<1>2. /\ \/ Live(e) /\ ~Live(f)
         \/ (Live(e) <=> Live(f)) /\ Newer(e, f)
      /\ \/ Live(f) /\ ~Live(g)
         \/ (Live(f) <=> Live(g)) /\ Newer(f, g)
  BY BeforeMeans, Zenon
<1> QED BY <1>1, <1>2, BeforeMeans, Zenon

LEMMA BeforeIsTotal ==
  ASSUME NEW e \in Snapshot, NEW f \in Snapshot, e.id # f.id
  PROVE  Before(e, f) \/ Before(f, e)
<1>1. Newer(e, f) \/ Newer(f, e)
  BY SnapshotNumbers DEF Newer
<1> QED BY <1>1, BeforeMeans, Zenon

\* S shows each watch at most once.
OncePerWatch(S) == \A e, f \in S : e.id = f.id => e = f

\* There are finitely many snapshots that show each watch at most once.
LEMMA SnapshotsAreFinite ==
  ASSUME NEW S \in SUBSET Snapshot, OncePerWatch(S)
  PROVE  IsFiniteSet(S)
<1> DEFINE h == [e \in S |-> e.id]
<1>1. h \in Injection(S, Ids)
  BY DEF Injection, IsInjective, OncePerWatch, Snapshot
<1> QED BY <1>1, FS_Injection, IdsAreNumbers

\* ORDER BY ... LIMIT n: what the limit cuts off comes after n others, all of
\* them shown.  (e may be one of S, or may be missing from it.)
LEMMA FirstCut ==
  ASSUME NEW S \in SUBSET Snapshot, OncePerWatch(S), NEW n \in Nat,
         NEW e \in Snapshot, \A f \in S : f.id = e.id => f = e,
         Cardinality({f \in S : Before(f, e)}) >= n
  PROVE  /\ Cardinality(First(S, n)) = n
         /\ \A f \in First(S, n) : Before(f, e)
<1> DEFINE Ahead(x) == {f \in S : Before(f, x)}
           A == First(S, n)
           T == S \union {e}
           C == {x \in T : Cardinality(Ahead(x)) >= n}
<1>1. IsFiniteSet(S) /\ IsFiniteSet(T) /\ T \subseteq Snapshot
  BY SnapshotsAreFinite, FS_AddElement
<1>2. \A x : IsFiniteSet(Ahead(x)) /\ Cardinality(Ahead(x)) \in Nat
  BY <1>1, FS_Subset, FS_CardinalityType
<1>3. /\ A = {x \in S : Cardinality(Ahead(x)) < n}
      /\ \A x \in A : Cardinality(Ahead(x)) < n
      /\ \A x \in C : Cardinality(Ahead(x)) >= n
  BY Zenon DEF First
<1>4. IsFiniteSet(A) /\ Cardinality(A) \in Nat /\ A \subseteq S
  BY <1>1, <1>3, FS_Subset, FS_CardinalityType
<1>5. \A x \in T : x \in C \/ x \in A
  <2> TAKE x \in T
  <2>1. CASE x = e
    BY <2>1
  <2>2. CASE x \in S
    BY <1>2, <1>3, <2>2
  <2> QED BY <2>1, <2>2
<1>6. e \in C /\ C \subseteq T
  OBVIOUS
<1>7. \A x \in A : x \notin C
  <2> HIDE DEF Ahead, A, C
  <2> QED BY <1>2, <1>3
<1>8. \A f, g \in T : f = g \/ Before(f, g) \/ Before(g, f)
  <2> TAKE f, g \in T
  <2>1. f.id = g.id => f = g
    BY DEF OncePerWatch
  <2> QED BY <1>1, <2>1, BeforeIsTotal
\* What is shown comes before what is cut off.
<1>9. \A f \in A, x \in C : Before(f, x)
  <2> SUFFICES ASSUME NEW f \in A, NEW x \in C, ~Before(f, x)
               PROVE  FALSE
    OBVIOUS
  <2>1. f \in T /\ x \in T /\ f # x
    BY <1>4, <1>7
  <2>2. Before(x, f)
    BY <1>8, <2>1
  <2>3. Ahead(x) \subseteq Ahead(f)
    BY <1>1, <2>1, <2>2, BeforeIsTransitive
  <2>4. Cardinality(Ahead(x)) <= Cardinality(Ahead(f))
    <3> HIDE DEF Ahead
    <3> QED BY <1>2, <2>3, FS_Subset
  <2>5. Cardinality(Ahead(x)) >= n /\ Cardinality(Ahead(f)) < n
    BY <1>3, Zenon
  <2> HIDE DEF Ahead
  <2> QED BY <1>2, <2>4, <2>5
\* The first that is cut off comes after shown ones only.
<1>10. n <= Cardinality(A)
  <2> DEFINE R == {p \in C \X C : Before(p[1], p[2])}
  <2>1. IsFiniteSet(C) /\ C # {} /\ C \subseteq Snapshot
    BY <1>1, <1>6, FS_Subset
  <2>2. \A x \in C : <<x, x>> \notin R
    BY <2>1, BeforeIsStrict
  <2>3. \A x, y, z \in C : <<x, y>> \in R /\ <<y, z>> \in R => <<x, z>> \in R
    BY <2>1, BeforeIsTransitive
  <2>4. PICK x \in C : \A y \in C : <<y, x>> \notin R
    <3> HIDE DEF R, C
    <3> QED BY <2>1, <2>2, <2>3, MinimalExists
  <2>5. Ahead(x) \subseteq A
    <3> SUFFICES ASSUME NEW f \in S, Before(f, x), f \notin A
                 PROVE  FALSE
      OBVIOUS
    <3>1. f \in C
      BY <1>5
    <3> QED BY <2>4, <3>1
  <2>6. Cardinality(Ahead(x)) <= Cardinality(A)
    <3> HIDE DEF Ahead, A
    <3> QED BY <1>4, <2>5, FS_Subset
  <2>7. Cardinality(Ahead(x)) >= n
    BY <2>4
  <2> HIDE DEF Ahead, A
  <2> QED BY <1>2, <1>4, <2>6, <2>7
\* The last that is shown comes after the others that are shown.
<1>11. Cardinality(A) <= n
  <2>1. CASE A = {}
    BY <2>1, FS_EmptySet
  <2>2. CASE A # {}
    <3> DEFINE R == {p \in A \X A : Before(p[2], p[1])}
    <3>1. A \subseteq Snapshot /\ A \subseteq T
      BY <1>4
    <3>2. \A x \in A : <<x, x>> \notin R
      BY <3>1, BeforeIsStrict
    <3>3. \A x, y, z \in A : <<x, y>> \in R /\ <<y, z>> \in R => <<x, z>> \in R
      BY <3>1, BeforeIsTransitive
    <3>4. PICK x \in A : \A y \in A : <<y, x>> \notin R
      <4> HIDE DEF R, A
      <4> QED BY <1>4, <2>2, <3>2, <3>3, MinimalExists
    <3>5. A \subseteq Ahead(x) \union {x}
      <4> SUFFICES ASSUME NEW y \in A, y # x
                   PROVE  Before(y, x) /\ y \in S
        OBVIOUS
      <4>1. <<y, x>> \notin R
        BY <3>4
      <4>2. ~Before(x, y)
        BY <4>1
      <4> QED BY <1>4, <1>8, <3>1, <4>2
    <3>6. x \notin Ahead(x)
      BY <3>1, BeforeIsStrict
    <3>7. Cardinality(Ahead(x) \union {x}) = Cardinality(Ahead(x)) + 1
      <4> HIDE DEF Ahead
      <4> QED BY <1>2, <3>6, FS_AddElement
    <3>8. Cardinality(A) <= Cardinality(Ahead(x) \union {x})
      <4> HIDE DEF Ahead, A
      <4>1. IsFiniteSet(Ahead(x) \union {x})
        BY <1>2, FS_AddElement
      <4> QED BY <3>5, <4>1, FS_Subset
    <3>9. Cardinality(Ahead(x)) < n
      BY <1>3
    <3> HIDE DEF Ahead, A
    <3> QED BY <1>2, <1>4, <3>7, <3>8, <3>9
  <2> QED BY <2>1, <2>2
<1> QED BY <1>4, <1>6, <1>9, <1>10, <1>11

(***************************************************************************)
(* Seconds.                                                                *)
(***************************************************************************)

\* A tick, in whole seconds.
Second(t) == Grain * (t \div Grain)

LEMMA SecondsOfStamps ==
  ASSUME NEW s
  PROVE  Seconds(s) = [started |-> Second(s.started), updated |-> Second(s.updated)]
BY DEF Seconds, Second

LEMMA SecondType ==
  ASSUME NEW t \in Nat
  PROVE  Second(t) \in Nat /\ Second(t) <= t
<1>1. Grain \in Nat \ {0}
  BY ViewParameters
<1>2. t \div Grain \in Nat
  BY <1>1
<1>3. Grain * (t \div Grain) <= t
  BY <1>1
<1>4. \A a \in Nat : Grain * a \in Nat
  BY <1>1
<1> QED BY <1>2, <1>3, <1>4 DEF Second

LEMMA SecondGrows ==
  ASSUME NEW t \in Nat, NEW u \in Nat, t <= u
  PROVE  Second(t) <= Second(u)
<1>1. Grain \in Nat \ {0}
  BY ViewParameters
<1>2. t \div Grain \in Nat /\ u \div Grain \in Nat /\ t \div Grain <= u \div Grain
  BY <1>1
<1>3. \A a, b \in Nat : a <= b => Grain * a <= Grain * b
  BY <1>1
<1> QED BY <1>2, <1>3 DEF Second

LEMMA SecondOfSecond ==
  ASSUME NEW t \in Nat
  PROVE  Second(Second(t)) = Second(t)
<1>1. Grain \in Nat \ {0}
  BY ViewParameters
<1>2. t \div Grain \in Nat
  BY <1>1
<1>3. \A a \in Nat : (Grain * a) \div Grain = a
  BY <1>1
<1> QED BY <1>2, <1>3 DEF Second

(***************************************************************************)
(* The inductive invariant: the watches.                                   *)
(***************************************************************************)

WatchTypes ==
  /\ RegistryTypeOK
  /\ origin \in Origins /\ now \in origin..(origin + MaxTicks)
  /\ memAt \in [Ids -> Stamps \union {Nil}] /\ rowAt \in [Ids -> Stamps \union {Nil}]
  /\ changed \in [Ids -> 0..now]
  /\ \A w \in Ids : (mem[w] = Nil <=> memAt[w] = Nil) /\ (row[w] = Nil <=> rowAt[w] = Nil)

\* A watch of the process has its row; a live row has its watch.
CopiesAgree ==
  \A w \in Ids :
    /\ mem[w] # Nil => row[w] # Nil /\ row[w].key = mem[w].key
    /\ Watching(mem, w) => Watching(row, w)
    /\ Watching(row, w) => mem[w] # Nil

\* IDs are used in order, and those of this process are the last.
IdsInOrder ==
  \A v, w \in Ids : v < w /\ row[w] # Nil =>
    /\ row[v] # Nil
    /\ mem[v] # Nil => mem[w] # Nil

\* A watch was started before it was updated; its row says so, in seconds.
DatedInOrder ==
  \A w \in Ids :
    /\ mem[w] # Nil => /\ memAt[w].started <= memAt[w].updated /\ memAt[w].updated <= now
                       /\ rowAt[w].started = Second(memAt[w].started)
    /\ row[w] # Nil => /\ rowAt[w].started <= rowAt[w].updated
                       /\ rowAt[w].updated <= Second(now)
                       /\ Second(rowAt[w].started) = rowAt[w].started

\* A watch of a key started when the one before it had ended, and the row of that
\* one was written for the last time.
OneAfterAnother ==
  \A v, w \in Ids : v < w /\ row[w] # Nil /\ row[v].key = row[w].key =>
    /\ ~Watching(row, v)
    /\ rowAt[v].updated <= rowAt[w].started

\* What this process started, it started after the last write of an older row.
MemoryIsNewer ==
  \A v, w \in Ids : row[v] # Nil /\ mem[v] = Nil /\ mem[w] # Nil =>
    rowAt[v].updated <= memAt[w].started

WatchInv ==
  /\ WatchTypes
  /\ CopiesAgree
  /\ IdsInOrder
  /\ DatedInOrder
  /\ OneAfterAnother
  /\ MemoryIsNewer

\* A watch starts.
Begun(w, k) ==
  /\ row[w] = Nil /\ \A v \in Ids : row[v] = Nil => w <= v
  /\ Register(w, k)
  /\ Happens(w)
  /\ memAt' = [memAt EXCEPT ![w] = [started |-> now, updated |-> now]]
  /\ rowAt' = [rowAt EXCEPT ![w] = Seconds([started |-> now, updated |-> now])]

\* A live watch is updated or ends, and its row with it or not.
Moved(w) ==
  /\ Watching(mem, w) /\ Happens(w)
  /\ \E m \in Entry : m.key = mem[w].key /\ mem' = [mem EXCEPT ![w] = m]
  /\ \E n \in Entry : n.key = row[w].key /\ row' = [row EXCEPT ![w] = n]
  /\ Watching(mem', w) => Watching(row', w)
  /\ \E t \in memAt[w].started..now : memAt' = [memAt EXCEPT ![w].updated = t]
  /\ rowAt' \in {rowAt, [rowAt EXCEPT ![w] = Seconds(memAt'[w])]}

LEMMA StartBegins ==
  ASSUME NEW k \in Keys, Start(k)
  PROVE  (\E w \in Ids : Begun(w, k)) /\ UNCHANGED views
BY Zenon DEF Start, Begun, Fresh

LEMMA NowIsNat == ASSUME WatchTypes PROVE now \in Nat /\ origin \in Nat
BY ViewParameters DEF WatchTypes

LEMMA WatchRecords ==
  ASSUME WatchTypes, CopiesAgree, NEW w \in Ids
  PROVE  /\ mem[w] # Nil => /\ mem[w] \in Entry /\ row[w] \in Entry
                            /\ memAt[w] \in Stamps /\ memAt[w] # Nil
                            /\ row[w] # Nil /\ row[w].key = mem[w].key
         /\ row[w] # Nil => row[w] \in Entry /\ rowAt[w] \in Stamps /\ rowAt[w] # Nil
BY DEF WatchTypes, RegistryTypeOK, CopiesAgree

\* Every write of a live watch is such a move.
LEMMA WritesMove ==
  ASSUME WatchTypes, CopiesAgree, NEW w \in Ids, Watching(mem, w), Happens(w),
         NEW t \in memAt[w].started..now, Stamp(w, t),
         \/ mem' = mem /\ row' = row
         \/ \E s \in EndStatus : mem' = Marked(mem, {w}, s) /\ row' \in {row, Marked(row, {w}, s)},
         rowAt' \in {rowAt, [rowAt EXCEPT ![w] = Seconds(memAt'[w])]}
  PROVE  Moved(w)
<1>1. /\ mem[w] \in Entry /\ row[w] \in Entry /\ row[w] # Nil
      /\ mem[w] # Nil /\ Watching(row, w)
  BY WatchRecords DEF Watching, CopiesAgree
<1>2. mem \in [Ids -> Entry \union {Nil}] /\ row \in [Ids -> Entry \union {Nil}]
  BY DEF WatchTypes, RegistryTypeOK
<1>3. CASE mem' = mem /\ row' = row
  <2>1. mem' = [mem EXCEPT ![w] = mem[w]] /\ row' = [row EXCEPT ![w] = row[w]]
    BY <1>2, <1>3
  <2>2. Watching(row', w)
    BY <1>1, <1>3 DEF Watching
  <2> QED BY <1>1, <2>1, <2>2, Zenon DEF Moved, Stamp
<1>4. ASSUME NEW s \in EndStatus, mem' = Marked(mem, {w}, s),
             row' \in {row, Marked(row, {w}, s)}
      PROVE  Moved(w)
  <2> DEFINE m == [mem[w] EXCEPT !.status = s]
             n == [row[w] EXCEPT !.status = s]
  <2>1. m \in Entry /\ m.key = mem[w].key /\ n \in Entry /\ n.key = row[w].key /\ m.status = s
    BY <1>1 DEF Entry, Status
  <2>2. Marked(mem, {w}, s) = [mem EXCEPT ![w] = m] /\ Marked(row, {w}, s) = [row EXCEPT ![w] = n]
    <3> HIDE DEF m, n
    <3>1. \A u \in Ids : u \in {w} <=> u = w
      OBVIOUS
    <3> QED BY <1>2, <3>1 DEF Marked, m, n
  <2> HIDE DEF m, n
  <2>3. mem' = [mem EXCEPT ![w] = m]
    BY <1>4, <2>2
  <2>4. mem'[w] = m
    BY <1>2, <2>3
  <2>5. ~Watching(mem', w)
    BY <2>1, <2>4, ViewParameters DEF Watching
  <2>6. \E x \in Entry : x.key = row[w].key /\ row' = [row EXCEPT ![w] = x]
    <3>1. row = [row EXCEPT ![w] = row[w]]
      BY <1>2
    <3> QED BY <1>1, <1>4, <2>1, <2>2, <3>1
  <2> QED BY <1>1, <2>1, <2>3, <2>5, <2>6, Zenon DEF Moved, Stamp
<1> QED BY <1>3, <1>4

LEMMA MovedEffect ==
  ASSUME WatchTypes, CopiesAgree, DatedInOrder, NEW w \in Ids, Moved(w)
  PROVE  /\ mem[w] # Nil /\ mem'[w] # Nil /\ mem'[w].key = mem[w].key
         /\ row[w] # Nil /\ row'[w] # Nil /\ row'[w].key = row[w].key
         /\ Watching(mem, w) /\ Watching(row, w) /\ (Watching(mem', w) => Watching(row', w))
         /\ memAt'[w].started = memAt[w].started
         /\ memAt'[w].started <= memAt'[w].updated /\ memAt'[w].updated <= now
         /\ rowAt'[w].started = rowAt[w].started
         /\ rowAt'[w].started <= rowAt'[w].updated /\ rowAt'[w].updated <= Second(now)
         /\ \A u \in Ids \ {w} : /\ mem'[u] = mem[u] /\ row'[u] = row[u]
                                 /\ memAt'[u] = memAt[u] /\ rowAt'[u] = rowAt[u]
                                 /\ changed'[u] = changed[u]
         /\ now' = now + 1 /\ changed'[w] = now'
         /\ WatchTypes'
<1>1. /\ mem[w] \in Entry /\ row[w] \in Entry /\ row[w] # Nil /\ mem[w] # Nil
      /\ memAt[w] \in Stamps /\ rowAt[w] \in Stamps
      /\ Watching(mem, w) /\ Watching(row, w)
  BY WatchRecords DEF Watching, CopiesAgree, Moved
<1>2. /\ mem \in [Ids -> Entry \union {Nil}] /\ row \in [Ids -> Entry \union {Nil}]
      /\ memAt \in [Ids -> Stamps \union {Nil}] /\ rowAt \in [Ids -> Stamps \union {Nil}]
      /\ changed \in [Ids -> 0..now]
  BY DEF WatchTypes, RegistryTypeOK
<1>3. /\ now \in Nat /\ origin \in Origins /\ origin \in Nat /\ MaxTicks \in Nat
      /\ now \in origin..(origin + MaxTicks)
  BY ViewParameters DEF WatchTypes
<1>4. PICK m \in Entry : m.key = mem[w].key /\ mem' = [mem EXCEPT ![w] = m]
  BY DEF Moved
<1>5. PICK n \in Entry : n.key = row[w].key /\ row' = [row EXCEPT ![w] = n]
  BY DEF Moved
<1>6. PICK t \in memAt[w].started..now : memAt' = [memAt EXCEPT ![w].updated = t]
  BY DEF Moved
<1>7. /\ now' = now + 1 /\ now < origin + MaxTicks /\ origin' = origin
      /\ changed' = [changed EXCEPT ![w] = now']
  BY DEF Moved, Happens, Ticks
<1> DEFINE a == [memAt[w] EXCEPT !.updated = t]
<1>8. a \in Stamps /\ a.started = memAt[w].started /\ a.updated = t /\ t \in Nat /\ a.started <= t /\ t <= now
      /\ a.started \in Nat
  BY <1>1, <1>3, <1>6 DEF Stamps
<1>9. memAt' = [memAt EXCEPT ![w] = a]
  BY <1>2, <1>6
<1> HIDE DEF a
<1>10. memAt'[w] = a
  BY <1>2, <1>9
<1> DEFINE b == Seconds(memAt'[w])
<1>11. /\ b \in Stamps /\ b.started = Second(memAt[w].started)
       /\ b.started <= b.updated /\ b.updated <= Second(now)
  <2>1. b = [started |-> Second(a.started), updated |-> Second(t)]
    BY <1>8, <1>10, SecondsOfStamps
  <2>2. /\ Second(a.started) \in Nat /\ Second(t) \in Nat
        /\ Second(a.started) <= Second(t) /\ Second(t) <= Second(now)
    BY <1>3, <1>8, SecondType, SecondGrows
  <2> HIDE DEF b
  <2> QED BY <1>8, <2>1, <2>2 DEF Stamps
<1>12. rowAt' \in {rowAt, [rowAt EXCEPT ![w] = b]}
  BY DEF Moved
<1> HIDE DEF b
<1>13. /\ rowAt[w].started = Second(memAt[w].started) /\ rowAt[w].started <= rowAt[w].updated
       /\ rowAt[w].updated <= Second(now)
  BY <1>1 DEF DatedInOrder
<1>14. /\ rowAt'[w] \in Stamps /\ rowAt'[w].started = rowAt[w].started
       /\ rowAt'[w].started <= rowAt'[w].updated /\ rowAt'[w].updated <= Second(now)
  <2>1. CASE rowAt' = rowAt
    BY <1>1, <1>13, <2>1
  <2>2. CASE rowAt' = [rowAt EXCEPT ![w] = b]
    <3>1. rowAt'[w] = b
      BY <1>2, <2>2
    <3> QED BY <1>11, <1>13, <3>1
  <2> QED BY <1>12, <2>1, <2>2
<1>15. /\ mem'[w] = m /\ row'[w] = n /\ changed'[w] = now'
       /\ \A u \in Ids \ {w} : /\ mem'[u] = mem[u] /\ row'[u] = row[u]
                               /\ memAt'[u] = memAt[u] /\ rowAt'[u] = rowAt[u]
                               /\ changed'[u] = changed[u]
  BY <1>2, <1>4, <1>5, <1>7, <1>9, <1>12
<1>16. WatchTypes'
  <2>1. mem' \in [Ids -> Entry \union {Nil}] /\ row' \in [Ids -> Entry \union {Nil}]
    BY <1>2, <1>4, <1>5
  <2>2. memAt' \in [Ids -> Stamps \union {Nil}] /\ rowAt' \in [Ids -> Stamps \union {Nil}]
    BY <1>2, <1>8, <1>9, <1>11, <1>12
  <2>3. now' \in origin'..(origin' + MaxTicks) /\ origin' \in Origins
    BY <1>3, <1>7
  <2>4. changed' \in [Ids -> 0..now']
    <3>1. now' \in 0..now' /\ \A i \in 0..now : i \in 0..now'
      BY <1>3, <1>7
    <3> QED BY <1>2, <1>7, <3>1
  <2>5. \A u \in Ids : (mem'[u] = Nil <=> memAt'[u] = Nil) /\ (row'[u] = Nil <=> rowAt'[u] = Nil)
    <3> TAKE u \in Ids
    <3>1. CASE u = w
      BY <1>4, <1>5, <1>8, <1>10, <1>14, <1>15, <3>1, NilIsNoRecord
    <3>2. CASE u # w
      BY <1>15, <3>2 DEF WatchTypes
    <3> QED BY <3>1, <3>2
  <2> QED BY <2>1, <2>2, <2>3, <2>4, <2>5 DEF WatchTypes, RegistryTypeOK
<1>17. Watching(mem', w) => Watching(row', w)
  BY DEF Moved
<1>18. mem'[w] # Nil /\ row'[w] # Nil /\ mem'[w].key = mem[w].key /\ row'[w].key = row[w].key
  BY <1>4, <1>5, <1>15, NilIsNoRecord
<1>19. /\ memAt'[w].started = memAt[w].started
       /\ memAt'[w].started <= memAt'[w].updated /\ memAt'[w].updated <= now
  BY <1>8, <1>10
<1> QED BY <1>1, <1>7, <1>14, <1>15, <1>16, <1>17, <1>18, <1>19

LEMMA MovedKeeps ==
  ASSUME WatchInv, NEW w \in Ids, Moved(w)
  PROVE  WatchInv'
<1> USE DEF WatchInv
<1>1. /\ mem[w] # Nil /\ mem'[w] # Nil /\ mem'[w].key = mem[w].key
      /\ row[w] # Nil /\ row'[w] # Nil /\ row'[w].key = row[w].key
      /\ Watching(mem, w) /\ Watching(row, w) /\ (Watching(mem', w) => Watching(row', w))
      /\ memAt'[w].started = memAt[w].started
      /\ memAt'[w].started <= memAt'[w].updated /\ memAt'[w].updated <= now
      /\ rowAt'[w].started = rowAt[w].started
      /\ rowAt'[w].started <= rowAt'[w].updated /\ rowAt'[w].updated <= Second(now)
      /\ now' = now + 1 /\ WatchTypes'
  BY MovedEffect
<1>2. \A u \in Ids \ {w} : /\ mem'[u] = mem[u] /\ row'[u] = row[u]
                           /\ memAt'[u] = memAt[u] /\ rowAt'[u] = rowAt[u]
  BY MovedEffect
<1>3. \A u \in Ids : /\ (mem'[u] # Nil <=> mem[u] # Nil) /\ (row'[u] # Nil <=> row[u] # Nil)
                     /\ mem'[u].key = mem[u].key /\ row'[u].key = row[u].key
                     /\ memAt'[u].started = memAt[u].started /\ rowAt'[u].started = rowAt[u].started
  BY <1>1, <1>2
<1>4. \A u \in Ids : Watching(row', u) => Watching(row, u)
  BY <1>1, <1>2 DEF Watching
<1>5. now \in Nat /\ Second(now) \in Nat /\ Second(now') \in Nat /\ Second(now) <= Second(now')
  <2>1. now \in Nat
    BY NowIsNat
  <2> QED BY <1>1, <2>1, SecondType, SecondGrows
<1>6. \A u \in Ids : /\ mem[u] # Nil => memAt[u] \in Stamps /\ memAt'[u] \in Stamps
                     /\ row[u] # Nil => rowAt[u] \in Stamps /\ rowAt'[u] \in Stamps
  BY <1>1, <1>3 DEF WatchTypes
<1>7. CopiesAgree'
  <2> SUFFICES ASSUME NEW u \in Ids
               PROVE  /\ mem'[u] # Nil => row'[u] # Nil /\ row'[u].key = mem'[u].key
                      /\ Watching(mem', u) => Watching(row', u)
                      /\ Watching(row', u) => mem'[u] # Nil
    BY DEF CopiesAgree
  <2>1. mem'[u] # Nil => row'[u] # Nil /\ row'[u].key = mem'[u].key
    BY <1>3 DEF CopiesAgree
  <2>2. Watching(mem', u) => Watching(row', u)
    BY <1>1, <1>2 DEF CopiesAgree, Watching
  <2>3. Watching(row', u) => mem'[u] # Nil
    BY <1>3, <1>4 DEF CopiesAgree
  <2> QED BY <2>1, <2>2, <2>3
<1>8. IdsInOrder'
  BY <1>3 DEF IdsInOrder
<1>9. DatedInOrder'
  <2> SUFFICES ASSUME NEW u \in Ids
               PROVE  /\ mem'[u] # Nil => /\ memAt'[u].started <= memAt'[u].updated /\ memAt'[u].updated <= now'
                                          /\ rowAt'[u].started = Second(memAt'[u].started)
                      /\ row'[u] # Nil => /\ rowAt'[u].started <= rowAt'[u].updated
                                          /\ rowAt'[u].updated <= Second(now')
                                          /\ Second(rowAt'[u].started) = rowAt'[u].started
    BY DEF DatedInOrder
  <2>1. mem'[u] # Nil => rowAt'[u].started = Second(memAt'[u].started)
    BY <1>3 DEF DatedInOrder
  <2>2. row'[u] # Nil => Second(rowAt'[u].started) = rowAt'[u].started
    BY <1>3 DEF DatedInOrder
  <2>3. mem'[u] # Nil => memAt'[u].started <= memAt'[u].updated /\ memAt'[u].updated <= now
    BY <1>1, <1>2 DEF DatedInOrder
  <2>4. row'[u] # Nil => rowAt'[u].started <= rowAt'[u].updated /\ rowAt'[u].updated <= Second(now)
    BY <1>1, <1>2 DEF DatedInOrder
  <2>5. /\ mem'[u] # Nil => memAt'[u].updated \in Nat
        /\ row'[u] # Nil => rowAt'[u].updated \in Nat
    BY <1>3, <1>6 DEF Stamps
  <2> QED BY <1>1, <1>5, <2>1, <2>2, <2>3, <2>4, <2>5
<1>10. OneAfterAnother'
  <2> SUFFICES ASSUME NEW v \in Ids, NEW u \in Ids, v < u, row'[u] # Nil, row'[v].key = row'[u].key
               PROVE  ~Watching(row', v) /\ rowAt'[v].updated <= rowAt'[u].started
    BY DEF OneAfterAnother
  <2>1. ~Watching(row, v) /\ rowAt[v].updated <= rowAt[u].started
    BY <1>3 DEF OneAfterAnother
  <2>2. v # w
    BY <1>1, <2>1
  <2> QED BY <1>2, <1>3, <2>1, <2>2 DEF Watching
<1>11. MemoryIsNewer'
  <2> SUFFICES ASSUME NEW v \in Ids, NEW u \in Ids, row'[v] # Nil, mem'[v] = Nil, mem'[u] # Nil
               PROVE  rowAt'[v].updated <= memAt'[u].started
    BY DEF MemoryIsNewer
  <2>1. v # w
    BY <1>1
  <2> QED BY <1>2, <1>3, <2>1 DEF MemoryIsNewer
<1> QED BY <1>1, <1>7, <1>8, <1>9, <1>10, <1>11

LEMMA BegunEffect ==
  ASSUME WatchTypes, NEW w \in Ids, NEW k \in Keys, Begun(w, k)
  PROVE  /\ mem[w] = Nil /\ row[w] = Nil
         /\ mem'[w] = [key |-> k, status |-> "WATCHING"] /\ mem'[w] # Nil
         /\ row'[w] = [key |-> k, status |-> "WATCHING"] /\ row'[w] # Nil
         /\ memAt'[w] = [started |-> now, updated |-> now]
         /\ rowAt'[w] = [started |-> Second(now), updated |-> Second(now)]
         /\ \A u \in Ids \ {w} : /\ mem'[u] = mem[u] /\ row'[u] = row[u]
                                 /\ memAt'[u] = memAt[u] /\ rowAt'[u] = rowAt[u]
                                 /\ changed'[u] = changed[u]
         /\ now' = now + 1 /\ changed'[w] = now'
         /\ WatchTypes'
<1>1. /\ mem \in [Ids -> Entry \union {Nil}] /\ row \in [Ids -> Entry \union {Nil}]
      /\ memAt \in [Ids -> Stamps \union {Nil}] /\ rowAt \in [Ids -> Stamps \union {Nil}]
      /\ changed \in [Ids -> 0..now]
  BY DEF WatchTypes, RegistryTypeOK
<1>2. /\ now \in Nat /\ origin \in Origins /\ origin \in Nat /\ MaxTicks \in Nat
      /\ now \in origin..(origin + MaxTicks) /\ Second(now) \in Nat
  BY ViewParameters, SecondType DEF WatchTypes
<1> DEFINE e == [key |-> k, status |-> "WATCHING"]
           a == [started |-> now, updated |-> now]
           b == [started |-> Second(now), updated |-> Second(now)]
<1>3. /\ mem[w] = Nil /\ row[w] = Nil
      /\ mem' = [mem EXCEPT ![w] = e] /\ row' = [row EXCEPT ![w] = e]
  BY DEF Begun, Register
<1>4. /\ now' = now + 1 /\ now < origin + MaxTicks /\ origin' = origin
      /\ changed' = [changed EXCEPT ![w] = now']
  BY DEF Begun, Happens, Ticks
<1>5. memAt' = [memAt EXCEPT ![w] = a] /\ rowAt' = [rowAt EXCEPT ![w] = b]
  BY SecondsOfStamps DEF Begun
<1>6. e \in Entry /\ a \in Stamps /\ b \in Stamps /\ e # Nil /\ a # Nil /\ b # Nil
  BY <1>2, NilIsNoRecord DEF Entry, Status, Stamps
<1> HIDE DEF e, a, b
<1>7. /\ mem'[w] = e /\ row'[w] = e /\ memAt'[w] = a /\ rowAt'[w] = b /\ changed'[w] = now'
      /\ \A u \in Ids \ {w} : /\ mem'[u] = mem[u] /\ row'[u] = row[u]
                              /\ memAt'[u] = memAt[u] /\ rowAt'[u] = rowAt[u]
                              /\ changed'[u] = changed[u]
  BY <1>1, <1>3, <1>4, <1>5
<1>8. WatchTypes'
  <2>1. mem' \in [Ids -> Entry \union {Nil}] /\ row' \in [Ids -> Entry \union {Nil}]
    BY <1>1, <1>3, <1>6
  <2>2. memAt' \in [Ids -> Stamps \union {Nil}] /\ rowAt' \in [Ids -> Stamps \union {Nil}]
    BY <1>1, <1>5, <1>6
  <2>3. now' \in origin'..(origin' + MaxTicks) /\ origin' \in Origins
    BY <1>2, <1>4
  <2>4. changed' \in [Ids -> 0..now']
    <3>1. now' \in 0..now' /\ \A i \in 0..now : i \in 0..now'
      BY <1>2, <1>4
    <3> QED BY <1>1, <1>4, <3>1
  <2>5. \A u \in Ids : (mem'[u] = Nil <=> memAt'[u] = Nil) /\ (row'[u] = Nil <=> rowAt'[u] = Nil)
    BY <1>6, <1>7 DEF WatchTypes
  <2> QED BY <2>1, <2>2, <2>3, <2>4, <2>5 DEF WatchTypes, RegistryTypeOK
<1> QED BY <1>3, <1>4, <1>6, <1>7, <1>8 DEF e, a, b

LEMMA BegunKeeps ==
  ASSUME WatchInv, NEW w \in Ids, NEW k \in Keys, Begun(w, k)
  PROVE  WatchInv'
<1> USE DEF WatchInv
<1>1. /\ mem[w] = Nil /\ row[w] = Nil /\ mem'[w] # Nil /\ row'[w] # Nil
      /\ mem'[w].key = k /\ row'[w].key = k /\ Watching(mem', w) /\ Watching(row', w)
      /\ memAt'[w].started = now /\ memAt'[w].updated = now
      /\ rowAt'[w].started = Second(now) /\ rowAt'[w].updated = Second(now)
      /\ now' = now + 1 /\ WatchTypes'
  <2>1. /\ mem'[w] = [key |-> k, status |-> "WATCHING"] /\ mem'[w] # Nil
        /\ row'[w] = [key |-> k, status |-> "WATCHING"] /\ row'[w] # Nil
        /\ memAt'[w] = [started |-> now, updated |-> now]
        /\ rowAt'[w] = [started |-> Second(now), updated |-> Second(now)]
        /\ mem[w] = Nil /\ row[w] = Nil /\ now' = now + 1 /\ WatchTypes'
    BY BegunEffect
  <2>2. Watching(mem', w) /\ Watching(row', w)
    BY <2>1 DEF Watching
  <2> QED BY <2>1, <2>2
<1>2. \A u \in Ids \ {w} : /\ mem'[u] = mem[u] /\ row'[u] = row[u]
                           /\ memAt'[u] = memAt[u] /\ rowAt'[u] = rowAt[u]
  BY BegunEffect
<1>3. /\ now \in Nat /\ Second(now) \in Nat /\ Second(now') \in Nat
      /\ Second(now) <= now /\ Second(now) <= Second(now') /\ Second(Second(now)) = Second(now)
  <2>1. now \in Nat
    BY NowIsNat
  <2> QED BY <1>1, <2>1, SecondType, SecondGrows, SecondOfSecond
<1>4. \A u \in Ids : row[u] # Nil => u < w
  <2> SUFFICES ASSUME NEW u \in Ids, row[u] # Nil PROVE u < w
    OBVIOUS
  <2>1. w < u => row[w] # Nil
    BY DEF IdsInOrder
  <2>2. u # w /\ u \in Nat /\ w \in Nat
    BY <1>1, IdsAreNumbers
  <2> QED BY <1>1, <2>1, <2>2
<1>5. \A u \in Ids : row[u] = Nil => w <= u
  BY DEF Begun
<1>6. \A u \in Ids : mem[u] # Nil => row[u] # Nil /\ memAt[u] \in Stamps
  BY WatchRecords
<1>7. \A u \in Ids : row[u] # Nil => rowAt[u] \in Stamps
  BY WatchRecords
<1>8. CopiesAgree'
  <2> SUFFICES ASSUME NEW u \in Ids
               PROVE  /\ mem'[u] # Nil => row'[u] # Nil /\ row'[u].key = mem'[u].key
                      /\ Watching(mem', u) => Watching(row', u)
                      /\ Watching(row', u) => mem'[u] # Nil
    BY DEF CopiesAgree
  <2>1. CASE u = w
    BY <1>1, <2>1
  <2>2. CASE u # w
    BY <1>2, <2>2 DEF CopiesAgree, Watching
  <2> QED BY <2>1, <2>2
<1>9. IdsInOrder'
  <2> SUFFICES ASSUME NEW v \in Ids, NEW u \in Ids, v < u, row'[u] # Nil
               PROVE  row'[v] # Nil /\ (mem'[v] # Nil => mem'[u] # Nil)
    BY DEF IdsInOrder
  <2>0. v \in Nat /\ u \in Nat /\ w \in Nat
    BY IdsAreNumbers
  <2>1. CASE u = w
    BY <1>1, <1>2, <1>5, <2>0, <2>1
  <2>2. CASE u # w
    <3>1. u < w
      BY <1>2, <1>4, <2>2
    <3>2. v # w
      BY <2>0, <3>1
    <3> QED BY <1>2, <2>2, <3>2 DEF IdsInOrder
  <2> QED BY <2>1, <2>2
<1>10. DatedInOrder'
  <2> SUFFICES ASSUME NEW u \in Ids
               PROVE  /\ mem'[u] # Nil => /\ memAt'[u].started <= memAt'[u].updated /\ memAt'[u].updated <= now'
                                          /\ rowAt'[u].started = Second(memAt'[u].started)
                      /\ row'[u] # Nil => /\ rowAt'[u].started <= rowAt'[u].updated
                                          /\ rowAt'[u].updated <= Second(now')
                                          /\ Second(rowAt'[u].started) = rowAt'[u].started
    BY DEF DatedInOrder
  <2>1. CASE u = w
    BY <1>1, <1>3, <2>1
  <2>2. CASE u # w
    <3>1. /\ mem[u] # Nil => memAt[u].updated \in Nat
          /\ row[u] # Nil => rowAt[u].updated \in Nat
      BY <1>6, <1>7 DEF Stamps
    <3> QED BY <1>1, <1>2, <1>3, <2>2, <3>1 DEF DatedInOrder
  <2> QED BY <2>1, <2>2
<1>11. OneAfterAnother'
  <2> SUFFICES ASSUME NEW v \in Ids, NEW u \in Ids, v < u, row'[u] # Nil, row'[v].key = row'[u].key
               PROVE  ~Watching(row', v) /\ rowAt'[v].updated <= rowAt'[u].started
    BY DEF OneAfterAnother
  <2>0. v \in Nat /\ u \in Nat /\ w \in Nat
    BY IdsAreNumbers
  <2>1. CASE u = w
    <3>1. v # w /\ row[v] # Nil /\ row[v].key = k
      BY <1>1, <1>2, <1>5, <2>0, <2>1
    <3>2. ~Watching(row, v)
      BY <3>1 DEF Begun, Register, Watched
    <3>3. rowAt[v].updated <= Second(now)
      BY <3>1 DEF DatedInOrder
    <3> QED BY <1>1, <1>2, <2>1, <3>1, <3>2, <3>3 DEF Watching
  <2>2. CASE u # w
    <3>1. u < w
      BY <1>2, <1>4, <2>2
    <3>2. v # w
      BY <2>0, <3>1
    <3> QED BY <1>2, <2>2, <3>2 DEF OneAfterAnother, Watching
  <2> QED BY <2>1, <2>2
<1>12. MemoryIsNewer'
  <2> SUFFICES ASSUME NEW v \in Ids, NEW u \in Ids, row'[v] # Nil, mem'[v] = Nil, mem'[u] # Nil
               PROVE  rowAt'[v].updated <= memAt'[u].started
    BY DEF MemoryIsNewer
  <2>1. v # w
    BY <1>1
  <2>2. CASE u = w
    <3>1. rowAt[v].updated <= Second(now) /\ rowAt[v].updated \in Nat
      BY <1>2, <1>7, <2>1 DEF DatedInOrder, Stamps
    <3> QED BY <1>1, <1>2, <1>3, <2>1, <2>2, <3>1
  <2>3. CASE u # w
    BY <1>2, <2>1, <2>3 DEF MemoryIsNewer
  <2> QED BY <2>2, <2>3
<1> QED BY <1>1, <1>8, <1>9, <1>10, <1>11, <1>12

LEMMA RestartKeeps ==
  ASSUME WatchInv, Restart
  PROVE  /\ WatchInv'
         /\ \A w \in Ids : /\ mem'[w] = Nil
                           /\ row[w] # Nil => row'[w] # Nil /\ row'[w].key = row[w].key
<1> USE DEF WatchInv
<1>1. /\ mem \in [Ids -> Entry \union {Nil}] /\ row \in [Ids -> Entry \union {Nil}]
      /\ memAt \in [Ids -> Stamps \union {Nil}] /\ rowAt \in [Ids -> Stamps \union {Nil}]
      /\ changed \in [Ids -> 0..now]
  BY DEF WatchTypes, RegistryTypeOK
<1>2. /\ now \in Nat /\ origin \in Origins /\ origin \in Nat /\ MaxTicks \in Nat
      /\ now \in origin..(origin + MaxTicks) /\ Second(now) \in Nat
  BY ViewParameters, SecondType DEF WatchTypes
<1>3. /\ now' = now + 1 /\ now < origin + MaxTicks /\ origin' = origin
      /\ mem' = [w \in Ids |-> Nil] /\ memAt' = [w \in Ids |-> Nil]
  BY DEF Restart, Ticks, Replace
<1>4. row' = [w \in Ids |-> IF Watching(row, w) THEN [row[w] EXCEPT !.status = "STALE"] ELSE row[w]]
  <2>1. \A w \in Ids : w \in {v \in Ids : Watching(row, v)} <=> Watching(row, w)
    OBVIOUS
  <2> QED BY <2>1, Zenon DEF Restart, Replace, Marked
<1>5. rowAt' = [w \in Ids |-> IF Watching(row, w)
                  THEN [started |-> Second(rowAt[w].started), updated |-> Second(now)] ELSE rowAt[w]]
  BY SecondsOfStamps DEF Restart
<1>6. changed' = [w \in Ids |-> IF Watching(row, w) THEN now' ELSE changed[w]]
  BY DEF Restart
<1>7. /\ Second(now) \in Nat /\ Second(now') \in Nat
      /\ Second(now) <= now /\ Second(now) <= Second(now')
  BY <1>2, <1>3, SecondType, SecondGrows
<1>8. \A w \in Ids : row[w] # Nil =>
        /\ row[w] \in Entry /\ rowAt[w] \in Stamps
        /\ rowAt[w].started \in Nat /\ rowAt[w].updated \in Nat
        /\ rowAt[w].started <= rowAt[w].updated /\ rowAt[w].updated <= Second(now)
        /\ Second(rowAt[w].started) = rowAt[w].started
  BY WatchRecords DEF DatedInOrder, Stamps
<1>9. \A w \in Ids : Watching(row, w) =>
        /\ row'[w] \in Entry /\ row'[w].status = "STALE" /\ row'[w].key = row[w].key
        /\ rowAt'[w] = [started |-> rowAt[w].started, updated |-> Second(now)]
        /\ rowAt'[w] \in Stamps /\ row[w] # Nil
  <2> TAKE w \in Ids
  <2> HAVE Watching(row, w)
  <2>1. row[w] \in Entry /\ rowAt[w].started \in Nat /\ row[w] # Nil
    BY <1>8 DEF Watching
  <2> DEFINE x == row[w]
  <2>2. row'[w] = [x EXCEPT !.status = "STALE"]
    BY <1>4
  <2>3. [x EXCEPT !.status = "STALE"] \in Entry /\ [x EXCEPT !.status = "STALE"].key = x.key
        /\ [x EXCEPT !.status = "STALE"].status = "STALE"
    BY <2>1, ViewParameters DEF Entry, Status
  <2>4. rowAt'[w] = [started |-> rowAt[w].started, updated |-> Second(now)]
    BY <1>5, <1>8, <2>1
  <2>5. rowAt'[w] \in Stamps
    BY <1>7, <2>1, <2>4 DEF Stamps
  <2> QED BY <2>1, <2>2, <2>3, <2>4, <2>5
<1>10. \A w \in Ids : ~Watching(row, w) => row'[w] = row[w] /\ rowAt'[w] = rowAt[w]
  BY <1>4, <1>5
<1>11. \A w \in Ids : ~Watching(row', w)
  BY <1>9, <1>10 DEF Watching
<1>12. \A w \in Ids : /\ row'[w] # Nil <=> row[w] # Nil
                      /\ row[w] # Nil => row'[w].key = row[w].key
  BY <1>9, <1>10, NilIsNoRecord
<1>13. \A w \in Ids : /\ rowAt'[w].started = rowAt[w].started
                      /\ Watching(row, w) => rowAt'[w].updated = Second(now)
  <2> TAKE w \in Ids
  <2>1. CASE Watching(row, w)
    <3>1. rowAt'[w] = [started |-> rowAt[w].started, updated |-> Second(now)]
      BY <1>9, <2>1
    <3> QED BY <3>1
  <2>2. CASE ~Watching(row, w)
    BY <1>10, <2>2
  <2> QED BY <2>1, <2>2
<1>14. WatchTypes'
  <2>1. mem' \in [Ids -> Entry \union {Nil}] /\ memAt' \in [Ids -> Stamps \union {Nil}]
    BY <1>3
  <2>2. row' \in [Ids -> Entry \union {Nil}]
    <3>1. \A w \in Ids : row'[w] \in Entry \union {Nil}
      BY <1>1, <1>9, <1>10
    <3> QED BY <1>4, <3>1
  <2>3. rowAt' \in [Ids -> Stamps \union {Nil}]
    <3>1. \A w \in Ids : rowAt'[w] \in Stamps \union {Nil}
      BY <1>1, <1>9, <1>10
    <3> QED BY <1>5, <3>1
  <2>4. now' \in origin'..(origin' + MaxTicks) /\ origin' \in Origins
    BY <1>2, <1>3
  <2>5. changed' \in [Ids -> 0..now']
    <3>1. now' \in 0..now' /\ \A i \in 0..now : i \in 0..now'
      BY <1>2, <1>3
    <3> QED BY <1>1, <1>6, <3>1
  <2>6. \A w \in Ids : (mem'[w] = Nil <=> memAt'[w] = Nil) /\ (row'[w] = Nil <=> rowAt'[w] = Nil)
    <3> TAKE w \in Ids
    <3>1. mem'[w] = Nil /\ memAt'[w] = Nil
      BY <1>3
    <3>2. CASE Watching(row, w)
      BY <1>9, <3>1, <3>2, NilIsNoRecord
    <3>3. CASE ~Watching(row, w)
      BY <1>10, <3>1, <3>3 DEF WatchTypes
    <3> QED BY <3>2, <3>3
  <2> QED BY <2>1, <2>2, <2>3, <2>4, <2>5, <2>6 DEF WatchTypes, RegistryTypeOK
<1>15. \A w \in Ids : mem'[w] = Nil
  BY <1>3
<1>16. CopiesAgree' /\ MemoryIsNewer'
  BY <1>11, <1>15 DEF CopiesAgree, MemoryIsNewer, Watching
<1>17. IdsInOrder'
  BY <1>12, <1>15 DEF IdsInOrder
<1>18. DatedInOrder'
  <2> SUFFICES ASSUME NEW u \in Ids, row'[u] # Nil
               PROVE  /\ rowAt'[u].started <= rowAt'[u].updated
                      /\ rowAt'[u].updated <= Second(now')
                      /\ Second(rowAt'[u].started) = rowAt'[u].started
    BY <1>15 DEF DatedInOrder
  <2>1. CASE Watching(row, u)
    <3>1. row[u] # Nil /\ rowAt'[u].started = rowAt[u].started /\ rowAt'[u].updated = Second(now)
      BY <1>9, <1>13, <2>1
    <3>2. rowAt[u].started <= Second(now)
      BY <1>7, <1>8, <3>1
    <3> QED BY <1>7, <1>8, <3>1, <3>2
  <2>2. CASE ~Watching(row, u)
    BY <1>7, <1>8, <1>10, <2>2
  <2> QED BY <2>1, <2>2
<1>19. OneAfterAnother'
  <2> SUFFICES ASSUME NEW v \in Ids, NEW u \in Ids, v < u, row'[u] # Nil, row'[v].key = row'[u].key
               PROVE  rowAt'[v].updated <= rowAt'[u].started
    BY <1>11 DEF OneAfterAnother
  <2>1. row[u] # Nil /\ row[v] # Nil
    BY <1>12 DEF IdsInOrder
  <2>2. ~Watching(row, v) /\ rowAt[v].updated <= rowAt[u].started
    BY <1>12, <2>1 DEF OneAfterAnother
  <2> QED BY <1>10, <1>13, <2>1, <2>2
<1> QED BY <1>12, <1>14, <1>15, <1>16, <1>17, <1>18, <1>19

(***************************************************************************)
(* What happens to a watch while a lookup is on its way.                   *)
(***************************************************************************)

\* Unless the process is replaced, a watch of memory stays there, under its key and
\* its start; a new one has no row before; an end is for good; and what a watch
\* was before the last change, it still is if it did not change.
Onward ==
  /\ now <= now'
  /\ \A w \in Ids :
       /\ mem[w] # Nil => /\ mem'[w] # Nil /\ mem'[w].key = mem[w].key
                          /\ memAt'[w].started = memAt[w].started
       /\ row[w] # Nil => row'[w] # Nil /\ row'[w].key = row[w].key
       /\ mem[w] = Nil /\ mem'[w] # Nil => /\ row[w] = Nil /\ memAt'[w].started = now
                                           /\ changed'[w] > now
       /\ row[w] # Nil /\ ~Watching(mem, w) => ~Watching(mem', w)
       /\ changed'[w] <= now => /\ mem'[w] = mem[w] /\ memAt'[w] = memAt[w]
                                /\ changed'[w] = changed[w]

LEMMA MovedIsOnward ==
  ASSUME WatchInv, NEW w \in Ids, Moved(w)
  PROVE  Onward
<1> USE DEF WatchInv
<1>1. /\ mem[w] # Nil /\ mem'[w] # Nil /\ mem'[w].key = mem[w].key
      /\ row[w] # Nil /\ row'[w] # Nil /\ row'[w].key = row[w].key
      /\ Watching(mem, w)
      /\ memAt'[w].started = memAt[w].started
      /\ now' = now + 1 /\ changed'[w] = now'
  BY MovedEffect
<1>2. \A u \in Ids \ {w} : /\ mem'[u] = mem[u] /\ row'[u] = row[u]
                           /\ memAt'[u] = memAt[u] /\ changed'[u] = changed[u]
  BY MovedEffect
<1>3. now \in Nat
  BY NowIsNat
<1>4. now <= now' /\ ~(changed'[w] <= now)
  BY <1>1, <1>3
<1>5. \A u \in Ids \ {w} : ~Watching(mem, u) => ~Watching(mem', u)
  BY <1>2 DEF Watching
<1> QED BY <1>1, <1>2, <1>4, <1>5, Zenon DEF Onward

LEMMA BegunIsOnward ==
  ASSUME WatchInv, NEW w \in Ids, NEW k \in Keys, Begun(w, k)
  PROVE  Onward
<1> USE DEF WatchInv
<1>1. /\ mem[w] = Nil /\ row[w] = Nil
      /\ memAt'[w] = [started |-> now, updated |-> now]
      /\ now' = now + 1 /\ changed'[w] = now'
  BY BegunEffect
<1>2. \A u \in Ids \ {w} : /\ mem'[u] = mem[u] /\ row'[u] = row[u]
                           /\ memAt'[u] = memAt[u] /\ changed'[u] = changed[u]
  BY BegunEffect
<1>3. now \in Nat
  BY NowIsNat
<1>4. now <= now' /\ ~(changed'[w] <= now) /\ changed'[w] > now /\ memAt'[w].started = now
  BY <1>1, <1>3
<1>5. \A u \in Ids \ {w} : ~Watching(mem, u) => ~Watching(mem', u)
  BY <1>2 DEF Watching
<1> QED BY <1>1, <1>2, <1>4, <1>5, Zenon DEF Onward

LEMMA StandstillIsOnward ==
  ASSUME WatchInv, UNCHANGED <<registry, clocks>>
  PROVE  Onward /\ WatchInv'
<1> USE DEF registry, clocks
<1>1. now <= now'
  BY NowIsNat DEF WatchInv
<1>2. \A w \in Ids : ~Watching(mem, w) => ~Watching(mem', w)
  BY DEF Watching
<1>3. Onward
  BY <1>1, <1>2, Zenon DEF Onward
<1>4. WatchInv'
  BY Zenon DEF WatchInv, WatchTypes, RegistryTypeOK, CopiesAgree, IdsInOrder, DatedInOrder,
               OneAfterAnother, MemoryIsNewer, Watching
<1> QED BY <1>3, <1>4

(***************************************************************************)
(* The inductive invariant: the lookups.                                   *)
(***************************************************************************)

Lookups(n) == [request: Requests, pc: {"memory", "rows"}, found: SUBSET Snapshot, began: 0..n]

ClientTypes ==
  /\ reader \in [Readers -> Lookups(now) \union {Nil}]
  /\ told \in [Readers -> [Mine -> {0} \union Ids]]
  /\ ended \in [Readers -> SUBSET Ids]

\* What a client was told of a key is a row of that key.
ToldExists ==
  \A r \in Readers : \A k \in Mine :
    told[r][k] # 0 => row[told[r][k]] # Nil /\ row[told[r][k]].key = k

\* What a client was shown as ended has ended.
EndedIsOver ==
  \A r \in Readers : \A w \in ended[r] : row[w] # Nil /\ ~Watching(mem, w)

Own(w) == mem[w] # Nil /\ LoginOf(row[w].key) = Login

\* A lookup by ID that went on to the rows: memory did not have the watch.
IdRead(r) ==
  Request(r).op = "id" => (mem[Request(r).id] # Nil => Request(r).id \notin ended[r])

\* A lookup by key that went on to the rows: memory had no watch of the key, so
\* those it has now are new.
KeyRead(r) ==
  Request(r).op \in {"latest", "cancel"} =>
    \A w \in Ids : mem[w] # Nil /\ mem[w].key = Request(r).key =>
      /\ memAt[w].started >= reader[r].began
      /\ w \notin ended[r]

\* A list that went on to the rows has what memory had to show for it.
FoundStands(r, e) ==
  /\ Own(e.id)
  /\ e.started = memAt[e.id].started /\ e.started <= e.updated
  /\ Live(e) \/ ~Watching(mem, e.id)
  /\ e.id \in ended[r] => ~Live(e)
  /\ Request(r).live => Live(e)

ListRead(r) ==
  Request(r).op = "list" =>
    /\ OncePerWatch(reader[r].found)
    /\ \A e \in reader[r].found : FoundStands(r, e)
    /\ \A w \in Ids : Own(w) =>
         /\ w \in ended[r] /\ ~Request(r).live => \E e \in reader[r].found : e.id = w
         /\ changed[w] <= reader[r].began /\ (Request(r).live => Watching(mem, w))
              => FromMemory(w) \in reader[r].found

RowsNext(r) == At(r, "rows") => IdRead(r) /\ KeyRead(r) /\ ListRead(r)

ViewInv ==
  /\ WatchInv
  /\ ClientTypes
  /\ ToldExists
  /\ EndedIsOver
  /\ \A r \in Readers : RowsNext(r)

LEMMA LookupType ==
  ASSUME ClientTypes, NEW r \in Readers, reader[r] # Nil
  PROVE  /\ reader[r] \in Lookups(now) /\ Request(r) \in Requests
         /\ reader[r].found \in SUBSET Snapshot /\ reader[r].began \in 0..now
BY DEF ClientTypes, Lookups, Request

LEMMA RequestKinds ==
  ASSUME NEW q \in Requests
  PROVE  \/ q.op = "id" /\ q.id \in Ids
         \/ q.op \in {"latest", "cancel"} /\ q.key \in Mine
         \/ q.op = "list" /\ q.live \in BOOLEAN /\ q.limit \in Nat \ {0}
BY ViewParameters DEF Requests

LEMMA LiveIsPolled ==
  ASSUME NEW e
  PROVE  NextAction(e) = "POLL_AFTER" <=> Live(e)
BY DEF NextAction, Live

\* A lookup that waits keeps what it knows while watches go on.
LEMMA LookupWaits ==
  ASSUME WatchInv, WatchInv', ClientTypes, Onward, NEW r \in Readers,
         EndedIsOver, RowsNext(r),
         reader'[r] = reader[r], ended'[r] = ended[r]
  PROVE  RowsNext(r)'
<1> SUFFICES ASSUME At(r, "rows")
             PROVE  (IdRead(r) /\ KeyRead(r) /\ ListRead(r))'
  BY DEF RowsNext, At
<1>1. IdRead(r) /\ KeyRead(r) /\ ListRead(r) /\ reader[r] # Nil
  BY DEF RowsNext, At
<1>2. /\ Request(r) \in Requests /\ Request(r)' = Request(r)
      /\ reader[r].found \in SUBSET Snapshot /\ reader[r].began \in 0..now
      /\ ended[r] \in SUBSET Ids
  BY <1>1, LookupType DEF ClientTypes, Request
<1>3. \A w \in ended[r] : mem'[w] # Nil => mem[w] # Nil
  BY <1>2 DEF Onward, EndedIsOver
<1>4. IdRead(r)'
  BY <1>1, <1>2, <1>3 DEF IdRead
<1>5. now \in Nat /\ reader[r].began \in Nat /\ reader[r].began <= now
  BY <1>2, NowIsNat DEF WatchInv
<1>6. KeyRead(r)'
  <2> SUFFICES ASSUME Request(r).op \in {"latest", "cancel"},
                      NEW w \in Ids, mem'[w] # Nil, mem'[w].key = Request(r).key
               PROVE  memAt'[w].started >= reader[r].began /\ w \notin ended[r]
    BY <1>2 DEF KeyRead
  <2>1. CASE mem[w] = Nil
    BY <1>3, <1>5, <2>1 DEF Onward
  <2>2. CASE mem[w] # Nil
    BY <1>1, <2>2 DEF Onward, KeyRead
  <2> QED BY <2>1, <2>2
<1>7. \A w \in Ids : Own(w) => Own(w)'
  BY DEF Own, Onward, WatchInv, CopiesAgree
<1>8. \A w \in Ids : Own(w)' /\ mem[w] # Nil => Own(w)
  BY DEF Own, Onward, WatchInv, CopiesAgree
<1>9. ASSUME Request(r).op = "list"
      PROVE  ListRead(r)'
  <2>1. /\ OncePerWatch(reader[r].found)
        /\ \A e \in reader[r].found : FoundStands(r, e)
        /\ \A w \in Ids : Own(w) =>
             /\ w \in ended[r] /\ ~Request(r).live => \E e \in reader[r].found : e.id = w
             /\ changed[w] <= reader[r].began /\ (Request(r).live => Watching(mem, w))
                  => FromMemory(w) \in reader[r].found
    BY <1>1, <1>9 DEF ListRead
  <2>2. OncePerWatch(reader'[r].found)
    BY <2>1
  <2>3. ASSUME NEW e \in reader[r].found
        PROVE  FoundStands(r, e)'
    <3>1. e.id \in Ids
      BY <1>2 DEF Snapshot
    <3>2. FoundStands(r, e)
      BY <2>1
    <3>3. mem[e.id] # Nil /\ row[e.id] # Nil
      BY <3>1, <3>2 DEF FoundStands, Own, WatchInv, CopiesAgree
    <3>4. memAt'[e.id].started = memAt[e.id].started
      BY <3>1, <3>3 DEF Onward
    <3>5. ~Watching(mem, e.id) => ~Watching(mem', e.id)
      BY <3>1, <3>3 DEF Onward
    <3> QED BY <1>2, <1>7, <3>1, <3>2, <3>4, <3>5, Zenon DEF FoundStands
  <2>4. ASSUME NEW w \in Ids, Own(w)'
        PROVE  /\ w \in ended[r] /\ ~Request(r).live => \E e \in reader[r].found : e.id = w
               /\ changed'[w] <= reader[r].began /\ (Request(r).live => Watching(mem', w))
                    => FromMemory(w)' \in reader[r].found
    <3>1. w \in ended[r] /\ ~Request(r).live => \E e \in reader[r].found : e.id = w
      <4>1. w \in ended[r] => mem[w] # Nil
        BY <1>3, <2>4 DEF Own
      <4> QED BY <1>8, <2>1, <2>4, <4>1
    <3>2. ASSUME changed'[w] <= reader[r].began, Request(r).live => Watching(mem', w)
          PROVE  FromMemory(w)' \in reader[r].found
      <4>1. changed'[w] \in Int
        BY DEF WatchInv, WatchTypes
      <4>2. changed'[w] <= now
        BY <1>5, <3>2, <4>1
      <4>3. mem'[w] = mem[w] /\ memAt'[w] = memAt[w] /\ changed'[w] = changed[w]
        BY <4>2 DEF Onward
      <4>4. FromMemory(w)' = FromMemory(w) /\ (Watching(mem', w) => Watching(mem, w))
        BY <4>3 DEF FromMemory, Shown, Watching
      <4>5. Own(w)
        BY <1>8, <2>4, <4>3 DEF Own
      <4> QED BY <2>1, <3>2, <4>3, <4>4, <4>5
    <3> QED BY <3>1, <3>2
  <2> QED BY <1>2, <2>2, <2>3, <2>4, Zenon DEF ListRead
<1>10. ListRead(r)'
  BY <1>2, <1>9 DEF ListRead
<1> QED BY <1>4, <1>6, <1>10

(***************************************************************************)
(* What memory and the rows have for a request.                            *)
(***************************************************************************)

LEMMA MemorySnapshot ==
  ASSUME WatchInv, NEW w \in Ids, mem[w] # Nil
  PROVE  /\ FromMemory(w) \in Snapshot /\ FromMemory(w).id = w
         /\ Live(FromMemory(w)) <=> Watching(mem, w)
         /\ FromMemory(w).started = memAt[w].started /\ FromMemory(w).updated = memAt[w].updated
<1>1. mem[w] \in Entry /\ memAt[w] \in Stamps
  BY WatchRecords DEF WatchInv
<1>2. mem[w].status \in Status /\ memAt[w].started \in Nat /\ memAt[w].updated \in Nat
  BY <1>1 DEF Entry, Stamps
<1>3. FromMemory(w) = [id |-> w, status |-> mem[w].status,
                       started |-> memAt[w].started, updated |-> memAt[w].updated]
  BY DEF FromMemory, Shown
<1>4. FromMemory(w) \in Snapshot
  BY <1>2, <1>3 DEF Snapshot
<1>5. FromMemory(w).status = mem[w].status
  BY <1>3
<1> QED BY <1>3, <1>4, <1>5 DEF Live, Watching

LEMMA RowSnapshot ==
  ASSUME WatchInv, NEW w \in Ids, row[w] # Nil
  PROVE  /\ FromRow(w) \in Snapshot /\ FromRow(w).id = w
         /\ Live(FromRow(w)) <=> Watching(row, w)
         /\ FromRow(w).started = rowAt[w].started /\ FromRow(w).updated = rowAt[w].updated
<1>1. row[w] \in Entry /\ rowAt[w] \in Stamps
  BY WatchRecords DEF WatchInv
<1>2. row[w].status \in Status /\ rowAt[w].started \in Nat /\ rowAt[w].updated \in Nat
  BY <1>1 DEF Entry, Stamps
<1>3. FromRow(w) = [id |-> w, status |-> row[w].status,
                    started |-> rowAt[w].started, updated |-> rowAt[w].updated]
  BY DEF FromRow, Shown
<1>4. FromRow(w) \in Snapshot
  BY <1>2, <1>3 DEF Snapshot
<1>5. FromRow(w).status = row[w].status
  BY <1>3
<1> QED BY <1>3, <1>4, <1>5 DEF Live, Watching

LEMMA MemoryOfId ==
  ASSUME WatchInv, NEW q \in Requests, q.op = "id", NEW e \in InMemory(q)
  PROVE  /\ e.id \in Ids /\ e.id = q.id /\ mem[e.id] # Nil /\ e = FromMemory(e.id)
<1> DEFINE M == {w \in Ids : mem[w] # Nil}
<1>1. InMemory(q) = OwnOnly({FromMemory(w) : w \in M \intersect {q.id}})
  BY Zenon DEF InMemory
<1>2. e \in {FromMemory(w) : w \in M \intersect {q.id}}
  BY <1>1, Zenon DEF OwnOnly
<1>3. q.id \in Ids /\ mem[q.id] # Nil /\ e = FromMemory(q.id)
  BY <1>2
<1> QED BY <1>3, MemorySnapshot

LEMMA MemoryOfKey ==
  ASSUME WatchInv, NEW q \in Requests, q.op \in {"latest", "cancel"}
  PROVE  /\ \A e \in InMemory(q) :
              /\ e.id \in Ids /\ mem[e.id] # Nil /\ mem[e.id].key = q.key /\ e = FromMemory(e.id)
              /\ \A u \in Ids : mem[u] # Nil /\ mem[u].key = q.key => u <= e.id
         /\ InMemory(q) = {} => \A u \in Ids : mem[u] # Nil => mem[u].key # q.key
<1> DEFINE M == {w \in Ids : mem[w] # Nil}
           K == {w \in M : mem[w].key = q.key}
<1>1. q.op # "id" /\ q.op # "list"
  OBVIOUS
<1>2. InMemory(q) = {FromMemory(w) : w \in {v \in K : \A u \in K : u <= v}}
  BY <1>1, Zenon DEF InMemory
<1>3. ASSUME NEW e \in InMemory(q)
      PROVE  /\ e.id \in Ids /\ mem[e.id] # Nil /\ mem[e.id].key = q.key /\ e = FromMemory(e.id)
             /\ \A u \in Ids : mem[u] # Nil /\ mem[u].key = q.key => u <= e.id
  <2>1. PICK w \in {v \in K : \A u \in K : u <= v} : e = FromMemory(w)
    BY <1>2, <1>3
  <2>2. w \in Ids /\ mem[w] # Nil /\ mem[w].key = q.key /\ \A u \in K : u <= w
    BY <2>1
  <2>3. e.id = w
    BY <2>1, <2>2, MemorySnapshot
  <2> QED BY <2>1, <2>2, <2>3
<1>4. ASSUME NEW u \in Ids, mem[u] # Nil, mem[u].key = q.key
      PROVE  InMemory(q) # {}
  <2>1. K \in SUBSET Ids /\ K # {}
    BY <1>4
  <2>2. PICK w \in K : \A v \in K : v <= w
    <3> HIDE DEF K
    <3> QED BY <2>1, LastIdExists
  <2>3. FromMemory(w) \in InMemory(q)
    BY <1>2, <2>2
  <2> QED BY <2>3
<1> QED BY <1>3, <1>4

LEMMA MemoryOfList ==
  ASSUME WatchInv, NEW q \in Requests, q.op = "list"
  PROVE  /\ \A e \in InMemory(q) : /\ e.id \in Ids /\ Own(e.id) /\ e = FromMemory(e.id)
                                   /\ q.live => Live(e)
         /\ \A w \in Ids : Own(w) /\ (q.live => Watching(mem, w)) => FromMemory(w) \in InMemory(q)
<1> DEFINE M == {w \in Ids : mem[w] # Nil}
           S == {FromMemory(w) : w \in M}
<1>1. InMemory(q) = Wanted(q, OwnOnly(S))
  BY Zenon DEF InMemory
<1>2. \A e : e \in InMemory(q) <=> e \in OwnOnly(S) /\ (q.live => Live(e))
  BY <1>1, Zenon DEF Wanted
<1>3. \A e : e \in OwnOnly(S) <=> e \in S /\ LoginOf(row[e.id].key) = Login
  BY Zenon DEF OwnOnly
<1>4. \A e \in S : e.id \in Ids /\ mem[e.id] # Nil /\ e = FromMemory(e.id)
  <2> TAKE e \in S
  <2>1. PICK w \in Ids : mem[w] # Nil /\ e = FromMemory(w)
    OBVIOUS
  <2> QED BY <2>1, MemorySnapshot
<1>5. \A w \in Ids : mem[w] # Nil => FromMemory(w) \in S /\ FromMemory(w).id = w
                                     /\ (Live(FromMemory(w)) <=> Watching(mem, w))
  BY MemorySnapshot
<1> HIDE DEF S
<1>6. \A e \in InMemory(q) : /\ e.id \in Ids /\ Own(e.id) /\ e = FromMemory(e.id)
                             /\ q.live => Live(e)
  BY <1>2, <1>3, <1>4, Zenon DEF Own
<1>7. ASSUME NEW w \in Ids, Own(w), q.live => Watching(mem, w)
      PROVE  FromMemory(w) \in InMemory(q)
  <2> DEFINE f == FromMemory(w)
  <2>1. f \in S /\ f.id = w /\ (Live(f) <=> Watching(mem, w)) /\ LoginOf(row[w].key) = Login
    BY <1>5, <1>7 DEF Own
  <2> HIDE DEF f
  <2>2. f \in OwnOnly(S)
    BY <1>3, <2>1
  <2>3. f \in InMemory(q)
    BY <1>2, <1>7, <2>1, <2>2, Zenon
  <2> QED BY <2>3 DEF f
<1> QED BY <1>6, <1>7

\* The rows of a list, before the limit.
ListedRows(q) == Wanted(q, OwnOnly({FromRow(w) : w \in {v \in Ids : row[v] # Nil}}))

LEMMA RowsOfList ==
  ASSUME WatchInv, NEW q \in Requests, q.op = "list"
  PROVE  /\ InRows(q) = First(ListedRows(q), q.limit)
         /\ \A e \in ListedRows(q) : /\ e.id \in Ids /\ row[e.id] # Nil /\ e = FromRow(e.id)
                                     /\ LoginOf(row[e.id].key) = Login /\ (q.live => Live(e))
         /\ \A w \in Ids : /\ row[w] # Nil /\ LoginOf(row[w].key) = Login
                           /\ q.live => Watching(row, w)
                           => FromRow(w) \in ListedRows(q)
<1> DEFINE S == {FromRow(w) : w \in {v \in Ids : row[v] # Nil}}
<1>1. InRows(q) = First(ListedRows(q), q.limit)
  BY Zenon DEF InRows, ListedRows
<1>2. \A e : e \in ListedRows(q) <=> e \in OwnOnly(S) /\ (q.live => Live(e))
  BY Zenon DEF Wanted, ListedRows
<1>3. \A e : e \in OwnOnly(S) <=> e \in S /\ LoginOf(row[e.id].key) = Login
  BY Zenon DEF OwnOnly
<1>4. \A e \in S : e.id \in Ids /\ row[e.id] # Nil /\ e = FromRow(e.id)
  <2> TAKE e \in S
  <2>1. PICK w \in Ids : row[w] # Nil /\ e = FromRow(w)
    OBVIOUS
  <2> QED BY <2>1, RowSnapshot
<1>5. \A w \in Ids : row[w] # Nil => FromRow(w) \in S /\ FromRow(w).id = w
                                     /\ (Live(FromRow(w)) <=> Watching(row, w))
  BY RowSnapshot
<1> HIDE DEF S
<1>6. \A e \in ListedRows(q) : /\ e.id \in Ids /\ row[e.id] # Nil /\ e = FromRow(e.id)
                               /\ LoginOf(row[e.id].key) = Login /\ (q.live => Live(e))
  BY <1>2, <1>3, <1>4, Zenon
<1>7. ASSUME NEW w \in Ids, row[w] # Nil, LoginOf(row[w].key) = Login, q.live => Watching(row, w)
      PROVE  FromRow(w) \in ListedRows(q)
  <2> DEFINE f == FromRow(w)
  <2>1. f \in S /\ f.id = w /\ (Live(f) <=> Watching(row, w))
    BY <1>5, <1>7
  <2> HIDE DEF f
  <2>2. f \in OwnOnly(S)
    BY <1>3, <1>7, <2>1
  <2>3. f \in ListedRows(q)
    BY <1>2, <1>7, <2>1, <2>2, Zenon
  <2> QED BY <2>3 DEF f
<1> QED BY <1>1, <1>6, <1>7

LEMMA RowOfId ==
  ASSUME WatchInv, NEW q \in Requests, q.op = "id", NEW e \in InRows(q)
  PROVE  e.id \in Ids /\ e.id = q.id /\ row[e.id] # Nil /\ e = FromRow(e.id)
<1> DEFINE R == {FromRow(w) : w \in {v \in Ids : row[v] # Nil}}
<1>1. InRows(q) = OwnOnly({f \in R : f.id = q.id})
  BY Zenon DEF InRows
<1>2. e \in R /\ e.id = q.id
  BY <1>1, Zenon DEF OwnOnly
<1>3. PICK w \in Ids : row[w] # Nil /\ e = FromRow(w)
  BY <1>2
<1> QED BY <1>2, <1>3, RowSnapshot

\* The newest row of a key is the one that started last, whatever the stamps.
LEMMA RowOfKey ==
  ASSUME WatchInv, NEW q \in Requests, q.op \in {"latest", "cancel"}
  PROVE  /\ \A e \in InRows(q) : e.id \in Ids /\ row[e.id] # Nil /\ row[e.id].key = q.key /\ e = FromRow(e.id)
         /\ \A v \in Ids : row[v] # Nil /\ row[v].key = q.key => \E e \in InRows(q) : e.id >= v
<1> DEFINE R == {FromRow(w) : w \in {v \in Ids : row[v] # Nil}}
           K == {e \in R : row[e.id].key = q.key}
           W == {w \in Ids : row[w] # Nil /\ row[w].key = q.key}
<1>1. q.op # "id" /\ q.op # "list"
  OBVIOUS
<1>2. InRows(q) = {e \in K : \A f \in K \ {e} : Newer(e, f)}
  BY <1>1, Zenon DEF InRows
<1>3. \A e \in K : e.id \in W /\ e = FromRow(e.id)
  <2> TAKE e \in K
  <2>1. PICK w \in Ids : row[w] # Nil /\ e = FromRow(w)
    OBVIOUS
  <2>2. e.id = w
    BY <2>1, RowSnapshot
  <2> QED BY <2>1, <2>2
<1>4. \A w \in W : FromRow(w) \in K
  BY RowSnapshot
<1>5. ASSUME NEW v \in Ids, row[v] # Nil, row[v].key = q.key
      PROVE  \E e \in InRows(q) : e.id >= v
  <2>1. W \in SUBSET Ids /\ v \in W
    BY <1>5
  <2>2. PICK w \in W : \A u \in W : u <= w
    <3> HIDE DEF W
    <3> QED BY <2>1, LastIdExists
  <2> DEFINE e == FromRow(w)
  <2>3. w \in Ids /\ row[w] # Nil /\ row[w].key = q.key /\ v <= w /\ w \in Nat /\ v \in Nat
    BY <2>1, <2>2, IdsAreNumbers
  <2>4. e.id = w /\ e.started = rowAt[w].started /\ e.updated = rowAt[w].updated /\ e \in Snapshot
    BY <2>3, RowSnapshot
  <2>5. e \in K
    BY <1>4, <2>2
  <2>6. ASSUME NEW f \in K, f # e
        PROVE  Newer(e, f)
    <3> DEFINE u == f.id
    <3>1. u \in Ids /\ row[u] # Nil /\ row[u].key = q.key /\ f = FromRow(u) /\ u \in W /\ u \in Nat
      BY <1>3, IdsAreNumbers
    <3>2. f.started = rowAt[u].started /\ f.updated = rowAt[u].updated
      BY <3>1, RowSnapshot
    <3>3. u # w /\ u <= w
      BY <2>2, <2>6, <3>1
    <3>4. u < w
      BY <2>3, <3>1, <3>3
    <3>5. rowAt[u].updated <= rowAt[w].started
      BY <2>3, <3>1, <3>4 DEF WatchInv, OneAfterAnother
    <3>6. rowAt[u].started <= rowAt[u].updated /\ rowAt[w].started <= rowAt[w].updated
      BY <2>3, <3>1 DEF WatchInv, DatedInOrder
    <3>7. rowAt[u] \in Stamps /\ rowAt[w] \in Stamps
      BY <2>3, <3>1, WatchRecords DEF WatchInv
    <3>8. /\ rowAt[u].started \in Nat /\ rowAt[u].updated \in Nat
          /\ rowAt[w].started \in Nat /\ rowAt[w].updated \in Nat
      BY <3>7 DEF Stamps
    <3> HIDE DEF e, u
    <3>9. f.id = u
      BY DEF u
    <3> QED BY <2>3, <2>4, <3>1, <3>2, <3>4, <3>5, <3>6, <3>8, <3>9 DEF Newer
  <2>7. e \in InRows(q)
    <3> HIDE DEF K, e
    <3> QED BY <1>2, <2>5, <2>6
  <2> QED BY <2>3, <2>4, <2>7
<1>6. \A e \in InRows(q) : e.id \in Ids /\ row[e.id] # Nil /\ row[e.id].key = q.key /\ e = FromRow(e.id)
  BY <1>2, <1>3
<1> QED BY <1>5, <1>6

(***************************************************************************)
(* The lookups keep the invariant.                                         *)
(***************************************************************************)

\* An answer of the lookup of r: snapshots of watches that exist, of the key asked
\* for, ended only if the watch has ended.
Showable(r, found) ==
  \A e \in found :
    /\ e.id \in Ids /\ row[e.id] # Nil
    /\ Live(e) \/ ~Watching(mem, e.id)
    /\ Request(r).op = "latest" => row[e.id].key = Request(r).key

\* A list shows what memory had, and the rows of other watches.
LEMMA MergedList ==
  ASSUME NEW q, q.op = "list", NEW found
  PROVE  Merged(q, found) = First(found \union {e \in InRows(q) : \A f \in found : f.id # e.id}, q.limit)
BY Zenon DEF Merged

LEMMA RowsAreShowable ==
  ASSUME ViewInv, NEW r \in Readers, At(r, "rows")
  PROVE  Showable(r, Merged(Request(r), reader[r].found))
<1> DEFINE q == Request(r)
           found == reader[r].found
<1>1. /\ reader[r] # Nil /\ q \in Requests /\ found \in SUBSET Snapshot
      /\ IdRead(r) /\ KeyRead(r) /\ ListRead(r)
  BY LookupType DEF ViewInv, At, RowsNext
<1>2. WatchInv
  BY DEF ViewInv
<1>3. \A w \in Ids : row[w] # Nil =>
        Live(FromRow(w)) \/ ~Watching(mem, w)
  BY <1>2, RowSnapshot DEF WatchInv, CopiesAgree
<1> HIDE DEF q, found
<1>4. CASE q.op = "list"
  <2> DEFINE rest == {e \in InRows(q) : \A f \in found : f.id # e.id}
  <2>1. Merged(q, found) = First(found \union rest, q.limit)
    BY <1>4, MergedList
  <2>2. \A e \in Merged(q, found) : e \in found \/ e \in InRows(q)
    <3> HIDE DEF rest
    <3>1. \A e \in Merged(q, found) : e \in found \union rest
      BY <2>1, Zenon DEF First
    <3> QED BY <3>1 DEF rest
  <2>3. \A e \in found : e.id \in Ids /\ row[e.id] # Nil /\ (Live(e) \/ ~Watching(mem, e.id))
    <3> TAKE e \in found
    <3>1. FoundStands(r, e)
      BY <1>1, <1>4 DEF ListRead, q, found
    <3>2. e.id \in Ids
      BY <1>1 DEF Snapshot
    <3> QED BY <1>2, <3>1, <3>2 DEF FoundStands, Own, WatchInv, CopiesAgree
  <2>4. \A e \in InRows(q) : e.id \in Ids /\ row[e.id] # Nil /\ e = FromRow(e.id)
    <3>1. \A e \in InRows(q) : e \in ListedRows(q)
      <4>1. InRows(q) = First(ListedRows(q), q.limit)
        BY <1>1, <1>2, <1>4, RowsOfList
      <4> QED BY <4>1, Zenon DEF First
    <3> QED BY <1>1, <1>2, <1>4, <3>1, RowsOfList
  <2>5. ASSUME NEW e \in Merged(q, found)
        PROVE  e.id \in Ids /\ row[e.id] # Nil /\ (Live(e) \/ ~Watching(mem, e.id))
    <3>1. CASE e \in found
      BY <2>3, <3>1
    <3>2. CASE e \in InRows(q)
      <4>1. e.id \in Ids /\ row[e.id] # Nil /\ e = FromRow(e.id)
        BY <2>4, <3>2
      <4> DEFINE w == e.id
      <4>2. Live(FromRow(w)) \/ ~Watching(mem, w)
        BY <1>3, <4>1
      <4> QED BY <4>1, <4>2
    <3> QED BY <2>2, <2>5, <3>1, <3>2
  <2> QED BY <1>4, <2>5 DEF Showable, q, found
<1>5. CASE q.op # "list"
  <2>1. Merged(q, found) = InRows(q)
    BY <1>5, Zenon DEF Merged
  <2>2. CASE q.op = "id"
    <3>1. \A e \in InRows(q) : e.id \in Ids /\ row[e.id] # Nil /\ e = FromRow(e.id)
      BY <1>1, <1>2, <2>2, RowOfId
    <3>2. \A e \in InRows(q) : Live(e) \/ ~Watching(mem, e.id)
      BY <1>3, <3>1
    <3> QED BY <2>1, <2>2, <3>1, <3>2 DEF Showable, q, found
  <2>3. CASE q.op \in {"latest", "cancel"}
    <3>1. \A e \in InRows(q) : e.id \in Ids /\ row[e.id] # Nil /\ e = FromRow(e.id) /\ row[e.id].key = q.key
      BY <1>1, <1>2, <2>3, RowOfKey
    <3>2. \A e \in InRows(q) : Live(e) \/ ~Watching(mem, e.id)
      BY <1>3, <3>1
    <3> QED BY <2>1, <3>1, <3>2 DEF Showable, q, found
  <2> QED BY <1>1, <1>5, <2>2, <2>3, RequestKinds
<1> QED BY <1>4, <1>5

LEMMA MemoryIsShowable ==
  ASSUME ViewInv, NEW r \in Readers, At(r, "memory"), Known(Request(r))
  PROVE  Showable(r, InMemory(Request(r)))
<1> DEFINE q == Request(r)
<1>1. reader[r] # Nil /\ q \in Requests /\ WatchInv
  BY LookupType DEF ViewInv, At
<1>2. \A w \in Ids : mem[w] # Nil => /\ row[w] # Nil /\ row[w].key = mem[w].key
                                     /\ Live(FromMemory(w)) \/ ~Watching(mem, w)
  BY <1>1, MemorySnapshot DEF WatchInv, CopiesAgree
<1> HIDE DEF q
<1>3. CASE q.op = "id"
  BY <1>1, <1>2, <1>3, MemoryOfId DEF Showable, q
<1>4. CASE q.op \in {"latest", "cancel"}
  <2>1. \A e \in InMemory(q) : e.id \in Ids /\ mem[e.id] # Nil /\ mem[e.id].key = q.key /\ e = FromMemory(e.id)
    BY <1>1, <1>4, MemoryOfKey
  <2>2. \A e \in InMemory(q) : Live(e) \/ ~Watching(mem, e.id)
    BY <1>2, <2>1
  <2> QED BY <1>2, <2>1, <2>2 DEF Showable, q
<1>5. q.op # "list"
  BY DEF Known, q
<1> QED BY <1>1, <1>3, <1>4, <1>5, RequestKinds

\* A client is told what exists and shown as ended what has ended.
LEMMA ReturnKeeps ==
  ASSUME ViewInv, WatchInv', Onward, NEW r \in Readers, reader[r] # Nil,
         NEW found, Return(r, found),
         \A e \in found : /\ e.id \in Ids /\ row'[e.id] # Nil
                          /\ Live(e) \/ ~Watching(mem', e.id)
                          /\ Request(r).op = "latest" => row'[e.id].key = Request(r).key
  PROVE  ViewInv'
<1> DEFINE shut == {e.id : e \in {f \in found : NextAction(f) # "POLL_AFTER"}}
           q == Request(r)
<1>1. /\ reader' = [reader EXCEPT ![r] = Nil]
      /\ ended' = [ended EXCEPT ![r] = ended[r] \union shut]
      /\ told' = IF q.op # "latest" THEN told
                 ELSE [told EXCEPT ![r][q.key] =
                         IF found = {} THEN 0 ELSE CHOOSE w \in Ids : \E e \in found : e.id = w]
  BY DEF Return
<1>2. /\ reader \in [Readers -> Lookups(now) \union {Nil}]
      /\ told \in [Readers -> [Mine -> {0} \union Ids]]
      /\ ended \in [Readers -> SUBSET Ids]
      /\ q \in Requests
  BY LookupType DEF ViewInv, ClientTypes
<1>3. shut \in SUBSET Ids /\ \A w \in shut : row'[w] # Nil /\ ~Watching(mem', w)
  BY LiveIsPolled
<1>4. \A w \in Ids : row[w] # Nil => row'[w] # Nil /\ row'[w].key = row[w].key
  BY DEF Onward
<1>5. \A n \in Lookups(now) : n \in Lookups(now')
  <2>1. now \in Nat /\ now' \in Nat /\ now <= now'
    BY NowIsNat DEF Onward, ViewInv, WatchInv, WatchTypes
  <2>2. \A i \in 0..now : i \in 0..now'
    BY <2>1
  <2> QED BY <2>2 DEF Lookups
<1> HIDE DEF shut, q
<1>6. EndedIsOver'
  <2> SUFFICES ASSUME NEW s \in Readers, NEW w \in ended'[s]
               PROVE  row'[w] # Nil /\ ~Watching(mem', w)
    BY DEF EndedIsOver
  <2>1. w \in ended[s] \/ w \in shut
    BY <1>1, <1>2
  <2>2. w \in ended[s] => w \in Ids /\ row[w] # Nil /\ ~Watching(mem, w)
    BY <1>2 DEF ViewInv, EndedIsOver
  <2> QED BY <1>3, <2>1, <2>2 DEF Onward
<1>7. q.op = "latest" => q.key \in Mine
  BY <1>2, RequestKinds
<1> DEFINE n == IF found = {} THEN 0 ELSE CHOOSE w \in Ids : \E e \in found : e.id = w
<1>8. q.op = "latest" => n = 0 \/ (n \in Ids /\ row'[n] # Nil /\ row'[n].key = q.key)
  <2> HAVE q.op = "latest"
  <2>1. CASE found = {}
    BY <2>1
  <2>2. CASE found # {}
    <3>1. \E w \in Ids : \E e \in found : e.id = w
      BY <2>2
    <3>2. n = CHOOSE w \in Ids : \E e \in found : e.id = w
      BY <2>2
    <3> HIDE DEF n
    <3>3. n \in Ids /\ \E e \in found : e.id = n
      BY <3>1, <3>2
    <3> QED BY <3>3 DEF q
  <2> QED BY <2>1, <2>2
<1>9. told' = IF q.op # "latest" THEN told ELSE [told EXCEPT ![r][q.key] = n]
  BY <1>1
<1> HIDE DEF n
<1>10. told' \in [Readers -> [Mine -> {0} \union Ids]]
  BY <1>2, <1>7, <1>8, <1>9
<1>11. ToldExists'
  <2> SUFFICES ASSUME NEW s \in Readers, NEW k \in Mine, told'[s][k] # 0
               PROVE  row'[told'[s][k]] # Nil /\ row'[told'[s][k]].key = k
    BY DEF ToldExists
  <2>1. CASE told'[s][k] = told[s][k]
    <3>1. told[s][k] \in Ids /\ row[told[s][k]] # Nil /\ row[told[s][k]].key = k
      BY <1>2, <2>1 DEF ViewInv, ToldExists
    <3> QED BY <1>4, <2>1, <3>1
  <2>2. CASE told'[s][k] # told[s][k]
    <3>1. q.op = "latest" /\ k = q.key /\ told'[s][k] = n
      BY <1>2, <1>7, <1>9, <2>2
    <3> QED BY <1>8, <3>1
  <2> QED BY <2>1, <2>2
<1>12. ClientTypes'
  <2>1. reader' \in [Readers -> Lookups(now') \union {Nil}]
    BY <1>1, <1>2, <1>5
  <2>2. ended' \in [Readers -> SUBSET Ids]
    BY <1>1, <1>2, <1>3
  <2> QED BY <1>10, <2>1, <2>2 DEF ClientTypes, Lookups
<1>13. ASSUME NEW s \in Readers
       PROVE  RowsNext(s)'
  <2>1. CASE s = r
    <3>1. reader'[r] = Nil
      BY <1>1, <1>2
    <3> QED BY <2>1, <3>1 DEF RowsNext, At
  <2>2. CASE s # r
    <3>1. reader'[s] = reader[s] /\ ended'[s] = ended[s]
      BY <1>1, <1>2, <2>2
    <3> QED BY <3>1, LookupWaits DEF ViewInv
  <2> QED BY <2>1, <2>2
<1> QED BY <1>6, <1>11, <1>12, <1>13 DEF ViewInv

\* Watches go on, no reader moves.
LEMMA WatchesGoOn ==
  ASSUME ViewInv, WatchInv', Onward, UNCHANGED views
  PROVE  ViewInv'
<1>1. reader' = reader /\ told' = told /\ ended' = ended
  BY DEF views
<1>2. now' \in Int /\ now \in Nat
  BY NowIsNat DEF ViewInv, WatchInv, WatchTypes
<1>3. ClientTypes'
  <2>1. \A i \in 0..now : i \in 0..now'
    BY <1>2 DEF Onward
  <2>2. \A n \in Lookups(now) : n \in Lookups(now')
    BY <2>1 DEF Lookups
  <2>3. reader' \in [Readers -> Lookups(now') \union {Nil}]
    BY <1>1, <2>2 DEF ViewInv, ClientTypes
  <2> QED BY <1>1, <2>3 DEF ViewInv, ClientTypes, Lookups
<1>4. ToldExists'
  <2> SUFFICES ASSUME NEW r \in Readers, NEW k \in Mine, told[r][k] # 0
               PROVE  row'[told[r][k]] # Nil /\ row'[told[r][k]].key = k
    BY <1>1 DEF ToldExists
  <2>1. told[r][k] \in Ids /\ row[told[r][k]] # Nil /\ row[told[r][k]].key = k
    BY DEF ViewInv, ClientTypes, ToldExists
  <2> QED BY <2>1 DEF Onward
<1>5. EndedIsOver'
  <2> SUFFICES ASSUME NEW r \in Readers, NEW w \in ended[r]
               PROVE  row'[w] # Nil /\ ~Watching(mem', w)
    BY <1>1 DEF EndedIsOver
  <2>1. w \in Ids /\ row[w] # Nil /\ ~Watching(mem, w)
    BY DEF ViewInv, ClientTypes, EndedIsOver
  <2> QED BY <2>1 DEF Onward
<1>6. ASSUME NEW r \in Readers
      PROVE  RowsNext(r)'
  BY <1>1, LookupWaits DEF ViewInv
<1> QED BY <1>3, <1>4, <1>5, <1>6 DEF ViewInv

\* A reader moves without returning.
LEMMA ReaderMoves ==
  ASSUME ViewInv, UNCHANGED <<registry, clocks>>, UNCHANGED <<told, ended>>,
         NEW r \in Readers, NEW n \in Lookups(now) \union {Nil},
         reader' = [reader EXCEPT ![r] = n], RowsNext(r)'
  PROVE  ViewInv'
<1>1. WatchInv' /\ Onward
  BY StandstillIsOnward DEF ViewInv
<1>2. mem' = mem /\ row' = row /\ now' = now
  BY DEF registry, clocks
<1>3. ClientTypes'
  BY <1>2 DEF ViewInv, ClientTypes, Lookups
<1>4. ToldExists' /\ EndedIsOver'
  BY <1>2, Zenon DEF ViewInv, ToldExists, EndedIsOver, Watching
<1>5. ASSUME NEW s \in Readers
      PROVE  RowsNext(s)'
  <2>1. CASE s = r
    BY <2>1
  <2>2. CASE s # r
    <3>1. reader'[s] = reader[s] /\ ended'[s] = ended[s]
      BY <2>2 DEF ViewInv, ClientTypes
    <3> QED BY <1>1, <3>1, LookupWaits DEF ViewInv
  <2> QED BY <2>1, <2>2
<1> QED BY <1>1, <1>3, <1>4, <1>5 DEF ViewInv

LEMMA AskKeeps ==
  ASSUME ViewInv, NEW r \in Readers, NEW q \in Requests, Ask(r, q)
  PROVE  ViewInv'
<1> DEFINE n == [request |-> q, pc |-> "memory", found |-> {}, began |-> now]
<1>1. reader' = [reader EXCEPT ![r] = n] /\ UNCHANGED <<registry, clocks, told, ended>>
  BY DEF Ask
<1>2. n \in Lookups(now) /\ n.pc = "memory"
  BY NowIsNat DEF ViewInv, WatchInv, Lookups
<1> HIDE DEF n
<1>3. reader'[r] = n
  BY <1>1 DEF ViewInv, ClientTypes
<1>4. RowsNext(r)'
  BY <1>2, <1>3 DEF RowsNext, At
<1> QED BY <1>1, <1>2, <1>4, ReaderMoves

LEMMA ReadRefusedKeeps ==
  ASSUME ViewInv, NEW r \in Readers, ReadRefused(r)
  PROVE  ViewInv'
<1>1. reader' = [reader EXCEPT ![r] = Nil] /\ UNCHANGED <<registry, clocks, told, ended>>
  BY DEF ReadRefused
<1>2. reader'[r] = Nil
  BY <1>1 DEF ViewInv, ClientTypes
<1>3. RowsNext(r)'
  BY <1>2 DEF RowsNext, At
<1> QED BY <1>1, <1>3, ReaderMoves

LEMMA ReadRowsKeeps ==
  ASSUME ViewInv, NEW r \in Readers, ReadRows(r)
  PROVE  ViewInv'
<1> DEFINE found == Merged(Request(r), reader[r].found)
<1>1. At(r, "rows") /\ Return(r, found) /\ UNCHANGED <<registry, clocks>>
  BY Zenon DEF ReadRows
<1>2. Showable(r, found)
  BY <1>1, RowsAreShowable
<1>3. WatchInv' /\ Onward
  BY <1>1, StandstillIsOnward DEF ViewInv
<1>4. mem' = mem /\ row' = row
  BY <1>1 DEF registry
<1>5. reader[r] # Nil
  BY <1>1 DEF At
<1> HIDE DEF found
<1>6. \A e \in found : /\ e.id \in Ids /\ row'[e.id] # Nil
                       /\ Live(e) \/ ~Watching(mem', e.id)
                       /\ Request(r).op = "latest" => row'[e.id].key = Request(r).key
  BY <1>2, <1>4 DEF Showable
<1> QED BY <1>1, <1>3, <1>5, <1>6, ReturnKeeps

LEMMA ReadMemoryKeeps ==
  ASSUME ViewInv, NEW r \in Readers, ReadMemory(r)
  PROVE  ViewInv'
<1> DEFINE q == Request(r)
           found == InMemory(q)
<1>1. At(r, "memory") /\ UNCHANGED <<registry, clocks>> /\ reader[r] # Nil
  BY Zenon DEF ReadMemory, At
<1>2. mem' = mem /\ row' = row /\ memAt' = memAt /\ changed' = changed
  BY <1>1 DEF registry, clocks
<1>3. WatchInv /\ q \in Requests /\ reader[r] \in Lookups(now) /\ now \in Nat
  BY <1>1, LookupType, NowIsNat DEF ViewInv, WatchInv
<1>4. CASE Known(q)
  <2>1. Return(r, found)
    BY <1>4, Zenon DEF ReadMemory
  <2>2. Showable(r, found)
    BY <1>1, <1>4, MemoryIsShowable
  <2>3. WatchInv' /\ Onward
    BY <1>1, StandstillIsOnward DEF ViewInv
  <2> HIDE DEF found
  <2>4. \A e \in found : /\ e.id \in Ids /\ row'[e.id] # Nil
                         /\ Live(e) \/ ~Watching(mem', e.id)
                         /\ Request(r).op = "latest" => row'[e.id].key = Request(r).key
    BY <1>2, <2>2 DEF Showable
  <2> QED BY <1>1, <2>1, <2>3, <2>4, ReturnKeeps
<1>5. CASE ~Known(q)
  <2> DEFINE n == [reader[r] EXCEPT !.pc = "rows", !.found = found]
  <2>1. reader' = [reader EXCEPT ![r].pc = "rows", ![r].found = found] /\ UNCHANGED <<told, ended>>
    BY <1>5, Zenon DEF ReadMemory
  <2>2. found \in SUBSET Snapshot
    <3>1. \A e \in found : e.id \in Ids /\ mem[e.id] # Nil /\ e = FromMemory(e.id)
      BY <1>3, RequestKinds, MemoryOfId, MemoryOfKey, MemoryOfList DEF Own
    <3>2. \A w \in Ids : mem[w] # Nil => FromMemory(w) \in Snapshot
      BY <1>3, MemorySnapshot
    <3> QED BY <3>1, <3>2
  <2> HIDE DEF found
  <2>3. /\ n \in Lookups(now) /\ n.request = q /\ n.pc = "rows" /\ n.found = found
        /\ n.began = reader[r].began
    BY <1>3, <2>2 DEF Lookups, Request
  <2>4. reader' = [reader EXCEPT ![r] = n]
    BY <2>1 DEF ViewInv, ClientTypes
  <2> HIDE DEF n
  <2>5. reader'[r] = n
    BY <2>4 DEF ViewInv, ClientTypes
  <2>6. Request(r)' = q /\ reader'[r].found = found /\ reader'[r].began = reader[r].began
        /\ ended'[r] = ended[r]
    BY <2>1, <2>3, <2>5 DEF Request
  <2> HIDE DEF q
  <2>7. IdRead(r)'
    <3>1. q.op = "id" => mem[q.id] = Nil
      BY <1>5 DEF Known
    <3> QED BY <1>2, <2>6, <3>1 DEF IdRead
  <2>8. KeyRead(r)'
    <3> SUFFICES ASSUME q.op \in {"latest", "cancel"}
                 PROVE  \A w \in Ids : mem[w] # Nil => mem[w].key # q.key
      BY <1>2, <2>6 DEF KeyRead
    <3>1. InMemory(q) = {}
      BY <1>5 DEF Known
    <3> QED BY <1>3, <3>1, MemoryOfKey
  <2>9. ASSUME q.op = "list"
        PROVE  ListRead(r)'
    <3>1. \A e \in found : e.id \in Ids /\ Own(e.id) /\ e = FromMemory(e.id) /\ (q.live => Live(e))
      BY <1>3, <2>9, MemoryOfList DEF found
    <3>2. \A w \in Ids : Own(w) /\ (q.live => Watching(mem, w)) => FromMemory(w) \in found
      BY <1>3, <2>9, MemoryOfList DEF found
    <3>3. OncePerWatch(found)
      BY <3>1 DEF OncePerWatch
    <3>4. ASSUME NEW e \in found
          PROVE  FoundStands(r, e)'
      <4> DEFINE w == e.id
      <4>1. w \in Ids /\ mem[w] # Nil /\ e = FromMemory(w)
        BY <3>1 DEF Own
      <4>2. /\ Live(e) <=> Watching(mem, w)
            /\ e.started = memAt[w].started /\ e.updated = memAt[w].updated
        BY <1>3, <4>1, MemorySnapshot
      <4>3. e.started <= e.updated
        BY <1>3, <4>1, <4>2 DEF WatchInv, DatedInOrder
      <4>4. w \in ended[r] => ~Watching(mem, w)
        BY DEF ViewInv, EndedIsOver
      <4>5. Own(w)'
        BY <1>2, <3>1 DEF Own
      <4>6. Watching(mem', w) <=> Watching(mem, w)
        BY <1>2
      <4>7. q.live => Live(e)
        BY <3>1
      <4>8. memAt'[w] = memAt[w]
        BY <1>2
      <4> QED BY <2>6, <4>2, <4>3, <4>4, <4>5, <4>6, <4>7, <4>8, Zenon DEF FoundStands
    <3>5. ASSUME NEW w \in Ids, Own(w)'
          PROVE  /\ w \in ended[r] /\ ~q.live => \E e \in found : e.id = w
                 /\ changed'[w] <= reader[r].began /\ (q.live => Watching(mem', w))
                      => FromMemory(w)' \in found
      <4>1. Own(w) /\ FromMemory(w)' = FromMemory(w) /\ (Watching(mem', w) <=> Watching(mem, w))
        BY <1>2, <3>5 DEF Own, FromMemory, Shown
      <4>2. FromMemory(w).id = w
        BY <1>3, <4>1, MemorySnapshot DEF Own
      <4> QED BY <3>2, <4>1, <4>2
    <3> QED BY <2>6, <3>3, <3>4, <3>5, Zenon DEF ListRead
  <2>10. ListRead(r)'
    BY <2>6, <2>9 DEF ListRead
  <2>11. RowsNext(r)'
    BY <2>7, <2>8, <2>10 DEF RowsNext
  <2> QED BY <1>1, <2>1, <2>3, <2>4, <2>11, ReaderMoves
<1> QED BY <1>4, <1>5

LEMMA CancelLiveKeeps ==
  ASSUME ViewInv, NEW r \in Readers, CancelLive(r)
  PROVE  ViewInv'
<1> DEFINE q == Request(r)
           Shows(e) == [e EXCEPT !.status = mem'[e.id].status, !.updated = now]
<1>1. At(r, "memory") /\ q.op = "cancel" /\ reader[r] # Nil
  BY Zenon DEF CancelLive, At
<1>2. WatchInv /\ q \in Requests /\ now \in Nat
  BY <1>1, LookupType, NowIsNat DEF ViewInv, WatchInv
<1>3. PICK e \in InMemory(q) :
        /\ \/ End(e.id, "CANCELLED") /\ StampBoth(e.id, now)
           \/ (Lose(e.id) /\ mem'[e.id].status = "FAILED" /\ Stamp(e.id, now) /\ UNCHANGED rowAt)
        /\ Happens(e.id)
        /\ Return(r, {Shows(e)})
  BY Zenon DEF CancelLive
<1>4. e.id \in Ids /\ mem[e.id] # Nil /\ e = FromMemory(e.id)
  BY <1>1, <1>2, MemoryOfKey
<1> DEFINE w == e.id
<1>5. e \in Snapshot
  BY <1>2, <1>4, MemorySnapshot
<1>6. Watching(mem, w) /\ Stamp(w, now)
  BY <1>3 DEF End, Lose, StampBoth
<1>7. now \in memAt[w].started..now
  <2>1. memAt[w] \in Stamps /\ memAt[w].started <= memAt[w].updated /\ memAt[w].updated <= now
    BY <1>2, <1>4, WatchRecords DEF WatchInv, DatedInOrder
  <2> QED BY <1>2, <2>1 DEF Stamps
<1>8. \E s \in EndStatus : mem' = Marked(mem, {w}, s) /\ row' \in {row, Marked(row, {w}, s)}
  BY <1>3, ViewParameters DEF End, Lose
<1>9. rowAt' \in {rowAt, [rowAt EXCEPT ![w] = Seconds(memAt'[w])]}
  BY <1>3 DEF StampBoth
<1>10. Happens(w)
  BY <1>3
<1> HIDE DEF w
<1>11. w \in Ids
  BY <1>4 DEF w
<1>12. Moved(w)
  BY <1>2, <1>6, <1>7, <1>8, <1>9, <1>10, <1>11, WritesMove DEF WatchInv
<1>13. WatchInv' /\ Onward
  BY <1>2, <1>11, <1>12, MovedKeeps, MovedIsOnward
<1>14. row'[w] # Nil /\ ~Watching(mem', w)
  <2>1. row'[w] # Nil
    BY <1>2, <1>11, <1>12, MovedEffect DEF WatchInv
  <2>2. PICK s \in EndStatus : mem' = Marked(mem, {w}, s)
    BY <1>8
  <2>3. mem'[w] = [mem[w] EXCEPT !.status = s]
    BY <1>11, <2>2 DEF Marked
  <2>4. mem[w] \in Entry
    BY <1>2, <1>11, <1>6, WatchRecords DEF WatchInv, Watching
  <2>5. mem'[w].status = s
    BY <2>3, <2>4 DEF Entry
  <2> QED BY <2>1, <2>5, ViewParameters DEF Watching
<1>15. Shows(e).id = w
  BY <1>5 DEF w, Snapshot
<1> HIDE DEF Shows
<1>16. \A x \in {Shows(e)} : /\ x.id \in Ids /\ row'[x.id] # Nil
                             /\ Live(x) \/ ~Watching(mem', x.id)
                             /\ Request(r).op = "latest" => row'[x.id].key = Request(r).key
  BY <1>1, <1>11, <1>14, <1>15
<1>17. Return(r, {Shows(e)})
  BY <1>3
<1> QED BY <1>1, <1>13, <1>16, <1>17, ReturnKeeps

LEMMA RestartKeepsViews ==
  ASSUME ViewInv, Restart
  PROVE  ViewInv'
<1>1. /\ WatchInv'
      /\ \A w \in Ids : /\ mem'[w] = Nil
                        /\ row[w] # Nil => row'[w] # Nil /\ row'[w].key = row[w].key
  BY RestartKeeps DEF ViewInv
<1>2. reader' = [r \in Readers |-> Nil] /\ told' = told /\ ended' = ended
  BY DEF Restart
<1>3. ClientTypes'
  BY <1>2 DEF ViewInv, ClientTypes
<1>4. ToldExists'
  <2> SUFFICES ASSUME NEW r \in Readers, NEW k \in Mine, told[r][k] # 0
               PROVE  row'[told[r][k]] # Nil /\ row'[told[r][k]].key = k
    BY <1>2 DEF ToldExists
  <2>1. told[r][k] \in Ids /\ row[told[r][k]] # Nil /\ row[told[r][k]].key = k
    BY DEF ViewInv, ClientTypes, ToldExists
  <2> QED BY <1>1, <2>1
<1>5. EndedIsOver'
  <2> SUFFICES ASSUME NEW r \in Readers, NEW w \in ended[r]
               PROVE  row'[w] # Nil /\ ~Watching(mem', w)
    BY <1>2 DEF EndedIsOver
  <2>1. w \in Ids /\ row[w] # Nil
    BY DEF ViewInv, ClientTypes, EndedIsOver
  <2> QED BY <1>1, <2>1 DEF Watching
<1>6. \A r \in Readers : RowsNext(r)'
  BY <1>2 DEF RowsNext, At
<1> QED BY <1>1, <1>3, <1>4, <1>5, <1>6 DEF ViewInv

LEMMA ViewInitially == ViewInit => ViewInv
<1> SUFFICES ASSUME ViewInit PROVE ViewInv
  OBVIOUS
<1>1. /\ mem = [w \in Ids |-> Nil] /\ row = [w \in Ids |-> Nil]
      /\ memAt = [w \in Ids |-> Nil] /\ rowAt = [w \in Ids |-> Nil]
      /\ changed = [w \in Ids |-> 0] /\ origin \in Origins /\ now = origin
      /\ reader = [r \in Readers |-> Nil]
      /\ told = [r \in Readers |-> [k \in Mine |-> 0]]
      /\ ended = [r \in Readers |-> {}]
  BY DEF ViewInit, RegistryInit
<1>2. origin \in Nat /\ MaxTicks \in Nat
  BY <1>1, ViewParameters
<1>3. WatchTypes
  BY <1>1, <1>2 DEF WatchTypes, RegistryTypeOK
<1>4. \A w \in Ids : mem[w] = Nil /\ row[w] = Nil
  BY <1>1
<1>5. CopiesAgree /\ IdsInOrder /\ DatedInOrder /\ OneAfterAnother /\ MemoryIsNewer
  BY <1>4 DEF CopiesAgree, IdsInOrder, DatedInOrder, OneAfterAnother, MemoryIsNewer, Watching
<1>6. ClientTypes
  BY <1>1 DEF ClientTypes
<1>7. ToldExists /\ EndedIsOver /\ \A r \in Readers : RowsNext(r)
  BY <1>1 DEF ToldExists, EndedIsOver, RowsNext, At
<1> QED BY <1>3, <1>5, <1>6, <1>7 DEF ViewInv, WatchInv

LEMMA ViewStep == ViewInv /\ [ViewNext]_viewVars => ViewInv'
<1> SUFFICES ASSUME ViewInv, [ViewNext]_viewVars PROVE ViewInv'
  OBVIOUS
<1>1. WatchInv
  BY DEF ViewInv
<1>2. ASSUME NEW k \in Keys, Start(k) PROVE ViewInv'
  <2>1. UNCHANGED views
    BY <1>2, StartBegins
  <2>2. PICK w \in Ids : Begun(w, k)
    BY <1>2, StartBegins
  <2>3. WatchInv' /\ Onward
    BY <1>1, <2>2, BegunKeeps, BegunIsOnward
  <2> QED BY <2>1, <2>3, WatchesGoOn
<1>3. ASSUME NEW w \in Ids, Moved(w), UNCHANGED views PROVE ViewInv'
  <2>1. WatchInv' /\ Onward
    BY <1>1, <1>3, MovedKeeps, MovedIsOnward
  <2> QED BY <1>3, <2>1, WatchesGoOn
<1>4. ASSUME NEW w \in Ids, Watching(mem, w)
      PROVE  now \in memAt[w].started..now
  <2>1. memAt[w] \in Stamps /\ memAt[w].started <= memAt[w].updated /\ memAt[w].updated <= now
    BY <1>1, <1>4, WatchRecords DEF WatchInv, DatedInOrder, Watching
  <2>2. now \in Nat
    BY <1>1, NowIsNat DEF WatchInv
  <2> QED BY <2>1, <2>2 DEF Stamps
<1>5. ASSUME NEW w \in Ids, Refresh(w) PROVE ViewInv'
  <2>1. Watching(mem, w) /\ Happens(w) /\ mem' = mem /\ row' = row /\ UNCHANGED views
    BY <1>5 DEF Refresh, registry
  <2>2. \E t \in memAt[w].started..now :
          Stamp(w, t) /\ rowAt' \in {rowAt, [rowAt EXCEPT ![w] = Seconds(memAt'[w])]}
    BY <1>4, <1>5, <2>1 DEF Refresh, StampBoth
  <2>3. Moved(w)
    BY <1>1, <2>1, <2>2, WritesMove DEF WatchInv
  <2> QED BY <1>3, <2>1, <2>3
<1>6. ASSUME NEW w \in Ids, NEW s \in EndStatus, Finish(w, s) PROVE ViewInv'
  <2>1. /\ Watching(mem, w) /\ Happens(w) /\ UNCHANGED views
        /\ mem' = Marked(mem, {w}, s) /\ row' = Marked(row, {w}, s)
    BY <1>6 DEF Finish, End
  <2>2. \E t \in memAt[w].started..now :
          Stamp(w, t) /\ rowAt' \in {rowAt, [rowAt EXCEPT ![w] = Seconds(memAt'[w])]}
    BY <1>6 DEF Finish, StampBoth
  <2>3. Moved(w)
    BY <1>1, <2>1, <2>2, WritesMove DEF WatchInv
  <2> QED BY <1>3, <2>1, <2>3
<1>7. ASSUME NEW w \in Ids, FinishRefused(w) PROVE ViewInv'
  <2>1. /\ Watching(mem, w) /\ Happens(w) /\ UNCHANGED views /\ row' = row /\ rowAt' = rowAt
        /\ \E s \in EndStatus : mem' = Marked(mem, {w}, s)
    BY <1>7, ViewParameters DEF FinishRefused, Lose
  <2>2. \E t \in memAt[w].started..now : Stamp(w, t)
    BY <1>7 DEF FinishRefused
  <2>3. Moved(w)
    BY <1>1, <2>1, <2>2, WritesMove DEF WatchInv
  <2> QED BY <1>3, <2>1, <2>3
<1>8. ASSUME Restart PROVE ViewInv'
  BY <1>8, RestartKeepsViews
<1>9. ASSUME NEW r \in Readers, Lookup(r) PROVE ViewInv'
  BY <1>9, AskKeeps, CancelLiveKeeps, ReadMemoryKeeps, ReadRowsKeeps, ReadRefusedKeeps DEF Lookup
<1>10. ASSUME UNCHANGED viewVars PROVE ViewInv'
  <2>1. UNCHANGED <<registry, clocks>> /\ UNCHANGED views
    BY <1>10 DEF viewVars, registry, clocks, views
  <2>2. WatchInv' /\ Onward
    BY <1>1, <2>1, StandstillIsOnward
  <2> QED BY <2>1, <2>2, WatchesGoOn
<1> QED BY <1>2, <1>5, <1>6, <1>7, <1>8, <1>9, <1>10, Zenon DEF ViewNext

\* The inductive invariant of the lookups of manager.go and db.go holds in every
\* reachable state: watches, rows and stamps are in order, and what a lookup read
\* from memory bounds what it will read from the rows.
THEOREM ViewInvariance == ViewSpec => []ViewInv
BY ViewInitially, ViewStep, PTL DEF ViewSpec

(***************************************************************************)
(* The theorems.                                                           *)
(***************************************************************************)

\* Type correctness of the registry, its stamps, the lookups and what the clients
\* remember (the records of src/internal/store/db.go and of the manager).
THEOREM ViewTypeCorrect == ViewSpec => []ViewTypeOK
<1>1. ViewInv => ViewTypeOK
  <2> SUFFICES ASSUME ViewInv PROVE ViewTypeOK
    OBVIOUS
  <2>1. WatchTypes /\ ClientTypes
    BY DEF ViewInv, WatchInv
  <2>2. ASSUME NEW r \in Readers, reader[r] # Nil
        PROVE  /\ reader[r].request \in Requests /\ reader[r].pc \in {"memory", "rows"}
               /\ reader[r].began \in 0..now /\ \A e \in reader[r].found : e \in Snapshot
    BY <2>1, <2>2 DEF ClientTypes, Lookups
  <2> QED BY <2>1, <2>2, Zenon DEF ViewTypeOK, WatchTypes, ClientTypes
<1> QED BY <1>1, ViewInvariance, PTL

\* GetLatest: whoever was told of a watch of a key is told of it or of a newer one
\* when it asks again, for any number of watches, ends, refused writes and
\* restarts, and although memory and rows keep time differently.
THEOREM LatestGoesForward == ViewSpec => []LatestNeverGoesBack
<1>1. ViewInv => LatestNeverGoesBack
  <2> SUFFICES ASSUME ViewInv, NEW r \in Readers, Answering(r), Request(r).op = "latest",
                      told[r][Request(r).key] # 0
               PROVE  \E e \in Answer(r) : e.id >= told[r][Request(r).key]
    BY DEF LatestNeverGoesBack
  <2> DEFINE q == Request(r)
             last == told[r][q.key]
  <2>1. WatchInv /\ q \in Requests /\ reader[r] # Nil /\ q.op = "latest" /\ q.key \in Mine
    <3>1. reader[r] # Nil
      BY DEF Answering, At
    <3>2. q \in Requests
      BY <3>1, LookupType DEF ViewInv
    <3> QED BY <3>1, <3>2, RequestKinds DEF ViewInv
  <2>2. last \in Ids /\ row[last] # Nil /\ row[last].key = q.key
    BY <2>1 DEF ViewInv, ClientTypes, ToldExists
  <2> HIDE DEF q, last
  <2>3. CASE At(r, "rows")
    <3>1. Answer(r) = InRows(q)
      BY <2>1, <2>3, Zenon DEF Answer, Merged, q
    <3> QED BY <2>1, <2>2, <3>1, RowOfKey DEF q, last
  <2>4. CASE ~At(r, "rows")
    <3>1. Answer(r) = InMemory(q) /\ Known(q)
      BY <2>4, Zenon DEF Answer, Answering, q
    <3>2. InMemory(q) # {}
      BY <2>1, <3>1 DEF Known
    <3>3. PICK e \in InMemory(q) : TRUE
      BY <3>2
    <3>4. /\ e.id \in Ids /\ mem[e.id] # Nil /\ mem[e.id].key = q.key
          /\ \A u \in Ids : mem[u] # Nil /\ mem[u].key = q.key => u <= e.id
      BY <2>1, MemoryOfKey
    <3>5. e.id \in Nat /\ last \in Nat
      BY <2>2, <3>4, IdsAreNumbers
    <3>6. e.id < last => mem[last] # Nil /\ mem[last].key = q.key
      BY <2>1, <2>2, <3>4 DEF WatchInv, IdsInOrder, CopiesAgree
    <3>7. e.id >= last
      BY <2>2, <3>4, <3>5, <3>6
    <3> QED BY <3>1, <3>7 DEF q, last
  <2> QED BY <2>3, <2>4
<1> QED BY <1>1, ViewInvariance, PTL

\* The clients see an end for good, though lookups read memory and rows at
\* different moments: a watch shown as ended is not shown as live again, but where
\* a list of live watches finds a row whose end the database refused.
THEOREM EndIsForGood == ViewSpec => []EndIsShownForGood
<1>1. ViewInv => EndIsShownForGood
  <2> SUFFICES ASSUME ViewInv, NEW r \in Readers, Answering(r), Request(r).op # "cancel",
                      NEW e \in Answer(r), e.id \in ended[r], NextAction(e) = "POLL_AFTER"
               PROVE  Unrecorded(e.id) /\ Request(r).op = "list" /\ Request(r).live
    BY DEF EndIsShownForGood
  <2> DEFINE q == Request(r)
             w == e.id
             found == reader[r].found
  <2>1. WatchInv /\ q \in Requests /\ reader[r] # Nil /\ found \in SUBSET Snapshot /\ q.op # "cancel"
    BY LookupType DEF ViewInv, Answering, At
  <2>2. Live(e) /\ w \in Ids /\ row[w] # Nil /\ ~Watching(mem, w) /\ w \in ended[r]
    BY LiveIsPolled DEF ViewInv, ClientTypes, EndedIsOver
  <2>3. Watching(row, w) => mem[w] # Nil /\ row[w].key = mem[w].key /\ Unrecorded(w)
    BY <2>1, <2>2 DEF WatchInv, CopiesAgree, Unrecorded
  <2>4. e = FromRow(w) => Watching(row, w)
    BY <2>1, <2>2, RowSnapshot
  <2>5. e # FromMemory(w) \/ mem[w] = Nil
    BY <2>1, <2>2, MemorySnapshot
  <2> HIDE DEF q, w, found
  <2>6. CASE At(r, "rows")
    <3>1. IdRead(r) /\ KeyRead(r) /\ ListRead(r) /\ Answer(r) = Merged(q, found)
      BY <2>6, Zenon DEF ViewInv, RowsNext, Answer, q, found
    <3>2. CASE q.op = "id"
      <4>1. e \in InRows(q)
        BY <3>1, <3>2, Zenon DEF Merged
      <4>2. e = FromRow(w) /\ w = q.id
        BY <2>1, <3>2, <4>1, RowOfId DEF w
      <4> QED BY <2>2, <2>3, <2>4, <3>1, <3>2, <4>2 DEF IdRead, q
    <3>3. CASE q.op = "latest"
      <4>1. e \in InRows(q)
        BY <3>1, <3>3, Zenon DEF Merged
      <4>2. e = FromRow(w) /\ row[w].key = q.key
        BY <2>1, <3>3, <4>1, RowOfKey DEF w
      <4> QED BY <2>2, <2>3, <2>4, <3>1, <3>3, <4>2 DEF KeyRead, q
    <3>4. CASE q.op = "list"
      <4> DEFINE rest == {g \in InRows(q) : \A f \in found : f.id # g.id}
      <4>1. Answer(r) = First(found \union rest, q.limit)
        BY <3>1, <3>4, MergedList
      <4>2. e \in found \union rest
        <5> HIDE DEF rest
        <5> QED BY <4>1, Zenon DEF First
      <4>3. e \notin found
        BY <2>2, <3>1, <3>4 DEF ListRead, FoundStands, q, found, w
      <4>4. e \in InRows(q) /\ \A f \in found : f.id # w
        BY <4>2, <4>3 DEF w
      <4>5. e \in ListedRows(q)
        <5>1. InRows(q) = First(ListedRows(q), q.limit)
          BY <2>1, <3>4, RowsOfList
        <5> QED BY <4>4, <5>1, Zenon DEF First
      <4>6. e = FromRow(w) /\ LoginOf(row[w].key) = Login
        BY <2>1, <3>4, <4>5, RowsOfList DEF w
      <4>7. Unrecorded(w) /\ Own(w)
        BY <2>3, <2>4, <4>6 DEF Own
      <4>8. q.live
        BY <2>2, <3>1, <3>4, <4>4, <4>7, Zenon DEF ListRead, q, found
      <4> QED BY <3>4, <4>7, <4>8 DEF q, w
    <3> QED BY <2>1, <3>2, <3>3, <3>4, RequestKinds
  <2>7. CASE ~At(r, "rows")
    <3>1. Answer(r) = InMemory(q) /\ Known(q)
      BY <2>7, Zenon DEF Answer, Answering, q
    <3>2. q.op \in {"id", "latest"}
      BY <2>1, <3>1, RequestKinds DEF Known
    <3>3. mem[w] # Nil /\ e = FromMemory(w)
      BY <2>1, <3>1, <3>2, MemoryOfId, MemoryOfKey DEF w
    <3> QED BY <2>5, <3>3
  <2> QED BY <2>6, <2>7
<1> QED BY <1>1, ViewInvariance, PTL

\* CancelLatest: a cancel that found nothing to end in memory and reads a live row
\* shows a watch that started after the cancel was asked for.
THEOREM CancelIsThorough == ViewSpec => []CancelOverlooksNothing
<1>1. ViewInv => CancelOverlooksNothing
  <2> SUFFICES ASSUME ViewInv, NEW r \in Readers, At(r, "rows"), Request(r).op = "cancel",
                      NEW e \in Answer(r), Live(e)
               PROVE  mem[e.id] # Nil /\ memAt[e.id].started >= reader[r].began
    BY DEF CancelOverlooksNothing
  <2> DEFINE q == Request(r)
  <2>1. WatchInv /\ q \in Requests /\ KeyRead(r)
    BY LookupType DEF ViewInv, At, RowsNext
  <2>2. e \in InRows(q)
    BY Zenon DEF Answer, Merged
  <2>3. e.id \in Ids /\ row[e.id] # Nil /\ row[e.id].key = q.key /\ e = FromRow(e.id)
    BY <2>1, <2>2, RowOfKey
  <2>4. Watching(row, e.id)
    BY <2>1, <2>3, RowSnapshot
  <2>5. mem[e.id] # Nil /\ mem[e.id].key = q.key
    BY <2>1, <2>3, <2>4 DEF WatchInv, CopiesAgree
  <2> QED BY <2>1, <2>3, <2>5 DEF KeyRead
<1> QED BY <1>1, ViewInvariance, PTL

\* What a list that reads the rows chooses from.
LEMMA ListChoosesFrom ==
  ASSUME ViewInv, NEW r \in Readers, At(r, "rows"), Request(r).op = "list",
         NEW U, U = reader[r].found \union
                      {g \in InRows(Request(r)) : \A f \in reader[r].found : f.id # g.id}
  PROVE  /\ U \in SUBSET Snapshot /\ OncePerWatch(U)
         /\ Answer(r) = First(U, Request(r).limit)
         /\ InRows(Request(r)) = First(ListedRows(Request(r)), Request(r).limit)
         /\ Request(r).limit \in Nat
         /\ ListedRows(Request(r)) \in SUBSET Snapshot /\ OncePerWatch(ListedRows(Request(r)))
<1> DEFINE q == Request(r)
           found == reader[r].found
           L == ListedRows(q)
<1>1. WatchInv /\ q \in Requests /\ ListRead(r) /\ found \in SUBSET Snapshot
  BY LookupType DEF ViewInv, At, RowsNext
<1>2. q.limit \in Nat
  BY <1>1, RequestKinds
<1>3. InRows(q) = First(L, q.limit)
  BY <1>1, RowsOfList
<1>4. InRows(q) \subseteq L
  BY <1>3, Zenon DEF First
<1>5. \A e \in L : e.id \in Ids /\ row[e.id] # Nil /\ e = FromRow(e.id)
  BY <1>1, RowsOfList
<1>6. L \in SUBSET Snapshot /\ OncePerWatch(L)
  <2>1. \A w \in Ids : row[w] # Nil => FromRow(w) \in Snapshot
    BY <1>1, RowSnapshot
  <2> HIDE DEF L
  <2> QED BY <1>5, <2>1 DEF OncePerWatch
<1>7. OncePerWatch(found)
  BY <1>1 DEF ListRead
<1>8. Answer(r) = First(U, q.limit)
  BY MergedList, Zenon DEF Answer
<1>9. U \in SUBSET Snapshot
  BY <1>1, <1>4, <1>6
<1>10. OncePerWatch(U)
  <2> SUFFICES ASSUME NEW e \in U, NEW f \in U, e.id = f.id
               PROVE  e = f
    BY DEF OncePerWatch
  <2> HIDE DEF L, found, q
  <2>1. U = found \union {g \in InRows(q) : \A x \in found : x.id # g.id}
    BY DEF found, q
  <2> QED BY <1>4, <1>6, <1>7, <2>1 DEF OncePerWatch
<1> QED BY <1>2, <1>3, <1>6, <1>8, <1>9, <1>10

\* A row that memory does not have comes after everything memory had.
LEMMA MemoryComesFirst ==
  ASSUME ViewInv, NEW r \in Readers, At(r, "rows"), Request(r).op = "list",
         NEW f \in reader[r].found, NEW w \in Ids, row[w] # Nil, mem[w] = Nil
  PROVE  Before(f, FromRow(w))
<1> DEFINE e == FromRow(w)
           v == f.id
<1>1. WatchInv /\ ListRead(r) /\ f \in Snapshot
  BY LookupType DEF ViewInv, At, RowsNext
<1>2. FoundStands(r, f) /\ v \in Ids
  BY <1>1 DEF ListRead, Snapshot
<1>3. mem[v] # Nil /\ f.started = memAt[v].started /\ f.started <= f.updated
  BY <1>2 DEF FoundStands, Own
<1>4. e \in Snapshot /\ e.id = w /\ e.started = rowAt[w].started /\ e.updated = rowAt[w].updated
      /\ (Live(e) <=> Watching(row, w))
  BY <1>1, RowSnapshot
<1>5. ~Live(e)
  BY <1>1, <1>4 DEF WatchInv, CopiesAgree
<1>6. e.updated <= f.started /\ e.started <= e.updated
  BY <1>1, <1>2, <1>3, <1>4 DEF WatchInv, MemoryIsNewer, DatedInOrder
<1>7. w < v
  <2>1. row[v] # Nil /\ v \in Nat /\ w \in Nat
    BY <1>1, <1>2, <1>3, IdsAreNumbers DEF WatchInv, CopiesAgree
  <2>2. v < w => mem[w] # Nil
    BY <1>1, <1>2, <1>3 DEF WatchInv, IdsInOrder
  <2>3. v # w
    BY <1>3
  <2> QED BY <2>1, <2>2, <2>3
<1>8. /\ e.id \in Nat /\ e.started \in Nat /\ e.updated \in Nat
      /\ f.id \in Nat /\ f.started \in Nat /\ f.updated \in Nat
  BY <1>1, <1>4, SnapshotNumbers
<1> HIDE DEF e
<1>9. Newer(f, e)
  BY <1>3, <1>4, <1>6, <1>7, <1>8 DEF Newer
<1>10. Before(f, e)
  BY <1>1, <1>4, <1>5, <1>9, BeforeMeans, Zenon
<1> QED BY <1>10 DEF e

\* ListWatches: the limit is applied to the rows, and again to the rows merged with
\* what memory had a moment before; still, of the watches that did not change
\* meanwhile, it hides only those that come after all it shows, and only when the
\* list is full.
THEOREM LimitIsFair == ViewSpec => []LimitHidesTheLast
<1>1. ViewInv => LimitHidesTheLast
  <2> SUFFICES ASSUME ViewInv, NEW r \in Readers, At(r, "rows"), Request(r).op = "list",
                      NEW e \in Wanted(Request(r), OwnOnly({Truth(w) : w \in Still(r)})),
                      \A f \in Answer(r) : f.id # e.id
               PROVE  /\ Cardinality(Answer(r)) = Request(r).limit
                      /\ \A f \in Answer(r) : Before(f, e)
    BY Zenon DEF LimitHidesTheLast
  <2> DEFINE q == Request(r)
             found == reader[r].found
             rest == {g \in InRows(q) : \A f \in found : f.id # g.id}
             U == found \union rest
             L == ListedRows(q)
             n == q.limit
             w == e.id
  <2>1. WatchInv /\ q \in Requests /\ ListRead(r) /\ found \in SUBSET Snapshot
    BY LookupType DEF ViewInv, At, RowsNext
  <2>2. /\ U \in SUBSET Snapshot /\ OncePerWatch(U) /\ Answer(r) = First(U, n)
        /\ InRows(q) = First(L, n) /\ n \in Nat /\ L \in SUBSET Snapshot /\ OncePerWatch(L)
    BY ListChoosesFrom
  <2>3. /\ w \in Ids /\ row[w] # Nil /\ changed[w] <= reader[r].began /\ e = Truth(w)
        /\ LoginOf(row[w].key) = Login /\ (q.live => Live(e))
    <3> DEFINE S == {Truth(u) : u \in Still(r)}
    <3>1. e \in OwnOnly(S) /\ (q.live => Live(e))
      BY Zenon DEF Wanted
    <3>2. e \in S /\ LoginOf(row[e.id].key) = Login
      BY <3>1, Zenon DEF OwnOnly
    <3>3. PICK u \in Ids : row[u] # Nil /\ changed[u] <= reader[r].began /\ e = Truth(u)
      BY <3>2 DEF Still
    <3>4. e.id = u
      BY <2>1, <3>3, MemorySnapshot, RowSnapshot DEF Truth
    <3> QED BY <3>1, <3>2, <3>3, <3>4
  <2>4. e \in Snapshot
    BY <2>1, <2>3, MemorySnapshot, RowSnapshot DEF Truth
  <2>5. IsFiniteSet(U) /\ IsFiniteSet(L)
    BY <2>2, SnapshotsAreFinite
  <2> DEFINE Ahead == {f \in U : Before(f, e)}
  <2>6. IsFiniteSet(Ahead) /\ Cardinality(Ahead) \in Nat
    BY <2>5, FS_Subset, FS_CardinalityType
  <2>7. e \in U => Cardinality(Ahead) >= n
    <3> HAVE e \in U
    <3>1. e \notin First(U, n)
      BY <2>2
    <3>2. ~(Cardinality(Ahead) < n)
      <4> HIDE DEF U
      <4> QED BY <3>1, Zenon DEF First
    <3> HIDE DEF Ahead
    <3> QED BY <2>2, <2>6, <3>2
  <2>8. CASE mem[w] # Nil
    <3>1. e = FromMemory(w) /\ (Live(e) <=> Watching(mem, w))
      BY <2>1, <2>3, <2>8, MemorySnapshot DEF Truth
    <3>2. e \in found
      BY <2>1, <2>3, <2>8, <3>1 DEF ListRead, Own
    <3>3. \A f \in U : f.id = e.id => f = e
      BY <2>2, <3>2 DEF OncePerWatch
    <3>4. Cardinality(Ahead) >= n
      BY <2>7, <3>2
    <3> HIDE DEF U, n
    <3> QED BY <2>2, <2>4, <3>3, <3>4, FirstCut DEF n
  <2>9. CASE mem[w] = Nil
    <3>1. e = FromRow(w) /\ (Live(e) <=> Watching(row, w))
      BY <2>1, <2>3, <2>9, RowSnapshot DEF Truth
    <3>2. \A f \in found : f.id # w
      BY <2>1, <2>9 DEF ListRead, FoundStands, Own
    <3>3. \A f \in InRows(q) : f \in L
      BY <2>2, Zenon DEF First
    <3>4. \A f \in L : f.id \in Ids /\ row[f.id] # Nil /\ f = FromRow(f.id)
      BY <2>1, RowsOfList
    <3>5. e \in L
      BY <2>1, <2>3, <3>1, RowsOfList
    <3>6. \A f \in U : f.id = e.id => f = e
      BY <3>1, <3>2, <3>3, <3>4
    <3>7. CASE e \in InRows(q)
      <4>1. e \in U
        BY <3>2, <3>7
      <4>2. Cardinality(Ahead) >= n
        BY <2>7, <4>1
      <4> HIDE DEF U, n
      <4> QED BY <2>2, <2>4, <3>6, <4>2, FirstCut DEF n
    <3>8. CASE e \notin InRows(q)
      <4> DEFINE AheadRows == {f \in L : Before(f, e)}
      <4>1. IsFiniteSet(AheadRows) /\ Cardinality(AheadRows) \in Nat
        BY <2>5, FS_Subset, FS_CardinalityType
      <4>2. Cardinality(AheadRows) >= n
        <5>1. ~(Cardinality(AheadRows) < n)
          <6> HIDE DEF L
          <6> QED BY <2>2, <3>5, <3>8, Zenon DEF First
        <5> HIDE DEF AheadRows
        <5> QED BY <2>2, <4>1, <5>1
      <4>3. Cardinality(InRows(q)) = n /\ \A g \in InRows(q) : Before(g, e)
        <5>1. \A f \in L : f.id = e.id => f = e
          BY <2>2, <3>5 DEF OncePerWatch
        <5> HIDE DEF L, n
        <5> QED BY <2>2, <2>4, <4>2, <5>1, FirstCut DEF n
      \* Each of the rows shown is in the list, or memory's view of its watch is.
      <4>4. ASSUME NEW g \in InRows(q)
            PROVE  \E f \in Ahead : f.id = g.id
        <5>1. CASE \E f \in found : f.id = g.id
          <6>1. PICK f \in found : f.id = g.id
            BY <5>1
          <6>2. Before(f, e)
            BY <2>3, <2>9, <3>1, MemoryComesFirst
          <6> QED BY <6>1, <6>2
        <5>2. CASE ~\E f \in found : f.id = g.id
          <6>1. g \in U
            BY <5>2
          <6>2. Before(g, e)
            BY <4>3
          <6> QED BY <6>1, <6>2
        <5> QED BY <5>1, <5>2
      <4> HIDE DEF Ahead, L, U
      <4> DEFINE h == [f \in Ahead |-> FromRow(f.id)]
                 T == {h[f] : f \in Ahead}
      <4>5. h \in Surjection(Ahead, T)
        BY DEF Surjection
      <4>6. IsFiniteSet(T) /\ Cardinality(T) <= Cardinality(Ahead)
        <5> HIDE DEF h, T
        <5> QED BY <2>6, <4>5, FS_Surjection
      <4>7. InRows(q) \subseteq T
        <5> SUFFICES ASSUME NEW g \in InRows(q) PROVE g \in T
          OBVIOUS
        <5>1. PICK f \in Ahead : f.id = g.id
          BY <4>4
        <5>2. g = FromRow(g.id)
          BY <3>3, <3>4
        <5>3. h[f] = g
          BY <5>1, <5>2
        <5> QED BY <5>3
      <4> HIDE DEF T, h
      <4>8. Cardinality(InRows(q)) <= Cardinality(T) /\ Cardinality(T) \in Nat
        BY <4>6, <4>7, FS_Subset, FS_CardinalityType
      <4>9. Cardinality(Ahead) >= n
        BY <2>2, <2>6, <4>3, <4>6, <4>8
      <4>10. Cardinality({f \in U : Before(f, e)}) >= n
        BY <4>9 DEF Ahead
      <4> HIDE DEF n
      <4> QED BY <2>2, <2>4, <3>6, <4>10, FirstCut DEF n
    <3> QED BY <3>7, <3>8
  <2> QED BY <2>8, <2>9
<1> QED BY <1>1, ViewInvariance, PTL

====
