-------------------------- MODULE ReviewRequestProofs --------------------------
(***************************************************************************)
(* Theorems about ReviewRequest, for any number of callers, reviews, rows  *)
(* and seconds.                                                            *)
(***************************************************************************)
EXTENDS ReviewRequest, FiniteSetTheorems, WellFoundedInduction, TLAPS

(***************************************************************************)
(* Greatest elements of finite sets.                                       *)
(***************************************************************************)

\* A nonempty set T of positions has one that comes after all others in an order
\* given by Beats, a relation of positions that is transitive and irreflexive and
\* that tells any two of them apart.
LEMMA WinnerExists ==
  ASSUME NEW n \in Nat, NEW T \in SUBSET (1..n), T # {},
         NEW Beats \in SUBSET (T \X T),
         \A i \in T : <<i, i>> \notin Beats,
         \A i, j, k \in T : <<i, j>> \in Beats /\ <<j, k>> \in Beats => <<i, k>> \in Beats,
         \A i, j \in T : i # j => <<i, j>> \in Beats \/ <<j, i>> \in Beats
  PROVE  \E i \in T : \A j \in T \ {i} : <<i, j>> \in Beats
<1> DEFINE Above(i) == {j \in T : <<j, i>> \in Beats}
           R == StrictSubsetOrdering(1..n)
           U == {Above(i) : i \in T}
<1>1. IsWellFoundedOn(R, SUBSET (1..n))
  <2>1. IsWellFoundedOn(R, FiniteSubsetsOf(1..n))
    BY FS_StrictSubsetOrderingWellFounded
  <2>2. IsFiniteSet(1..n)
    BY FS_Interval
  <2>3. FiniteSubsetsOf(1..n) = SUBSET (1..n)
    BY <2>2, FS_FiniteSubsetsOfFinite
  <2> QED BY <2>1, <2>3
<1>2. U \subseteq SUBSET (1..n) /\ U # {}
  <2>1. \A i \in T : Above(i) \in SUBSET (1..n)
    OBVIOUS
  <2>2. PICK i \in T : TRUE
    OBVIOUS
  <2> HIDE DEF Above
  <2>3. Above(i) \in U
    OBVIOUS
  <2> QED BY <2>1, <2>3
<1>3. PICK x \in U : \A y \in U : ~(<<y, x>> \in R)
  BY <1>1, <1>2, WFMin
<1>4. PICK i \in T : x = Above(i)
  OBVIOUS
<1>5. ASSUME NEW j \in T, <<j, i>> \in Beats
      PROVE  FALSE
  <2>1. Above(j) \subseteq Above(i)
    BY <1>5
  <2>2. j \in Above(i) /\ j \notin Above(j)
    BY <1>5
  <2>3. <<Above(j), Above(i)>> \in R
    BY <2>1, <2>2 DEF StrictSubsetOrdering
  <2>4. Above(j) \in U
    OBVIOUS
  <2> QED BY <1>3, <1>4, <2>3, <2>4
<1>6. ASSUME NEW j \in T \ {i}
      PROVE  <<i, j>> \in Beats
  <2>1. i # j /\ ~(<<j, i>> \in Beats)
    BY <1>5
  <2> QED BY <2>1
<1> QED BY <1>6

LEMMA GreatestExists ==
  ASSUME NEW n \in Nat, NEW T \in SUBSET (1..n), T # {}
  PROVE  /\ Max(T) \in T
         /\ \A j \in T : j <= Max(T)
<1> DEFINE Beats == {p \in T \X T : p[1] > p[2]}
<1>1. T \subseteq Int
  OBVIOUS
<1>2. \A i, j \in T : <<i, j>> \in Beats <=> i > j
  OBVIOUS
<1>3. /\ Beats \in SUBSET (T \X T)
      /\ \A i \in T : <<i, i>> \notin Beats
      /\ \A i, j, k \in T : <<i, j>> \in Beats /\ <<j, k>> \in Beats => <<i, k>> \in Beats
      /\ \A i, j \in T : i # j => <<i, j>> \in Beats \/ <<j, i>> \in Beats
  BY <1>1, <1>2
<1> HIDE DEF Beats
<1>4. PICK i \in T : \A j \in T \ {i} : <<i, j>> \in Beats
  BY <1>3, WinnerExists
<1>5. ASSUME NEW j \in T PROVE i >= j
  <2>1. i \in Int /\ j \in Int
    BY <1>1
  <2>2. i # j => i > j
    BY <1>2, <1>4
  <2> QED BY <2>1, <2>2
<1> QED BY <1>5 DEF Max

(***************************************************************************)
(* NewestReview.                                                           *)
(***************************************************************************)

\* What NewestReview makes of the review it kept and the next one.
Kept(kept, r) == IF kept = Nil THEN r ELSE IF After(r.at, kept.at) THEN r ELSE kept

\* One step of the fold: the reviews at the positions t, from those before the last.
Folds(s, iter) ==
  [t \in SUBSET DOMAIN s |-> IF t = {} THEN Nil ELSE Kept(iter[t \ {Max(t)}], s[Max(t)])]

LEMMA NewestReviewUnfolded ==
  ASSUME NEW s
  PROVE  NewestReview(s) = (CHOOSE iter : iter = Folds(s, iter))[DOMAIN s]
BY DEF NewestReview, FoldLeft, MapThenFoldSet, Kept, Folds

LEMMA ReviewOf ==
  ASSUME NEW s \in Seq(Reviews), NEW i \in DOMAIN s
  PROVE  /\ i \in Int /\ i >= 1 /\ i <= Len(s)
         /\ s[i] \in Reviews /\ s[i] # Nil
         /\ s[i].at \in Int /\ s[i].at >= 1 /\ s[i].at # Nil
         /\ s[i].id \in ReviewId /\ s[i].state \in States
<1>1. i \in 1..Len(s) /\ Len(s) \in Nat /\ s[i] \in Reviews
  OBVIOUS
<1>2. s[i].at \in Time /\ s[i].id \in ReviewId /\ s[i].state \in States
  BY <1>1 DEF Reviews
<1> QED BY <1>1, <1>2, NilIsNoValue DEF Time

\* Of the reviews at the positions t, the one at i is as late as any, and the
\* first that is.
IsFirstNewest(s, t, i) ==
  /\ i \in t
  /\ \A j \in t \ {i} : s[j].at < s[i].at \/ (s[j].at = s[i].at /\ i < j)

LEMMA FirstNewestExists ==
  ASSUME NEW s \in Seq(Reviews), NEW t \in SUBSET DOMAIN s, t # {}
  PROVE  \E i \in t : IsFirstNewest(s, t, i)
<1> DEFINE Earlier(i, j) == s[j].at < s[i].at \/ (s[j].at = s[i].at /\ i < j)
           Beats == {p \in t \X t : Earlier(p[1], p[2])}
<1>1. Len(s) \in Nat /\ DOMAIN s = 1..Len(s)
  OBVIOUS
<1>2. \A i \in t : i \in Int /\ s[i].at \in Int
  BY <1>1, ReviewOf
<1>3. \A i, j \in t : <<i, j>> \in Beats <=> Earlier(i, j)
  OBVIOUS
<1>4. /\ Beats \in SUBSET (t \X t)
      /\ \A i \in t : <<i, i>> \notin Beats
      /\ \A i, j, k \in t : <<i, j>> \in Beats /\ <<j, k>> \in Beats => <<i, k>> \in Beats
      /\ \A i, j \in t : i # j => <<i, j>> \in Beats \/ <<j, i>> \in Beats
  <2> HIDE DEF Beats
  <2>1. \A i \in t : ~Earlier(i, i)
    BY <1>2
  <2>2. \A i, j, k \in t : Earlier(i, j) /\ Earlier(j, k) => Earlier(i, k)
    BY <1>2
  <2>3. \A i, j \in t : i # j => Earlier(i, j) \/ Earlier(j, i)
    BY <1>2
  <2> QED BY <1>3, <2>1, <2>2, <2>3 DEF Beats
<1> HIDE DEF Beats
<1> DEFINE n == Len(s)
<1>5. t \in SUBSET (1..n) /\ n \in Nat
  BY <1>1
<1> HIDE DEF n
<1>6. PICK i \in t : \A j \in t \ {i} : <<i, j>> \in Beats
  BY <1>4, <1>5, WinnerExists
<1> QED BY <1>3, <1>6 DEF IsFirstNewest

LEMMA FirstNewestIsOne ==
  ASSUME NEW s \in Seq(Reviews), NEW t \in SUBSET DOMAIN s,
         NEW i, NEW j, IsFirstNewest(s, t, i), IsFirstNewest(s, t, j)
  PROVE  i = j
<1>1. i \in Int /\ s[i].at \in Int /\ j \in Int /\ s[j].at \in Int
  BY ReviewOf DEF IsFirstNewest
<1> QED BY <1>1 DEF IsFirstNewest

\* The fold from left to right finds the first of the newest reviews.
THEOREM NewestReviewIsFirstNewest ==
  ASSUME NEW s \in Seq(Reviews)
  PROVE  /\ s = <<>> => NewestReview(s) = Nil
         /\ s # <<>> => \E i \in DOMAIN s : /\ IsFirstNewest(s, DOMAIN s, i)
                                            /\ NewestReview(s) = s[i]
<1> DEFINE D == DOMAIN s
           best(t) == CHOOSE i : IsFirstNewest(s, t, i)
           g == [t \in SUBSET D |-> IF t = {} THEN Nil ELSE s[best(t)]]
<1>1. Len(s) \in Nat /\ D = 1..Len(s)
  OBVIOUS
<1>2. ASSUME NEW t \in SUBSET D, t # {}
      PROVE  /\ IsFirstNewest(s, t, best(t)) /\ best(t) \in D /\ s[best(t)] \in Reviews
             /\ s[best(t)] # Nil
  <2>1. IsFirstNewest(s, t, best(t))
    BY <1>2, FirstNewestExists
  <2>2. best(t) \in D
    BY <2>1 DEF IsFirstNewest
  <2>3. s[best(t)] \in Reviews
    BY <2>2
  <2> QED BY <2>1, <2>2, <2>3, NilIsNoValue
<1> HIDE DEF best
<1>3. ASSUME NEW t \in SUBSET D, t # {}
      PROVE  g[t] = Kept(g[t \ {Max(t)}], s[Max(t)])
  <2> DEFINE x == Max(t)
             u == t \ {x}
  <2>1. x \in t /\ \A j \in t : j <= x
    BY <1>1, <1>3, GreatestExists
  <2>2. \A i \in t : i \in Int /\ s[i] \in Reviews /\ s[i].at \in Int /\ s[i].at # Nil
    BY <1>1, ReviewOf
  <2>3. CASE u = {}
    <3>1. IsFirstNewest(s, t, x)
      BY <2>1, <2>3 DEF IsFirstNewest
    <3>2. best(t) = x
      BY <1>2, <1>3, <3>1, FirstNewestIsOne
    <3>3. g[u] = Nil /\ g[t] = s[x]
      BY <1>3, <2>3, <3>2
    <3> QED BY <3>3 DEF Kept
  <2>4. CASE u # {}
    <3> DEFINE b == best(u)
    <3>1. /\ IsFirstNewest(s, u, b) /\ b \in u /\ s[b] # Nil /\ g[u] = s[b] /\ u \in SUBSET D
      BY <1>2, <2>4 DEF IsFirstNewest
    <3>2. s[b].at \in Int /\ s[x].at \in Int /\ b \in Int /\ x \in Int /\ b < x /\ s[b].at # Nil
          /\ s[x].at # Nil
      BY <2>1, <2>2, <3>1
    <3>3. Kept(g[u], s[x]) = IF s[x].at > s[b].at THEN s[x] ELSE s[b]
      BY <3>1, <3>2 DEF Kept, After
    <3>4. CASE s[x].at > s[b].at
      <4>1. IsFirstNewest(s, t, x)
        <5>1. ASSUME NEW j \in t \ {x} PROVE s[j].at < s[x].at
          <6>1. s[j].at \in Int /\ (j = b \/ s[j].at < s[b].at \/ s[j].at = s[b].at)
            BY <2>2, <3>1 DEF IsFirstNewest
          <6> QED BY <3>2, <3>4, <6>1
        <5> QED BY <2>1, <5>1 DEF IsFirstNewest
      <4>2. best(t) = x
        BY <1>2, <1>3, <4>1, FirstNewestIsOne
      <4> QED BY <1>3, <3>3, <3>4, <4>2
    <3>5. CASE ~(s[x].at > s[b].at)
      <4>1. IsFirstNewest(s, t, b)
        <5>1. s[x].at < s[b].at \/ (s[x].at = s[b].at /\ b < x)
          BY <3>2, <3>5
        <5>2. ASSUME NEW j \in t \ {b}
              PROVE  s[j].at < s[b].at \/ (s[j].at = s[b].at /\ b < j)
          <6>1. CASE j = x
            BY <5>1, <6>1
          <6>2. CASE j # x
            BY <3>1, <6>2 DEF IsFirstNewest
          <6> QED BY <6>1, <6>2
        <5> QED BY <3>1, <5>2 DEF IsFirstNewest
      <4>2. best(t) = b
        BY <1>2, <1>3, <4>1, FirstNewestIsOne
      <4> QED BY <1>3, <3>3, <3>5, <4>2
    <3> QED BY <3>4, <3>5
  <2> QED BY <2>3, <2>4
<1>4. g = Folds(s, g)
  BY <1>3 DEF Folds
<1> DEFINE h == CHOOSE iter : iter = Folds(s, iter)
<1>5. h = Folds(s, h)
  BY <1>4
<1> HIDE DEF h, g
<1>6. \A t \in SUBSET D : h[t] = g[t]
  <2> DEFINE U == {t \in SUBSET D : h[t] # g[t]}
             R == StrictSubsetOrdering(D)
  <2>1. IsWellFoundedOn(R, SUBSET D)
    <3>1. IsWellFoundedOn(R, FiniteSubsetsOf(D))
      BY FS_StrictSubsetOrderingWellFounded
    <3>2. IsFiniteSet(D)
      BY <1>1, FS_Interval
    <3>3. FiniteSubsetsOf(D) = SUBSET D
      BY <3>2, FS_FiniteSubsetsOfFinite
    <3> QED BY <3>1, <3>3
  <2> SUFFICES ASSUME U # {} PROVE FALSE
    OBVIOUS
  <2>2. PICK t \in U : \A u \in U : ~(<<u, t>> \in R)
    BY <2>1, WFMin
  <2>3. \A f : f = Folds(s, f) => f[{}] = Nil
    BY DEF Folds
  <2>4. t # {}
    BY <1>4, <1>5, <2>2, <2>3
  <2> DEFINE x == Max(t)
             u == t \ {x}
  <2>5. x \in t /\ u \in SUBSET D
    BY <1>1, <2>2, <2>4, GreatestExists
  <2>6. <<u, t>> \in R
    BY <2>5 DEF StrictSubsetOrdering
  <2>7. h[u] = g[u]
    BY <2>2, <2>5, <2>6
  <2>8. \A f : f = Folds(s, f) => f[t] = Kept(f[u], s[x])
    BY <2>4, <2>2 DEF Folds
  <2> QED BY <1>4, <1>5, <2>2, <2>7, <2>8
<1>7. NewestReview(s) = g[D]
  BY <1>6, NewestReviewUnfolded DEF h
<1>8. CASE s = <<>>
  BY <1>7, <1>8 DEF g
<1>9. CASE s # <<>>
  <2>1. D # {}
    BY <1>9
  <2> QED BY <1>2, <1>7, <1>9, <2>1 DEF g
<1> QED BY <1>8, <1>9

(***************************************************************************)
(* The inductive invariants.                                               *)
(***************************************************************************)

\* Types; what a handler has not read yet it does not know; the bounds of the
\* marks.
Fresh ==
  \A c \in Callers : call[c].pc \in {"idle", "reviewers", "reviews"} => call[c].data.review = Nil

MarksInBounds ==
  /\ \A c \in Requesters : call[c].pc \in {"latest", "insert"} => call[c].mark <= Len(pr.reviews)
  /\ \A c \in Observers : /\ call[c].mark <= Len(log)
                          /\ At(c, "settle") => call[c].entry \in DOMAIN log

RequestInv == TypeOK /\ Fresh /\ MarksInBounds

(***************************************************************************)
(* What a step makes of the handler it is a step of.                       *)
(***************************************************************************)
Call == [pc: CallPc, since: 0..MaxTime, data: Data, entry: 0..MaxRows, mark: Nat,
         seen: 0..MaxReviews]

\* The other handlers are where they were.
Others(c) ==
  /\ call' \in [Callers -> Call]
  /\ \A b \in Callers \ {c} : call'[b] = call[b]

LEMMA CallType ==
  ASSUME TypeOK, NEW c \in Callers
  PROVE  /\ call[c] \in Call /\ call[c].pc \in CallPc /\ call[c].since \in 0..MaxTime
         /\ call[c].data \in Data /\ call[c].entry \in 0..MaxRows /\ call[c].mark \in Nat
         /\ call[c].seen \in 0..MaxReviews
BY DEF TypeOK, Call

LEMMA DataType ==
  ASSUME NEW d \in Data
  PROVE  /\ d.listed \in BOOLEAN /\ d.review \in Reviews \union {Nil}
         /\ d.requestedAt \in Time \union {Nil} /\ d.startedAt \in Time \union {Nil}
BY DEF Data

LEMMA NoDataType == /\ NoData \in Data /\ NoData.review = Nil /\ NoData.listed = FALSE
                    /\ NoData.requestedAt = Nil /\ NoData.startedAt = Nil
BY DEF NoData, Data

LEMMA IdleType == /\ Idle \in Call /\ Idle.pc = "idle" /\ Idle.data.review = Nil /\ Idle.mark = 0
                  /\ Idle.data.requestedAt = Nil /\ Idle.data.startedAt = Nil
<1>1. /\ 0 \in 0..MaxTime /\ 0 \in 0..MaxRows /\ 0 \in 0..MaxReviews /\ 0 \in Nat
      /\ "idle" \in CallPc
  BY Parameters DEF CallPc
<1> QED BY <1>1, NoDataType DEF Idle, Call

LEMMA CallBecomes ==
  ASSUME TypeOK, NEW c \in Callers, NEW w \in Call, call' = [call EXCEPT ![c] = w]
  PROVE  Others(c) /\ call'[c] = w
BY DEF TypeOK, Others, Call

LEMMA ReturnsEffect ==
  ASSUME TypeOK, NEW c \in Callers, Returns(c)
  PROVE  /\ Others(c) /\ call'[c].pc = "idle" /\ call'[c].data.review = Nil /\ call'[c].mark = 0
         /\ call'[c].data.requestedAt = Nil /\ call'[c].data.startedAt = Nil
BY IdleType, CallBecomes DEF Returns

LEMMA GoToEffect ==
  ASSUME TypeOK, NEW c \in Callers, NEW pc \in CallPc, GoTo(c, pc)
  PROVE  /\ Others(c)
         /\ call'[c].pc = pc /\ call'[c].since = call[c].since /\ call'[c].data = call[c].data
         /\ call'[c].entry = call[c].entry /\ call'[c].mark = call[c].mark
         /\ call'[c].seen = call[c].seen
<1> DEFINE x == call[c]
           w == [x EXCEPT !.pc = pc]
<1>1. x \in Call /\ call' = [call EXCEPT ![c] = w]
  BY CallType DEF GoTo
<1> HIDE DEF x
<1>2. /\ w \in Call /\ w.pc = pc /\ w.since = x.since /\ w.data = x.data /\ w.entry = x.entry
      /\ w.mark = x.mark /\ w.seen = x.seen
  BY <1>1 DEF Call
<1> HIDE DEF w
<1> QED BY <1>1, <1>2, CallBecomes DEF x

LEMMA BeginsEffect ==
  ASSUME TypeOK, NEW c \in Callers, NEW n \in Nat, NEW m \in 0..MaxReviews, Begins(c, n, m)
  PROVE  /\ Others(c)
         /\ call'[c].pc = "reviewers" /\ call'[c].since = now /\ call'[c].data = call[c].data
         /\ call'[c].entry = call[c].entry /\ call'[c].mark = n /\ call'[c].seen = m
<1> DEFINE x == call[c]
           y == [x EXCEPT !.pc = "reviewers"]
           z == [y EXCEPT !.since = now]
           v == [z EXCEPT !.mark = n]
           w == [v EXCEPT !.seen = m]
<1>1. x \in Call /\ now \in 0..MaxTime /\ "reviewers" \in CallPc
  BY CallType DEF TypeOK, Time, CallPc
<1>2. call' = [call EXCEPT ![c] = w]
  BY Zenon DEF Begins, TypeOK
<1> HIDE DEF x
<1>3. /\ y \in Call /\ y.pc = "reviewers" /\ y.data = x.data /\ y.entry = x.entry
  BY <1>1 DEF Call
<1> HIDE DEF y
<1>4. /\ z \in Call /\ z.pc = "reviewers" /\ z.since = now /\ z.data = x.data /\ z.entry = x.entry
  BY <1>1, <1>3 DEF Call
<1> HIDE DEF z
<1>5. /\ v \in Call /\ v.pc = "reviewers" /\ v.since = now /\ v.data = x.data /\ v.entry = x.entry
      /\ v.mark = n
  BY <1>4 DEF Call
<1> HIDE DEF v
<1>6. /\ w \in Call /\ w.pc = "reviewers" /\ w.since = now /\ w.data = x.data /\ w.entry = x.entry
      /\ w.mark = n /\ w.seen = m
  BY <1>5 DEF Call
<1> HIDE DEF w
<1> QED BY <1>2, <1>6, CallBecomes DEF x

LEMMA ReadReviewersEffect ==
  ASSUME TypeOK, NEW c \in Callers, ReadReviewers(c)
  PROVE  /\ Others(c)
         /\ call'[c].pc = "reviews" /\ call'[c].since = call[c].since /\ call'[c].mark = call[c].mark
         /\ call'[c].entry = call[c].entry
         /\ call'[c].seen = call[c].seen
         /\ call'[c].data.listed = pr.listed /\ call'[c].data.review = call[c].data.review
         /\ call'[c].data.requestedAt = call[c].data.requestedAt
         /\ call'[c].data.startedAt = call[c].data.startedAt
<1> DEFINE x == call[c]
           d == x.data
           e == [d EXCEPT !.listed = pr.listed]
           y == [x EXCEPT !.data = e]
           w == [y EXCEPT !.pc = "reviews"]
<1>1. /\ x \in Call /\ d \in Data /\ pr.listed \in BOOLEAN /\ "reviews" \in CallPc /\ d = x.data
  BY CallType DEF TypeOK, CallPc
<1>2. call' = [call EXCEPT ![c] = w]
  BY Zenon DEF ReadReviewers, TypeOK
<1> HIDE DEF d
<1>3. /\ e \in Data /\ e.listed = pr.listed /\ e.review = d.review
      /\ e.requestedAt = d.requestedAt /\ e.startedAt = d.startedAt
  BY <1>1 DEF Data
<1> HIDE DEF e, x
<1>4. /\ y \in Call /\ y.since = x.since /\ y.data = e /\ y.entry = x.entry /\ y.mark = x.mark
      /\ y.seen = x.seen
  BY <1>1, <1>3 DEF Call
<1> HIDE DEF y
<1>5. /\ w \in Call /\ w.pc = "reviews" /\ w.since = x.since /\ w.data = e /\ w.entry = x.entry
      /\ w.mark = x.mark /\ w.seen = x.seen
  BY <1>1, <1>4 DEF Call
<1> HIDE DEF w
<1> QED BY <1>1, <1>2, <1>3, <1>5, CallBecomes DEF x

LEMMA ListingType ==
  ASSUME TypeOK, NEW listing \in Listings
  PROVE  listing \in Seq(Reviews) /\ NewestReview(listing) \in Reviews \union {Nil}
<1>1. PICK n \in 0..Len(pr.reviews) : listing = SubSeq(pr.reviews, 1, n)
  BY DEF Listings
<1>2. pr.reviews \in Seq(Reviews)
  BY DEF TypeOK
<1>3. listing \in Seq(Reviews)
  BY <1>1, <1>2
<1> QED BY <1>3, NewestReviewIsFirstNewest, ReviewOf

LEMMA ReadReviewsEffect ==
  ASSUME TypeOK, NEW c \in Callers, ReadReviews(c)
  PROVE  /\ Others(c)
         /\ call'[c].pc \in {"timeline", "decide"} /\ call'[c].since = call[c].since
         /\ call'[c].mark = call[c].mark /\ call'[c].entry = call[c].entry
         /\ call'[c].seen = call[c].seen
         /\ call'[c].data.listed = call[c].data.listed
         /\ call'[c].data.requestedAt = call[c].data.requestedAt
         /\ call'[c].data.startedAt = call[c].data.startedAt
         /\ \E listing \in Listings : call'[c].data.review = NewestReview(listing)
<1>1. PICK listing \in Listings :
        LET data == [call[c].data EXCEPT !.review = NewestReview(listing)]
        IN call' = [call EXCEPT ![c].data = data,
                                ![c].pc = IF NeedsTimeline(data) THEN "timeline" ELSE "decide"]
  BY DEF ReadReviews
<1> DEFINE x == call[c]
           d == x.data
           e == [d EXCEPT !.review = NewestReview(listing)]
           y == [x EXCEPT !.data = e]
           p == IF NeedsTimeline(e) THEN "timeline" ELSE "decide"
           w == [y EXCEPT !.pc = p]
<1>2. x \in Call /\ d \in Data /\ d = x.data /\ p \in CallPc /\ p \in {"timeline", "decide"}
  BY CallType DEF CallPc
<1>3. call' = [call EXCEPT ![c] = w]
  BY <1>1, Zenon DEF TypeOK
<1> HIDE DEF d
<1>4. /\ e \in Data /\ e.listed = d.listed /\ e.review = NewestReview(listing)
      /\ e.requestedAt = d.requestedAt /\ e.startedAt = d.startedAt
  BY <1>2, ListingType DEF Data
<1> HIDE DEF e, x, p
<1>5. /\ y \in Call /\ y.since = x.since /\ y.data = e /\ y.entry = x.entry /\ y.mark = x.mark
      /\ y.seen = x.seen
  BY <1>2, <1>4 DEF Call
<1> HIDE DEF y
<1>6. /\ w \in Call /\ w.pc = p /\ w.since = x.since /\ w.data = e /\ w.entry = x.entry
      /\ w.mark = x.mark /\ w.seen = x.seen
  BY <1>2, <1>5 DEF Call
<1> HIDE DEF w
<1> QED BY <1>2, <1>3, <1>4, <1>6, CallBecomes DEF x

LEMMA ReadTimelineEffect ==
  ASSUME TypeOK, NEW c \in Callers, ReadTimeline(c)
  PROVE  /\ Others(c)
         /\ call'[c].pc = "decide" /\ call'[c].since = call[c].since /\ call'[c].mark = call[c].mark
         /\ call'[c].entry = call[c].entry /\ call'[c].seen = call[c].seen
         /\ call'[c].data.listed = call[c].data.listed
         /\ call'[c].data.review = call[c].data.review
         /\ call'[c].data.requestedAt = pr.requestedAt
         /\ call'[c].data.startedAt = pr.startedAt
<1> DEFINE x == call[c]
           d == x.data
           e == [d EXCEPT !.requestedAt = pr.requestedAt]
           y == [x EXCEPT !.data = e]
           f == [e EXCEPT !.startedAt = pr.startedAt]
           z == [y EXCEPT !.data = [y.data EXCEPT !.startedAt = pr.startedAt]]
           w == [z EXCEPT !.pc = "decide"]
<1>1. /\ x \in Call /\ d \in Data /\ "decide" \in CallPc /\ d = x.data
      /\ pr.requestedAt \in Time \union {Nil} /\ pr.startedAt \in Time \union {Nil}
  BY CallType DEF TypeOK, CallPc
<1>2. call' = [call EXCEPT ![c] = w]
  BY Zenon DEF ReadTimeline, TypeOK
<1> HIDE DEF d
<1>3. e \in Data /\ e.listed = d.listed /\ e.review = d.review /\ e.requestedAt = pr.requestedAt
  BY <1>1 DEF Data
<1> HIDE DEF e
<1>4. /\ f \in Data /\ f.listed = d.listed /\ f.review = d.review
      /\ f.requestedAt = pr.requestedAt /\ f.startedAt = pr.startedAt
  BY <1>1, <1>3 DEF Data
<1> HIDE DEF x
<1>5. /\ y \in Call /\ y.since = x.since /\ y.data = e /\ y.entry = x.entry /\ y.mark = x.mark
      /\ y.seen = x.seen
  BY <1>1, <1>3 DEF Call
<1>6. z = [y EXCEPT !.data = f]
  BY <1>5
<1> HIDE DEF y, z, f
<1>7. /\ z \in Call /\ z.since = x.since /\ z.data = f /\ z.entry = x.entry /\ z.mark = x.mark
      /\ z.seen = x.seen
  BY <1>4, <1>5, <1>6 DEF Call
<1>8. /\ w \in Call /\ w.pc = "decide" /\ w.since = x.since /\ w.data = f /\ w.entry = x.entry
      /\ w.mark = x.mark /\ w.seen = x.seen
  BY <1>1, <1>7 DEF Call
<1> HIDE DEF w
<1> QED BY <1>1, <1>2, <1>4, <1>8, CallBecomes DEF x

LEMMA MutationEffect ==
  ASSUME TypeOK, NEW c \in Callers, RequestCopilotReview(c)
  PROVE  /\ Others(c)
         /\ call'[c].pc \in {"latest", "insert"} /\ call'[c].since = call[c].since
         /\ call'[c].mark = Len(pr.reviews) /\ call'[c].data = call[c].data
<1> DEFINE x == call[c]
           p == IF x.data.review # Nil THEN "latest" ELSE "insert"
           y == [x EXCEPT !.pc = p]
           w == [y EXCEPT !.mark = Len(pr.reviews)]
<1>1. /\ x \in Call /\ p \in CallPc /\ p \in {"latest", "insert"} /\ Len(pr.reviews) \in Nat
  BY CallType DEF CallPc, TypeOK
<1>2. call' = [call EXCEPT ![c] = w]
  BY Zenon DEF RequestCopilotReview, TypeOK
<1> HIDE DEF x, p
<1>3. y \in Call /\ y.pc = p /\ y.since = x.since /\ y.data = x.data
  BY <1>1 DEF Call
<1> HIDE DEF y
<1>4. w \in Call /\ w.pc = p /\ w.since = x.since /\ w.data = x.data /\ w.mark = Len(pr.reviews)
  BY <1>1, <1>3 DEF Call
<1> HIDE DEF w
<1> QED BY <1>1, <1>2, <1>4, CallBecomes DEF x

TakesEntry(c, entry, pc) == call' = [call EXCEPT ![c].entry = entry, ![c].pc = pc]

LEMMA EntryEffect ==
  ASSUME TypeOK, NEW c \in Callers, NEW entry \in 0..MaxRows, NEW pc \in CallPc,
         TakesEntry(c, entry, pc)
  PROVE  /\ Others(c)
         /\ call'[c].pc = pc /\ call'[c].since = call[c].since /\ call'[c].data = call[c].data
         /\ call'[c].entry = entry /\ call'[c].mark = call[c].mark /\ call'[c].seen = call[c].seen
<1> DEFINE x == call[c]
           y == [x EXCEPT !.entry = entry]
           w == [y EXCEPT !.pc = pc]
<1>1. x \in Call
  BY CallType
<1>2. call' = [call EXCEPT ![c] = w]
  BY Zenon DEF TakesEntry, TypeOK
<1> HIDE DEF x
<1>3. /\ y \in Call /\ y.since = x.since /\ y.data = x.data /\ y.entry = entry /\ y.mark = x.mark
      /\ y.seen = x.seen
  BY <1>1 DEF Call
<1> HIDE DEF y
<1>4. /\ w \in Call /\ w.pc = pc /\ w.since = x.since /\ w.data = x.data /\ w.entry = entry
      /\ w.mark = x.mark /\ w.seen = x.seen
  BY <1>3 DEF Call
<1> HIDE DEF w
<1> QED BY <1>2, <1>4, CallBecomes DEF x

(***************************************************************************)
(* The rows.                                                               *)
(***************************************************************************)
LEMMA RowType ==
  ASSUME TypeOK, NEW i \in DOMAIN log
  PROVE  /\ i \in Nat /\ 1 <= i /\ i <= Len(log) /\ i \in 0..MaxRows /\ i # 0
         /\ log[i] \in Row /\ log[i].at \in Int /\ log[i].at # Nil /\ log[i].done \in BOOLEAN
         /\ log[i].prev \in ReviewId \union {Nil} /\ log[i].base \in 0..MaxReviews
         /\ log[i].asked \in Time \union {Nil}
<1>1. i \in 1..Len(log) /\ Len(log) \in Nat /\ Len(log) <= MaxRows /\ log[i] \in Row /\ MaxRows \in Nat
  BY Parameters DEF TypeOK
<1>2. log[i].at \in Int /\ log[i].done \in BOOLEAN /\ log[i].prev \in ReviewId \union {Nil}
      /\ log[i].base \in 0..MaxReviews /\ log[i].asked \in Time \union {Nil}
  BY <1>1 DEF Row
<1> QED BY <1>1, <1>2, NilIsNoValue

\* GetLatest finds a row if there is one: the latest, of the latest the last.
LEMMA GetLatestFinds ==
  ASSUME TypeOK
  PROVE  /\ GetLatest \in 0..MaxRows
         /\ log = <<>> => GetLatest = 0
         /\ log # <<>> => /\ GetLatest \in DOMAIN log
                          /\ \A j \in DOMAIN log \ {GetLatest} :
                               \/ log[j].at < log[GetLatest].at
                               \/ log[j].at = log[GetLatest].at /\ j < GetLatest
<1> DEFINE Later(i, j) == log[j].at < log[i].at \/ (log[j].at = log[i].at /\ j < i)
           t == DOMAIN log
           n == Len(log)
           Beats == {p \in t \X t : Later(p[1], p[2])}
<1>1. n \in Nat /\ t = 1..n /\ (log # <<>> => t # {}) /\ MaxRows \in Nat /\ 0 \in 0..MaxRows
  <2>1. log \in Seq(Row) /\ MaxRows \in Nat
    BY Parameters DEF TypeOK
  <2> QED BY <2>1
<1>2. \A i \in t : i \in Int /\ log[i].at \in Int
  BY RowType
<1>3. \A i, j \in t : <<i, j>> \in Beats <=> Later(i, j)
  OBVIOUS
<1>4. Beats \in SUBSET (t \X t)
  OBVIOUS
<1> HIDE DEF Beats
<1>5. /\ \A i \in t : <<i, i>> \notin Beats
      /\ \A i, j, k \in t : <<i, j>> \in Beats /\ <<j, k>> \in Beats => <<i, k>> \in Beats
      /\ \A i, j \in t : i # j => <<i, j>> \in Beats \/ <<j, i>> \in Beats
  <2>1. \A i \in t : ~Later(i, i)
    BY <1>2
  <2>2. \A i, j, k \in t : Later(i, j) /\ Later(j, k) => Later(i, k)
    BY <1>2
  <2>3. \A i, j \in t : i # j => Later(i, j) \/ Later(j, i)
    BY <1>2
  <2> QED BY <1>3, <2>1, <2>2, <2>3
<1>6. CASE log = <<>>
  BY <1>1, <1>6 DEF GetLatest
<1>7. CASE log # <<>>
  <2>1. t # {} /\ t \in SUBSET (1..n) /\ n \in Nat
    BY <1>1, <1>7
  <2> HIDE DEF n, t
  <2>2. \E i \in t : \A j \in t \ {i} : <<i, j>> \in Beats
    BY <1>4, <1>5, <2>1, WinnerExists
  <2>3. \E i \in DOMAIN log : \A j \in DOMAIN log \ {i} : Later(i, j)
    BY <1>3, <2>2 DEF t
  <2>4. GetLatest \in DOMAIN log /\ \A j \in DOMAIN log \ {GetLatest} : Later(GetLatest, j)
    BY <1>7, <2>3, Zenon DEF GetLatest
  <2>5. GetLatest \in 0..MaxRows
    BY <2>4, RowType
  <2> QED BY <1>7, <2>4, <2>5
<1> QED BY <1>6, <1>7

LEMMA LatestEffect ==
  ASSUME TypeOK, NEW c \in Callers, ReadLatest(c)
  PROVE  /\ Others(c)
         /\ call'[c].pc = "insert" /\ call'[c].since = call[c].since /\ call'[c].data = call[c].data
         /\ call'[c].mark = call[c].mark
<1>1. GetLatest \in 0..MaxRows /\ "insert" \in CallPc
  BY GetLatestFinds DEF CallPc
<1>2. TakesEntry(c, GetLatest, "insert")
  BY DEF ReadLatest, TakesEntry
<1> QED BY <1>1, <1>2, EntryEffect

\* What a status call found is either an answer to settle with, or nothing to do.
Owes(c) == /\ StatusOf(call[c].data, GetLatest) \in Done
           /\ GetLatest \in DOMAIN log
           /\ ~log[GetLatest].done

LEMMA DeriveEffect ==
  ASSUME TypeOK, NEW c \in Callers, Derive(c)
  PROVE  /\ Others(c)
         /\ \/ /\ call'[c].pc = "idle" /\ call'[c].data.review = Nil /\ call'[c].mark = 0
               /\ call'[c] = Idle /\ ~Owes(c)
            \/ /\ Owes(c)
               /\ call'[c].pc = "settle" /\ call'[c].since = call[c].since
               /\ call'[c].data = call[c].data /\ call'[c].mark = call[c].mark
               /\ call'[c].entry = GetLatest /\ call'[c].seen = call[c].seen
<1>1. GetLatest \in 0..MaxRows /\ "settle" \in CallPc
  BY GetLatestFinds DEF CallPc
<1>2. GetLatest # 0 <=> GetLatest \in DOMAIN log
  BY GetLatestFinds, RowType
<1>3. CASE Owes(c)
  <2>1. TakesEntry(c, GetLatest, "settle")
    BY <1>2, <1>3, Zenon DEF Derive, Owes, TakesEntry
  <2> QED BY <1>1, <1>3, <2>1, EntryEffect
<1>4. CASE ~Owes(c)
  <2>1. Returns(c)
    BY <1>2, <1>4 DEF Derive, Owes
  <2>2. call'[c] = Idle
    BY <2>1 DEF Returns, TypeOK
  <2> QED BY <1>4, <2>1, <2>2, ReturnsEffect
<1> QED BY <1>3, <1>4

(***************************************************************************)
(* What a step makes of the rows and of GitHub's side.                     *)
(***************************************************************************)
LEMMA InsertEffect ==
  ASSUME TypeOK, NEW c \in Callers, MarksInBounds, c \in Requesters, RecordTrigger(c)
  PROVE  \E row \in Row :
           /\ log' = Append(log, row) /\ Len(log') = Len(log) + 1 /\ log' \in Seq(Row)
           /\ Len(log') <= MaxRows /\ DOMAIN log' = 1..(Len(log) + 1)
           /\ log'[Len(log) + 1] = row /\ \A i \in DOMAIN log : log'[i] = log[i]
           /\ ~row.done /\ row.base = call[c].mark /\ row.asked = pr.requestedAt
           /\ row.prev # Nil => call[c].data.review # Nil /\ row.prev = call[c].data.review.id
<1> DEFINE review == call[c].data.review
           entry  == call[c].entry
           named  == [at |-> review.at + 1, done |-> FALSE, prev |-> review.id,
                      base |-> call[c].mark, asked |-> pr.requestedAt]
           dated  == [at |-> now + Skew, done |-> FALSE, prev |-> Nil, base |-> call[c].mark,
                      asked |-> pr.requestedAt]
<1>1. /\ review \in Reviews \union {Nil} /\ call[c].mark \in Nat /\ now \in Int /\ Skew \in Int
      /\ log \in Seq(Row) /\ Len(log) < MaxRows /\ MaxRows \in Nat /\ MaxReviews \in Nat
      /\ Len(pr.reviews) <= MaxReviews /\ pr.reviews \in Seq(Reviews)
      /\ pr.requestedAt \in Time \union {Nil}
  BY CallType, DataType, Parameters DEF TypeOK, Time, RecordTrigger
<1>2. call[c].mark \in 0..MaxReviews
  <2>1. call[c].mark <= Len(pr.reviews) /\ Len(pr.reviews) \in Nat
    BY <1>1 DEF MarksInBounds, RecordTrigger, At
  <2> QED BY <1>1, <2>1
<1>3. dated \in Row
  BY <1>1, <1>2 DEF Row
<1>4. review # Nil => named \in Row
  <2>1. review # Nil => review.at \in Int /\ review.id \in ReviewId
    BY <1>1 DEF Reviews, Time
  <2> HIDE DEF review
  <2> QED BY <1>1, <1>2, <2>1 DEF Row
<1>5. \/ log' = Append(log, dated)
      \/ review # Nil /\ log' = Append(log, named)
  BY DEF RecordTrigger, Insert
<1>6. ASSUME NEW row \in Row, log' = Append(log, row)
      PROVE  /\ Len(log') = Len(log) + 1 /\ log' \in Seq(Row)
             /\ Len(log') <= MaxRows /\ DOMAIN log' = 1..(Len(log) + 1)
             /\ log'[Len(log) + 1] = row /\ \A i \in DOMAIN log : log'[i] = log[i]
  <2> HIDE DEF review
  <2>1. Len(log) \in Nat
    BY <1>1
  <2> QED BY <1>1, <1>6, <2>1
<1>7. CASE log' = Append(log, dated)
  <2>1. /\ ~dated.done /\ dated.base = call[c].mark /\ dated.prev = Nil
        /\ dated.asked = pr.requestedAt
    OBVIOUS
  <2> HIDE DEF dated
  <2> QED BY <1>3, <1>6, <1>7, <2>1
<1>8. CASE review # Nil /\ log' = Append(log, named)
  <2>1. /\ ~named.done /\ named.base = call[c].mark /\ named.prev = review.id
        /\ named.asked = pr.requestedAt
    OBVIOUS
  <2> HIDE DEF named
  <2> QED BY <1>4, <1>6, <1>8, <2>1
<1> QED BY <1>5, <1>7, <1>8

LEMMA CompletedEffect ==
  ASSUME TypeOK, NEW i \in DOMAIN log, UpdateCompletedAt(i)
  PROVE  /\ log' \in Seq(Row) /\ Len(log') = Len(log) /\ DOMAIN log' = DOMAIN log
         /\ log'[i].done /\ \A j \in DOMAIN log \ {i} : log'[j] = log[j]
         /\ \A j \in DOMAIN log : /\ log'[j].at = log[j].at /\ log'[j].prev = log[j].prev
                                  /\ log'[j].base = log[j].base /\ log'[j].asked = log[j].asked
<1> DEFINE w == [log[i] EXCEPT !.done = TRUE]
<1>1. log \in Seq(Row) /\ log[i] \in Row /\ log' = [log EXCEPT ![i] = w]
  BY RowType DEF TypeOK, UpdateCompletedAt
<1>2. /\ w \in Row /\ w.done /\ w.at = log[i].at /\ w.prev = log[i].prev /\ w.base = log[i].base
      /\ w.asked = log[i].asked
  BY <1>1 DEF Row
<1> HIDE DEF w
<1>3. log' \in Seq(Row) /\ Len(log') = Len(log) /\ DOMAIN log' = DOMAIN log
  BY <1>1, <1>2
<1>4. log'[i] = w /\ \A j \in DOMAIN log \ {i} : log'[j] = log[j]
  BY <1>1
<1> QED BY <1>2, <1>3, <1>4

PullRequest == [listed: BOOLEAN, requestedAt: Time \union {Nil},
                startedAt: Time \union {Nil}, reviews: Seq(Reviews)]

LEMMA PullRequestType ==
  ASSUME TypeOK
  PROVE  /\ pr \in PullRequest /\ pr.listed \in BOOLEAN /\ pr.requestedAt \in Time \union {Nil}
         /\ pr.startedAt \in Time \union {Nil} /\ pr.reviews \in Seq(Reviews)
         /\ Len(pr.reviews) \in Nat /\ DOMAIN pr.reviews = 1..Len(pr.reviews)
         /\ Len(pr.reviews) <= MaxReviews
         /\ now \in Time /\ now \in Int /\ now >= 1 /\ now # Nil
<1>1. /\ pr \in PullRequest /\ Len(pr.reviews) <= MaxReviews /\ now \in Time
  BY DEF TypeOK, PullRequest
<1>2. /\ pr.listed \in BOOLEAN /\ pr.requestedAt \in Time \union {Nil}
      /\ pr.startedAt \in Time \union {Nil} /\ pr.reviews \in Seq(Reviews)
  BY <1>1 DEF PullRequest
<1>3. Len(pr.reviews) \in Nat /\ DOMAIN pr.reviews = 1..Len(pr.reviews)
  BY <1>2
<1>4. now \in Int /\ now >= 1 /\ now # Nil
  BY <1>1, NilIsNoValue DEF Time
<1> QED BY <1>1, <1>2, <1>3, <1>4

LEMMA ListedEffect ==
  ASSUME TypeOK, pr' = Listed(pr)
  PROVE  /\ pr' \in PullRequest /\ pr'.listed /\ pr'.reviews = pr.reviews
         /\ pr'.startedAt = pr.startedAt
         /\ pr.listed => pr' = pr
         /\ ~pr.listed => pr'.requestedAt = now
<1> DEFINE x == pr
           y == [x EXCEPT !.listed = TRUE]
           z == [y EXCEPT !.requestedAt = now]
<1>1. x \in PullRequest /\ now \in Time
  BY PullRequestType
<1>2. pr' = IF x.listed THEN x ELSE z
  BY DEF Listed
<1> HIDE DEF x
<1>3. y \in PullRequest /\ y.listed /\ y.reviews = x.reviews /\ y.startedAt = x.startedAt
  BY <1>1 DEF PullRequest
<1> HIDE DEF y
<1>4. /\ z \in PullRequest /\ z.listed /\ z.reviews = x.reviews /\ z.requestedAt = now
      /\ z.startedAt = x.startedAt
  BY <1>1, <1>3 DEF PullRequest
<1> HIDE DEF z
<1> QED BY <1>1, <1>2, <1>4 DEF x

LEMMA StartEffect ==
  ASSUME TypeOK, StartWork
  PROVE  /\ pr' \in PullRequest /\ pr'.listed = pr.listed /\ pr'.requestedAt = pr.requestedAt
         /\ pr'.reviews = pr.reviews /\ pr'.startedAt = now
<1> DEFINE x == pr
<1>1. x \in PullRequest /\ now \in Time /\ pr' = [x EXCEPT !.startedAt = now]
  BY PullRequestType DEF StartWork
<1> HIDE DEF x
<1> QED BY <1>1 DEF PullRequest, x

LEMMA WithdrawEffect ==
  ASSUME TypeOK, Withdraw
  PROVE  /\ pr' \in PullRequest /\ ~pr'.listed /\ pr'.requestedAt = pr.requestedAt
         /\ pr'.reviews = pr.reviews /\ pr'.startedAt = pr.startedAt
<1> DEFINE x == pr
<1>1. x \in PullRequest /\ pr' = [x EXCEPT !.listed = FALSE]
  BY PullRequestType DEF Withdraw
<1> HIDE DEF x
<1> QED BY <1>1 DEF PullRequest, x

LEMMA SubmitEffect ==
  ASSUME TypeOK, NEW state \in States, SubmitReview(state)
  PROVE  /\ pr' \in PullRequest /\ ~pr'.listed /\ pr'.requestedAt = pr.requestedAt
         /\ pr'.startedAt = pr.startedAt
         /\ Len(pr'.reviews) = Len(pr.reviews) + 1 /\ Len(pr'.reviews) <= MaxReviews
         /\ DOMAIN pr'.reviews = 1..(Len(pr.reviews) + 1)
         /\ \A k \in DOMAIN pr.reviews : pr'.reviews[k] = pr.reviews[k]
         /\ pr'.reviews[Len(pr.reviews) + 1].id = Len(pr.reviews) + 1
         /\ pr'.reviews[Len(pr.reviews) + 1].at = now
<1> DEFINE s == pr.reviews
           r == [id |-> Len(s) + 1, at |-> now, state |-> state]
           x == pr
           y == [x EXCEPT !.listed = FALSE]
           z == [y EXCEPT !.reviews = Append(y.reviews, [id |-> Len(y.reviews) + 1, at |-> now, state |-> state])]
<1>1. /\ x \in PullRequest /\ now \in Time /\ s \in Seq(Reviews) /\ s = x.reviews /\ Len(s) \in Nat
      /\ Len(s) < MaxReviews /\ MaxReviews \in Nat
  BY PullRequestType, Parameters DEF SubmitReview
<1>2. pr' = z
  BY Zenon DEF SubmitReview
<1>3. r \in Reviews /\ r.id = Len(s) + 1 /\ r.at = now
  BY <1>1 DEF Reviews, ReviewId
<1> HIDE DEF x, s
<1>4. /\ y \in PullRequest /\ ~y.listed /\ y.reviews = s /\ y.requestedAt = x.requestedAt
      /\ y.startedAt = x.startedAt
  BY <1>1 DEF PullRequest
<1>5. z = [y EXCEPT !.reviews = Append(s, r)]
  BY <1>4
<1> HIDE DEF y, z, r
<1>6. /\ Append(s, r) \in Seq(Reviews) /\ Len(Append(s, r)) = Len(s) + 1
      /\ DOMAIN Append(s, r) = 1..(Len(s) + 1) /\ Append(s, r)[Len(s) + 1] = r
      /\ \A k \in DOMAIN s : Append(s, r)[k] = s[k]
  BY <1>1, <1>3
<1>7. /\ z \in PullRequest /\ ~z.listed /\ z.reviews = Append(s, r) /\ z.requestedAt = x.requestedAt
      /\ z.startedAt = x.startedAt
  BY <1>4, <1>5, <1>6 DEF PullRequest
<1>8. Len(s) + 1 <= MaxReviews
  BY <1>1
<1> QED BY <1>2, <1>3, <1>6, <1>7, <1>8 DEF s, x

(***************************************************************************)
(* Types.                                                                  *)
(***************************************************************************)

\* A step of the handler c that leaves the rows and GitHub alone.
LEMMA HandlerKeepsRequestInv ==
  ASSUME RequestInv, NEW c \in Callers, Others(c), UNCHANGED <<now, pr, log>>,
         call'[c].pc \in {"idle", "reviewers", "reviews"} => call'[c].data.review = Nil,
         c \in Requesters /\ call'[c].pc \in {"latest", "insert"} =>
           call'[c].mark <= Len(pr.reviews),
         c \in Observers => /\ call'[c].mark <= Len(log)
                            /\ call'[c].pc = "settle" => call'[c].entry \in DOMAIN log
  PROVE  RequestInv'
<1>1. TypeOK'
  BY DEF RequestInv, TypeOK, Others, Call
<1>2. Fresh'
  BY DEF RequestInv, Fresh, Others
<1>3. MarksInBounds'
  BY DEF RequestInv, MarksInBounds, Others, At, Callers
<1> QED BY <1>1, <1>2, <1>3 DEF RequestInv

\* A step that leaves the handlers alone.
LEMMA WorldKeepsRequestInv ==
  ASSUME RequestInv, UNCHANGED call, now' \in Time,
         pr' \in PullRequest, Len(pr.reviews) <= Len(pr'.reviews), Len(pr'.reviews) <= MaxReviews,
         log' \in Seq(Row), Len(log') = Len(log), DOMAIN log' = DOMAIN log
  PROVE  RequestInv'
<1>1. TypeOK'
  BY DEF RequestInv, TypeOK, PullRequest
<1>2. Fresh'
  BY DEF RequestInv, Fresh
<1>3. MarksInBounds'
  <2>1. Len(pr.reviews) \in Nat /\ Len(pr'.reviews) \in Nat
    BY PullRequestType DEF RequestInv, PullRequest
  <2>2. \A c \in Callers : call[c].mark \in Nat
    BY CallType DEF RequestInv
  <2>3. ASSUME NEW c \in Requesters, call'[c].pc \in {"latest", "insert"}
        PROVE  call'[c].mark <= Len(pr'.reviews)
    <3>1. call[c].mark \in Nat /\ call[c].mark <= Len(pr.reviews) /\ call'[c].mark = call[c].mark
      BY <2>2, <2>3 DEF RequestInv, MarksInBounds, Callers
    <3> QED BY <2>1, <3>1
  <2>4. \A c \in Observers : /\ call'[c].mark <= Len(log')
                             /\ call'[c].pc = "settle" => call'[c].entry \in DOMAIN log'
    BY DEF RequestInv, MarksInBounds, At
  <2> QED BY <2>3, <2>4 DEF MarksInBounds, At
<1> QED BY <1>1, <1>2, <1>3 DEF RequestInv

LEMMA ReturnsKeepsRequestInv ==
  ASSUME RequestInv, NEW c \in Callers, Returns(c), UNCHANGED <<now, pr, log>>
  PROVE  RequestInv'
<1>1. /\ Others(c) /\ call'[c].pc = "idle" /\ call'[c].data.review = Nil /\ call'[c].mark = 0
  BY ReturnsEffect DEF RequestInv
<1>2. Len(log) \in Nat
  BY DEF RequestInv, TypeOK
<1> QED BY <1>1, <1>2, HandlerKeepsRequestInv

LEMMA CallersAreApart == Requesters \intersect Observers = {} /\ Callers = Requesters \union Observers
BY Parameters DEF Callers

LEMMA ReadStepKeepsRequestInv ==
  ASSUME RequestInv, NEW c \in Callers, ReadStep(c) \/ Fails(c)
  PROVE  RequestInv'
<1>1. TypeOK /\ (c \in Observers => call[c].mark <= Len(log))
  BY DEF RequestInv, MarksInBounds
<1>2. CASE ReadReviewers(c)
  <2>1. call[c].data.review = Nil
    BY <1>2 DEF ReadReviewers, At, RequestInv, Fresh
  <2>2. /\ Others(c) /\ UNCHANGED <<now, pr, log>> /\ call'[c].pc = "reviews"
        /\ call'[c].data.review = Nil /\ call'[c].mark = call[c].mark
    BY <1>1, <1>2, <2>1, ReadReviewersEffect DEF ReadReviewers
  <2> QED BY <1>1, <2>2, HandlerKeepsRequestInv
<1>3. CASE ReadReviews(c)
  <2>1. UNCHANGED <<now, pr, log>>
    BY <1>3 DEF ReadReviews
  <2>2. /\ Others(c) /\ call'[c].pc \in {"timeline", "decide"} /\ call'[c].mark = call[c].mark
    BY <1>1, <1>3, ReadReviewsEffect
  <2> QED BY <1>1, <2>1, <2>2, HandlerKeepsRequestInv
<1>4. CASE RateLow(c)
  <2>1. "decide" \in CallPc
    BY DEF CallPc
  <2>2. /\ Others(c) /\ UNCHANGED <<now, pr, log>>
        /\ call'[c].pc = "decide" /\ call'[c].mark = call[c].mark
    BY <1>1, <1>4, <2>1, GoToEffect DEF RateLow
  <2> QED BY <1>1, <2>2, HandlerKeepsRequestInv
<1>5. CASE ReadTimeline(c)
  <2>1. UNCHANGED <<now, pr, log>>
    BY <1>5 DEF ReadTimeline
  <2>2. /\ Others(c) /\ call'[c].pc = "decide" /\ call'[c].mark = call[c].mark
    BY <1>1, <1>5, ReadTimelineEffect
  <2> QED BY <1>1, <2>1, <2>2, HandlerKeepsRequestInv
<1>6. CASE TimelineFails(c)
  <2>1. "decide" \in CallPc
    BY DEF CallPc
  <2>2. /\ Others(c) /\ UNCHANGED <<now, pr, log>>
        /\ call'[c].pc = "decide" /\ call'[c].mark = call[c].mark
    BY <1>1, <1>6, <2>1, GoToEffect DEF TimelineFails
  <2> QED BY <1>1, <2>2, HandlerKeepsRequestInv
<1>7. CASE Fails(c)
  BY <1>7, ReturnsKeepsRequestInv DEF Fails
<1> QED BY <1>2, <1>3, <1>4, <1>5, <1>6, <1>7 DEF ReadStep

\* A step of the handler c that changes GitHub's side or the rows.
LEMMA WriterKeepsRequestInv ==
  ASSUME RequestInv, NEW c \in Callers, Others(c), UNCHANGED now,
         pr' \in PullRequest, pr'.reviews = pr.reviews,
         log' \in Seq(Row), Len(log) <= Len(log'), Len(log') <= MaxRows,
         DOMAIN log \subseteq DOMAIN log',
         call'[c].pc # "settle",
         call'[c].pc \in {"idle", "reviewers", "reviews"} => call'[c].data.review = Nil,
         c \in Requesters /\ call'[c].pc \in {"latest", "insert"} =>
           call'[c].mark <= Len(pr.reviews),
         c \in Observers => call'[c].mark <= Len(log)
  PROVE  RequestInv'
<1>1. TypeOK'
  BY DEF RequestInv, TypeOK, Others, Call, PullRequest
<1>2. Fresh'
  BY DEF RequestInv, Fresh, Others
<1>3. MarksInBounds'
  <2>1. Len(log) \in Nat /\ Len(log') \in Nat
    BY DEF RequestInv, TypeOK
  <2>2. \A b \in Callers : call[b].mark \in Nat /\ call'[b].mark \in Nat
    BY CallType DEF RequestInv, Others, Call
  <2>3. ASSUME NEW b \in Requesters, call'[b].pc \in {"latest", "insert"}
        PROVE  call'[b].mark <= Len(pr'.reviews)
    BY <2>3 DEF RequestInv, MarksInBounds, Callers, Others
  <2>4. ASSUME NEW b \in Observers
        PROVE  /\ call'[b].mark <= Len(log')
               /\ call'[b].pc = "settle" => call'[b].entry \in DOMAIN log'
    <3>1. b \in Callers
      BY DEF Callers
    <3>2. call'[b].mark <= Len(log)
      BY <3>1 DEF RequestInv, MarksInBounds, Others
    <3>3. call'[b].pc = "settle" => call'[b].entry \in DOMAIN log
      BY <3>1 DEF RequestInv, MarksInBounds, Others, At
    <3> QED BY <2>1, <2>2, <3>1, <3>2, <3>3
  <2> QED BY <2>3, <2>4 DEF MarksInBounds, At
<1> QED BY <1>1, <1>2, <1>3 DEF RequestInv

LEMMA RequestStepKeepsRequestInv ==
  ASSUME RequestInv, NEW c \in Requesters, RequestStep(c)
  PROVE  RequestInv'
<1>1. TypeOK /\ c \in Callers /\ c \notin Observers /\ Len(pr.reviews) \in Nat
  BY CallersAreApart, PullRequestType DEF RequestInv
<1>2. CASE RequestCall(c)
  <2>1. call[c].data.review = Nil /\ 0 \in Nat /\ 0 \in 0..MaxReviews
    BY <1>1, <1>2, Parameters DEF RequestCall, At, RequestInv, Fresh
  <2>2. /\ Others(c) /\ call'[c].pc = "reviewers" /\ call'[c].data = call[c].data
    BY <1>1, <1>2, <2>1, BeginsEffect DEF RequestCall
  <2> QED BY <1>1, <1>2, <2>1, <2>2, HandlerKeepsRequestInv DEF RequestCall
<1>3. CASE Refuse(c)
  BY <1>1, <1>3, ReturnsKeepsRequestInv DEF Refuse
<1>4. CASE RequestCopilotReview(c)
  <2>1. pr' \in PullRequest /\ pr'.reviews = pr.reviews
    BY <1>1, <1>4, ListedEffect DEF RequestCopilotReview
  <2>2. log \in Seq(Row) /\ Len(log) <= MaxRows /\ Len(log) \in Nat /\ UNCHANGED <<now, log>>
    BY <1>1, <1>4 DEF TypeOK, RequestCopilotReview
  <2>3. Others(c) /\ call'[c].pc \in {"latest", "insert"} /\ call'[c].mark = Len(pr.reviews)
    BY <1>1, <1>4, MutationEffect
  <2> QED BY <1>1, <2>1, <2>2, <2>3, WriterKeepsRequestInv
<1>5. CASE ReadLatest(c)
  <2>1. call[c].mark <= Len(pr.reviews)
    BY <1>5 DEF RequestInv, MarksInBounds, ReadLatest, At
  <2> QED BY <1>1, <1>5, <2>1, LatestEffect, HandlerKeepsRequestInv DEF ReadLatest
<1>6. CASE RecordTrigger(c)
  <2>1. /\ Len(log') = Len(log) + 1 /\ log' \in Seq(Row) /\ Len(log') <= MaxRows
        /\ DOMAIN log' = 1..(Len(log) + 1)
    BY <1>1, <1>6, InsertEffect DEF RequestInv
  <2>2. Len(log) \in Nat /\ DOMAIN log = 1..Len(log) /\ pr \in PullRequest
    BY <1>1, PullRequestType DEF TypeOK
  <2>3. Others(c) /\ call'[c].pc = "idle" /\ call'[c].data.review = Nil
    BY <1>1, <1>6, ReturnsEffect DEF RecordTrigger
  <2>4. UNCHANGED <<now, pr>> /\ DOMAIN log \subseteq DOMAIN log' /\ Len(log) <= Len(log')
    BY <1>6, <2>1, <2>2 DEF RecordTrigger
  <2> QED BY <1>1, <2>1, <2>2, <2>3, <2>4, WriterKeepsRequestInv
<1> QED BY <1>2, <1>3, <1>4, <1>5, <1>6 DEF RequestStep

LEMMA StatusStepKeepsRequestInv ==
  ASSUME RequestInv, NEW c \in Observers, StatusStep(c)
  PROVE  RequestInv'
<1>1. TypeOK /\ c \in Callers /\ c \notin Requesters /\ Len(log) \in Nat
  BY CallersAreApart DEF RequestInv, TypeOK
<1>2. CASE StatusCall(c)
  <2>1. call[c].data.review = Nil /\ Len(pr.reviews) \in 0..MaxReviews
    BY <1>1, <1>2, PullRequestType, Parameters DEF StatusCall, At, RequestInv, Fresh
  <2>2. /\ Others(c) /\ call'[c].pc = "reviewers" /\ call'[c].data = call[c].data
        /\ call'[c].mark = Len(log)
    BY <1>1, <1>2, <2>1, BeginsEffect DEF StatusCall
  <2> QED BY <1>1, <1>2, <2>1, <2>2, HandlerKeepsRequestInv DEF StatusCall
<1>3. CASE Derive(c)
  <2>1. call[c].mark <= Len(log) /\ 0 <= Len(log)
    BY <1>1 DEF RequestInv, MarksInBounds
  <2>2. /\ Others(c) /\ UNCHANGED <<now, pr, log>>
        /\ \/ call'[c].pc = "idle" /\ call'[c].data.review = Nil /\ call'[c].mark = 0
           \/ /\ call'[c].pc = "settle" /\ call'[c].mark = call[c].mark
              /\ call'[c].entry \in DOMAIN log
    BY <1>1, <1>3, DeriveEffect DEF Derive, Owes
  <2> QED BY <1>1, <2>1, <2>2, HandlerKeepsRequestInv
<1>4. CASE Settle(c)
  <2>1. call[c].entry \in DOMAIN log
    BY <1>4 DEF Settle, RequestInv, MarksInBounds
  <2>2. log' \in Seq(Row) /\ Len(log') = Len(log) /\ DOMAIN log' = DOMAIN log
    BY <1>1, <1>4, <2>1, CompletedEffect DEF Settle
  <2>3. Others(c) /\ call'[c].pc = "idle" /\ call'[c].data.review = Nil /\ call'[c].mark = 0
    BY <1>1, <1>4, ReturnsEffect DEF Settle
  <2>4. UNCHANGED <<now, pr>> /\ pr \in PullRequest /\ Len(log) <= MaxRows /\ Len(log) <= Len(log')
    BY <1>1, <1>4, <2>2, PullRequestType DEF Settle, TypeOK
  <2> QED BY <1>1, <2>2, <2>3, <2>4, WriterKeepsRequestInv
<1> QED BY <1>2, <1>3, <1>4 DEF StatusStep

LEMMA CancelKeepsRequestInv ==
  ASSUME RequestInv, NEW i \in DOMAIN log, CancelWatch(i)
  PROVE  RequestInv'
<1>1. TypeOK
  BY DEF RequestInv
<1>2. log' \in Seq(Row) /\ Len(log') = Len(log) /\ DOMAIN log' = DOMAIN log
  BY <1>1, CompletedEffect DEF CancelWatch
<1>3. /\ UNCHANGED call /\ pr' \in PullRequest /\ Len(pr.reviews) <= Len(pr'.reviews)
      /\ Len(pr'.reviews) <= MaxReviews /\ now' \in Time
  BY <1>1, PullRequestType DEF CancelWatch
<1> QED BY <1>2, <1>3, WorldKeepsRequestInv

LEMMA GitHubKeepsRequestInv ==
  ASSUME RequestInv, GitHub
  PROVE  RequestInv'
<1>1. TypeOK /\ Len(pr.reviews) \in Nat /\ Len(pr.reviews) <= MaxReviews
      /\ pr \in PullRequest /\ now \in Time /\ log \in Seq(Row)
  BY PullRequestType DEF RequestInv, TypeOK
<1>2. CASE Tick
  <2>1. now' \in Time
    BY <1>1, <1>2, Parameters DEF Tick, Time
  <2> QED BY <1>1, <1>2, <2>1, WorldKeepsRequestInv DEF Tick
<1>3. CASE AutomaticRequest
  BY <1>1, <1>3, ListedEffect, WorldKeepsRequestInv DEF AutomaticRequest
<1>4. CASE StartWork
  <2>1. UNCHANGED <<now, log, call>>
    BY <1>4 DEF StartWork
  <2> QED BY <1>1, <1>4, <2>1, StartEffect, WorldKeepsRequestInv
<1>5. CASE Withdraw
  <2>1. UNCHANGED <<now, log, call>>
    BY <1>5 DEF Withdraw
  <2> QED BY <1>1, <1>5, <2>1, WithdrawEffect, WorldKeepsRequestInv
<1>6. ASSUME NEW state \in States, SubmitReview(state)
      PROVE  RequestInv'
  <2>1. UNCHANGED <<now, log, call>>
    BY <1>6 DEF SubmitReview
  <2>2. pr' \in PullRequest /\ Len(pr'.reviews) = Len(pr.reviews) + 1
        /\ Len(pr'.reviews) <= MaxReviews
    BY <1>1, <1>6, SubmitEffect
  <2> QED BY <1>1, <2>1, <2>2, WorldKeepsRequestInv
<1> QED BY <1>2, <1>3, <1>4, <1>5, <1>6 DEF GitHub

LEMMA InitRequestInv == Init => RequestInv
<1> SUFFICES ASSUME Init PROVE RequestInv
  OBVIOUS
<1>1. /\ 1 \in Time /\ <<>> \in Seq(Reviews) /\ <<>> \in Seq(Row)
      /\ Len(<<>>) <= MaxReviews /\ Len(<<>>) <= MaxRows
  BY Parameters DEF Time
<1>2. call \in [Callers -> Call] /\ \A c \in Callers : call[c] = Idle
  BY IdleType DEF Init
<1>3. TypeOK
  BY <1>1, <1>2 DEF Init, TypeOK, Call
<1>4. Fresh /\ MarksInBounds
  BY <1>2, IdleType DEF Fresh, MarksInBounds, At, Callers, Init
<1> QED BY <1>3, <1>4 DEF RequestInv

LEMMA RequestInvIsInductive ==
  ASSUME RequestInv, [Next]_vars
  PROVE  RequestInv'
<1>1. CASE UNCHANGED vars
  BY <1>1 DEF vars, RequestInv, TypeOK, Fresh, MarksInBounds, At
<1>2. CASE Next
  BY <1>2, RequestStepKeepsRequestInv, StatusStepKeepsRequestInv, ReadStepKeepsRequestInv,
     CancelKeepsRequestInv, GitHubKeepsRequestInv DEF Next
<1> QED BY <1>1, <1>2

\* Every reachable state is well formed: rows, reviews and handlers stay in their
\* sets, whatever the handlers read between two writes of others.
THEOREM TypeCorrect == Spec => []TypeOK
<1>1. RequestInv => TypeOK
  BY DEF RequestInv
<1> QED BY <1>1, InitRequestInv, RequestInvIsInductive, PTL DEF Spec

(***************************************************************************)
(* One caller moves at a time.                                             *)
(***************************************************************************)
\* A step that reads, or the end of a handler, is that of a handler that runs.
LEMMA ReadStepMoves ==
  ASSUME TypeOK, NEW c \in Callers, ReadStep(c) \/ Fails(c)
  PROVE  /\ Others(c) /\ ~At(c, "idle") /\ UNCHANGED log
         /\ ReadStep(c) => /\ call'[c].pc \in {"reviews", "timeline", "decide"}
                           /\ call'[c].mark = call[c].mark
         /\ Fails(c) => call'[c].pc = "idle"
<1>1. "decide" \in CallPc
  BY DEF CallPc
<1>2. ~At(c, "idle") /\ UNCHANGED log
  BY DEF ReadStep, ReadReviewers, ReadReviews, RateLow, ReadTimeline, TimelineFails, Fails, At
<1>3. ASSUME ReadStep(c)
      PROVE  /\ Others(c) /\ call'[c].pc \in {"reviews", "timeline", "decide"}
             /\ call'[c].mark = call[c].mark
  <2>1. CASE ReadReviewers(c)
    BY <2>1, ReadReviewersEffect
  <2>2. CASE ReadReviews(c)
    BY <2>2, ReadReviewsEffect
  <2>3. CASE ReadTimeline(c)
    BY <2>3, ReadTimelineEffect
  <2>4. CASE RateLow(c) \/ TimelineFails(c)
    <3>1. GoTo(c, "decide")
      BY <2>4 DEF RateLow, TimelineFails
    <3> QED BY <1>1, <3>1, GoToEffect
  <2> QED BY <1>3, <2>1, <2>2, <2>3, <2>4 DEF ReadStep
<1>4. ASSUME Fails(c)
      PROVE  Others(c) /\ call'[c].pc = "idle"
  <2>1. Returns(c)
    BY <1>4 DEF Fails
  <2> QED BY <2>1, ReturnsEffect
<1>5. ReadStep(c) => call[c].pc # "idle" /\ call'[c].pc # "idle"
  BY <1>2, <1>3 DEF At
<1> QED BY <1>2, <1>3, <1>4

LEMMA StatusStepMoves ==
  ASSUME TypeOK, NEW c \in Observers, StatusStep(c)
  PROVE  /\ Others(c)
         /\ StatusCall(c) => call'[c].pc = "reviewers" /\ call'[c].mark = Len(log)
         /\ Settle(c) => call'[c].pc = "idle"
<1>1. c \in Callers /\ Len(log) \in Nat /\ Len(pr.reviews) \in 0..MaxReviews
  BY PullRequestType, Parameters DEF Callers, TypeOK
<1>2. StatusCall(c) => Begins(c, Len(log), Len(pr.reviews))
  BY DEF StatusCall
<1>3. Settle(c) => Returns(c)
  BY DEF Settle
<1> QED BY <1>1, <1>2, <1>3, BeginsEffect, DeriveEffect, ReturnsEffect DEF StatusStep

LEMMA RequestStepMoves ==
  ASSUME TypeOK, NEW c \in Requesters, RequestStep(c)
  PROVE  Others(c)
<1>1. c \in Callers /\ 0 \in Nat /\ 0 \in 0..MaxReviews
  BY Parameters DEF Callers
<1>2. \/ Begins(c, 0, 0) \/ Returns(c) \/ RequestCopilotReview(c) \/ ReadLatest(c)
  BY DEF RequestStep, RequestCall, Refuse, RecordTrigger
<1> QED BY <1>1, <1>2, BeginsEffect, ReturnsEffect, MutationEffect, LatestEffect

\* What a step makes of a handler: nothing, a step of its own, its end.
LEMMA CallerSteps ==
  ASSUME RequestInv, [Next]_vars, NEW c \in Callers
  PROVE  \/ call'[c] = call[c]
         \/ c \in Observers /\ StatusStep(c)
         \/ c \in Requesters /\ RequestStep(c)
         \/ ReadStep(c) \/ Fails(c)
<1>1. TypeOK /\ Requesters \subseteq Callers /\ Observers \subseteq Callers
  BY CallersAreApart DEF RequestInv
<1>2. CASE UNCHANGED call
  BY <1>2
<1>3. ASSUME NEW b \in Callers \ {c}, Others(b)
      PROVE  call'[c] = call[c]
  BY <1>1, <1>3 DEF Others
<1>4. (\E i \in DOMAIN log : CancelWatch(i)) \/ GitHub => UNCHANGED call
  BY Zenon DEF CancelWatch, GitHub, Tick, AutomaticRequest, StartWork, Withdraw, SubmitReview
<1>5. ASSUME NEW b \in Requesters, b # c, RequestStep(b)
      PROVE  call'[c] = call[c]
  BY <1>1, <1>3, <1>5, RequestStepMoves
<1>6. ASSUME NEW b \in Observers, b # c, StatusStep(b)
      PROVE  call'[c] = call[c]
  BY <1>1, <1>3, <1>6, StatusStepMoves
<1>7. ASSUME NEW b \in Callers, b # c, ReadStep(b) \/ Fails(b)
      PROVE  call'[c] = call[c]
  BY <1>1, <1>3, <1>7, ReadStepMoves
<1> QED BY <1>2, <1>4, <1>5, <1>6, <1>7 DEF Next, vars

(***************************************************************************)
(* Requests are duplicated by races only.                                  *)
(***************************************************************************)
Busy == {c \in Requesters : ~At(c, "idle")}

LEMMA BusyIsCounted ==
  /\ IsFiniteSet(Busy) /\ Cardinality(Busy) \in Nat
  /\ IsFiniteSet(Busy') /\ Cardinality(Busy') \in Nat
  /\ Cardinality(Requesters) \in Nat
<1>1. Busy \in SUBSET Requesters /\ Busy' \in SUBSET Requesters
  BY DEF Busy
<1> HIDE DEF Busy
<1>2. IsFiniteSet(Requesters)
  BY Parameters
<1>3. \A S \in SUBSET Requesters : IsFiniteSet(S)
  BY <1>2, FS_Subset
<1> QED BY <1>1, <1>2, <1>3, FS_CardinalityType

\* A step that records no row and lets no call of request_copilot_review begin.
LEMMA QuietKeepsRaces ==
  ASSUME TypeOK, DuplicatesAreRaces, log' \in Seq(Row), Len(log') = Len(log), DOMAIN log' = DOMAIN log,
         \A j \in DOMAIN log : ~log'[j].done => ~log[j].done,
         \A c \in Requesters : call'[c].pc # "idle" => call[c].pc # "idle"
  PROVE  DuplicatesAreRaces'
<1>1. Busy' \subseteq Busy
  BY DEF Busy, At
<1>2. Cardinality(Busy') <= Cardinality(Busy)
  <2> HIDE DEF Busy
  <2> QED BY <1>1, BusyIsCounted, FS_Subset
<1>3. \A i \in DOMAIN log : i \in Int /\ Len(log) \in Int
  BY RowType DEF TypeOK
<1>4. \A i \in DOMAIN log : ~log[i].done =>
        Len(log) - i + Cardinality(Busy) < Cardinality(Requesters)
  BY DEF DuplicatesAreRaces, Busy
<1>5. \A i \in DOMAIN log : ~log'[i].done =>
        Len(log) - i + Cardinality(Busy') < Cardinality(Requesters)
  <2> HIDE DEF Busy
  <2> QED BY <1>2, <1>3, <1>4, BusyIsCounted
<1> QED BY <1>5 DEF DuplicatesAreRaces, Busy

\* A step of the handler c that leaves the rows alone and does not begin.
LEMMA HandlerKeepsRaces ==
  ASSUME TypeOK, DuplicatesAreRaces, NEW c \in Callers, Others(c), UNCHANGED log,
         c \in Requesters => (call'[c].pc # "idle" => call[c].pc # "idle")
  PROVE  DuplicatesAreRaces'
<1>1. \A b \in Requesters : call'[b].pc # "idle" => call[b].pc # "idle"
  BY DEF Others, Callers
<1>2. log' \in Seq(Row) /\ Len(log') = Len(log) /\ DOMAIN log' = DOMAIN log
      /\ \A j \in DOMAIN log : ~log'[j].done => ~log[j].done
  BY DEF TypeOK
<1> QED BY <1>1, <1>2, QuietKeepsRaces

LEMMA ReadStepKeepsRaces ==
  ASSUME TypeOK, DuplicatesAreRaces, NEW c \in Callers, ReadStep(c) \/ Fails(c)
  PROVE  DuplicatesAreRaces'
<1>1. Others(c) /\ UNCHANGED log /\ call[c].pc # "idle"
  BY ReadStepMoves DEF At
<1> QED BY <1>1, HandlerKeepsRaces

\* The row a caller records is one more behind each pending row; the caller is one
\* less that may still record one.
LEMMA RecordKeepsRaces ==
  ASSUME TypeOK, MarksInBounds, DuplicatesAreRaces, NEW c \in Requesters, RecordTrigger(c)
  PROVE  DuplicatesAreRaces'
<1>1. c \in Callers /\ Len(log) \in Nat /\ DOMAIN log = 1..Len(log)
  BY DEF Callers, TypeOK
<1>2. Len(log') = Len(log) + 1 /\ DOMAIN log' = 1..(Len(log) + 1)
      /\ \A i \in DOMAIN log : log'[i] = log[i]
  BY <1>1, InsertEffect
<1>3. call'[c].pc = "idle" /\ \A b \in Requesters \ {c} : call'[b] = call[b]
  BY <1>1, ReturnsEffect DEF RecordTrigger, Others, Callers
<1>4. c \in Busy /\ Busy' = Busy \ {c}
  BY <1>3 DEF Busy, At, RecordTrigger
<1>5. Cardinality(Busy') = Cardinality(Busy) - 1
  <2> HIDE DEF Busy
  <2> QED BY <1>4, BusyIsCounted, FS_RemoveElement
<1>6. Cardinality(Busy) <= Cardinality(Requesters)
  <2>1. Busy \in SUBSET Requesters
    BY DEF Busy
  <2> HIDE DEF Busy
  <2> QED BY <2>1, Parameters, FS_Subset
<1>7. \A i \in DOMAIN log : ~log[i].done =>
        Len(log) - i + Cardinality(Busy) < Cardinality(Requesters)
  BY DEF DuplicatesAreRaces, Busy
<1>8. ASSUME NEW i \in DOMAIN log', ~log'[i].done
      PROVE  Len(log') - i + Cardinality(Busy') < Cardinality(Requesters)
  <2> HIDE DEF Busy
  <2>1. CASE i \in DOMAIN log
    <3>1. Len(log) - i + Cardinality(Busy) < Cardinality(Requesters) /\ i \in Int
      BY <1>1, <1>2, <1>7, <1>8, <2>1
    <3> QED BY <1>1, <1>2, <1>5, <3>1, BusyIsCounted
  <2>2. CASE i = Len(log) + 1
    BY <1>1, <1>2, <1>5, <1>6, <2>2, BusyIsCounted
  <2>3. i \in DOMAIN log \/ i = Len(log) + 1
    BY <1>1, <1>2
  <2> QED BY <2>1, <2>2, <2>3
<1> QED BY <1>8 DEF DuplicatesAreRaces, Busy

LEMMA RequestStepKeepsRaces ==
  ASSUME TypeOK, MarksInBounds, DuplicatesAreRaces, NEW c \in Requesters, RequestStep(c)
  PROVE  DuplicatesAreRaces'
<1>1. c \in Callers
  BY DEF Callers
<1>2. CASE RequestCall(c)
  <2>1. \A i \in DOMAIN log : log'[i].done
    BY <1>2 DEF RequestCall, HasPending
  <2>2. UNCHANGED log
    BY <1>2 DEF RequestCall
  <2> QED BY <2>1, <2>2 DEF DuplicatesAreRaces
<1>3. CASE Refuse(c)
  <2>1. UNCHANGED log /\ Returns(c)
    BY <1>3 DEF Refuse
  <2> QED BY <1>1, <2>1, ReturnsEffect, HandlerKeepsRaces
<1>4. CASE RequestCopilotReview(c)
  <2>1. UNCHANGED log /\ call[c].pc # "idle"
    BY <1>4 DEF RequestCopilotReview, At
  <2> QED BY <1>1, <1>4, <2>1, MutationEffect, HandlerKeepsRaces
<1>5. CASE ReadLatest(c)
  <2>1. UNCHANGED log /\ call[c].pc # "idle"
    BY <1>5 DEF ReadLatest, At
  <2> QED BY <1>1, <1>5, <2>1, LatestEffect, HandlerKeepsRaces
<1> QED BY <1>2, <1>3, <1>4, <1>5, RecordKeepsRaces DEF RequestStep

LEMMA StatusStepKeepsRaces ==
  ASSUME TypeOK, MarksInBounds, DuplicatesAreRaces, NEW c \in Observers, StatusStep(c)
  PROVE  DuplicatesAreRaces'
<1>1. c \in Callers /\ c \notin Requesters
  BY CallersAreApart
<1>2. CASE StatusCall(c) \/ Derive(c)
  <2>1. UNCHANGED log /\ Others(c)
    BY <1>2, StatusStepMoves DEF StatusCall, Derive
  <2> QED BY <1>1, <2>1, HandlerKeepsRaces
<1>3. CASE Settle(c)
  <2>1. call[c].entry \in DOMAIN log
    BY <1>3 DEF Settle, MarksInBounds
  <2>2. log' \in Seq(Row) /\ Len(log') = Len(log) /\ DOMAIN log' = DOMAIN log
        /\ \A j \in DOMAIN log : ~log'[j].done => ~log[j].done
    BY <1>3, <2>1, CompletedEffect DEF Settle
  <2>3. Others(c)
    BY <1>1, <1>3, ReturnsEffect DEF Settle
  <2>4. \A b \in Requesters : call'[b] = call[b]
    BY <1>1, <2>3 DEF Others, Callers
  <2> QED BY <2>2, <2>4, QuietKeepsRaces
<1> QED BY <1>2, <1>3 DEF StatusStep

LEMMA RacesIsInductive ==
  ASSUME RequestInv, DuplicatesAreRaces, [Next]_vars
  PROVE  DuplicatesAreRaces'
<1>1. TypeOK /\ MarksInBounds
  BY DEF RequestInv
<1>2. CASE UNCHANGED <<log, call>>
  BY <1>2 DEF DuplicatesAreRaces, At
<1>3. ASSUME NEW i \in DOMAIN log, CancelWatch(i)
      PROVE  DuplicatesAreRaces'
  <2>1. /\ log' \in Seq(Row) /\ Len(log') = Len(log) /\ DOMAIN log' = DOMAIN log
        /\ \A j \in DOMAIN log : ~log'[j].done => ~log[j].done
    BY <1>1, <1>3, CompletedEffect DEF CancelWatch
  <2>2. UNCHANGED call
    BY <1>3 DEF CancelWatch
  <2> QED BY <1>1, <2>1, <2>2, QuietKeepsRaces
<1>4. GitHub => UNCHANGED <<log, call>>
  BY Zenon DEF GitHub, Tick, AutomaticRequest, StartWork, Withdraw, SubmitReview
<1>5. CASE Next
  BY <1>1, <1>2, <1>3, <1>4, <1>5, RequestStepKeepsRaces, StatusStepKeepsRaces,
     ReadStepKeepsRaces DEF Next
<1> QED BY <1>2, <1>5 DEF vars

LEMMA InitRaces == Init => DuplicatesAreRaces
<1> SUFFICES ASSUME Init PROVE DuplicatesAreRaces
  OBVIOUS
<1>1. log = <<>>
  BY DEF Init
<1> QED BY <1>1 DEF DuplicatesAreRaces

\* However many callers of request_copilot_review look for a pending row at the
\* same time, each puts at most one row behind one that is pending, and only if it
\* looked before that one was there: HasPending does not make the request one at a
\* time, it bounds the duplicates by the callers.
THEOREM DuplicatesAreBounded == Spec => []DuplicatesAreRaces
<1>1. RequestInv /\ DuplicatesAreRaces /\ [Next]_vars => (RequestInv /\ DuplicatesAreRaces)'
  BY RequestInvIsInductive, RacesIsInductive
<1>2. Init => RequestInv /\ DuplicatesAreRaces
  BY InitRequestInv, InitRaces
<1> QED BY <1>1, <1>2, PTL DEF Spec

(***************************************************************************)
(* The order of requests and reviews, and what the handlers know of it.    *)
(***************************************************************************)
\* Reviews are numbered as they come, one after the other in time.
ReviewsInOrder ==
  /\ \A k \in DOMAIN pr.reviews : pr.reviews[k].id = k /\ pr.reviews[k].at <= now
  /\ \A j, k \in DOMAIN pr.reviews : j < k => pr.reviews[j].at < pr.reviews[k].at

\* No review and no work without a request; a request under way came after all
\* reviews.
RequestIsCurrent ==
  /\ pr.listed \/ pr.reviews # <<>> \/ pr.startedAt # Nil => pr.requestedAt # Nil
  /\ pr.requestedAt # Nil => pr.requestedAt <= now
  /\ pr.startedAt # Nil => pr.startedAt <= now
  /\ pr.listed => \A k \in DOMAIN pr.reviews : pr.reviews[k].at <= pr.requestedAt

\* A row came after a request and the reviews before it; the review it names is
\* the last of them, or is one that passes for the answer.
RowKnows(i) ==
  /\ log[i].base <= Len(pr.reviews)
  /\ log[i].asked # Nil /\ pr.requestedAt # Nil /\ log[i].asked <= pr.requestedAt
  /\ log[i].base > 0 => pr.reviews[log[i].base].at <= log[i].asked
  /\ log[i].prev # Nil => /\ log[i].prev <= log[i].base
                          /\ log[i].prev = log[i].base \/ Blurred(i)

WorldInOrder == ReviewsInOrder /\ RequestIsCurrent /\ \A i \in DOMAIN log : RowKnows(i)

IsTimely(c) == ~At(c, "idle") => call[c].since <= now /\ now <= call[c].since + CallTime

\* The handler c need not have seen the review k: GitHub listed it late, or it
\* answers a request made since c began.
Unseen(c, k) ==
  \/ Lag > 0 /\ pr.reviews[k].at + Lag > call[c].since
  \/ pr.reviews[k].at >= call[c].since + ReviewTime

\* A requester that saw no request under way knows the last review it could see,
\* and names it in its row.
RequesterKnows(c) ==
  /\ call[c].pc \in {"reviews", "timeline", "decide"} /\ ~call[c].data.listed /\ pr.listed =>
       pr.requestedAt >= call[c].since
  /\ /\ call[c].pc \in {"timeline", "decide"} /\ ~call[c].data.listed
     /\ call[c].data.review # Nil
     => /\ call[c].data.review.id \in DOMAIN pr.reviews
        /\ \A k \in DOMAIN pr.reviews : k > call[c].data.review.id => Unseen(c, k)
  /\ call[c].pc \in {"latest", "insert"} =>
       /\ pr.requestedAt # Nil
       /\ call[c].mark > 0 => pr.reviews[call[c].mark].at <= pr.requestedAt
       /\ call[c].data.review # Nil =>
            /\ call[c].data.review.id <= call[c].mark
            /\ call[c].data.review.id = call[c].mark \/ Unseen(c, call[c].mark)

\* What an observer has not read it does not know.  The rows that were there when
\* it began came after the reviews that were there, and after their requests.
Unread(c) ==
  call[c].pc \in {"idle", "reviewers", "reviews", "timeline"} =>
    call[c].data.requestedAt = Nil /\ call[c].data.startedAt = Nil

RowsBefore(c) ==
  /\ call[c].seen <= Len(pr.reviews)
  /\ \A i \in DOMAIN log : i <= call[c].mark =>
       log[i].base <= call[c].seen /\ log[i].asked <= call[c].since

\* It knows of a request made before it began, of the reviews GitHub listed before
\* it began, and its timeline is no older than the rows that were there.
KnowsListed(c) ==
  /\ call[c].pc \in {"reviews", "timeline", "decide"} /\ pr.listed
  /\ pr.requestedAt < call[c].since
  => call[c].data.listed

KnowsReview(c) ==
  call[c].pc \in {"timeline", "decide"} =>
    /\ call[c].data.review # Nil =>
         /\ call[c].data.review.id \in DOMAIN pr.reviews
         /\ call[c].data.review = pr.reviews[call[c].data.review.id]
    /\ \A k \in 1..call[c].seen : pr.reviews[k].at + Lag <= call[c].since =>
         call[c].data.review # Nil /\ k <= call[c].data.review.id

KnowsTimeline(c) ==
  /\ call[c].data.requestedAt # Nil =>
       /\ pr.requestedAt # Nil /\ call[c].data.requestedAt <= pr.requestedAt
       /\ pr.requestedAt < call[c].since => call[c].data.requestedAt = pr.requestedAt
       /\ \A i \in DOMAIN log : i <= call[c].mark => log[i].asked <= call[c].data.requestedAt
  /\ call[c].data.startedAt # Nil =>
       /\ call[c].data.requestedAt # Nil
       /\ pr.startedAt # Nil /\ call[c].data.startedAt <= pr.startedAt

ObserverKnows(c) ==
  Unread(c) /\ RowsBefore(c) /\ KnowsListed(c) /\ KnowsReview(c) /\ KnowsTimeline(c)

SettlesAnswer(c) ==
  At(c, "settle") /\ call[c].entry <= call[c].mark =>
    Len(pr.reviews) > log[call[c].entry].base \/ Blurred(call[c].entry)

Knows(c) == /\ IsTimely(c)
            /\ c \in Requesters => RequesterKnows(c)
            /\ c \in Observers => ObserverKnows(c) /\ SettlesAnswer(c)

OrderInv == RequestInv /\ WorldInOrder /\ \A c \in Callers : Knows(c)

(***************************************************************************)
(* What any step makes of GitHub's side and of the rows.                   *)
(***************************************************************************)
TimeMoves ==
  \/ now' = now
  \/ now' = now + 1 /\ \A c \in Callers : At(c, "idle") \/ now < call[c].since + CallTime

\* Copilot is asked anew at this time, or is not asked anew.
RequestMoves ==
  /\ \/ pr'.requestedAt = pr.requestedAt /\ (pr'.listed => pr.listed)
     \/ pr'.requestedAt = now /\ pr'.reviews = pr.reviews /\ now' = now
  /\ \/ pr'.startedAt = pr.startedAt
     \/ pr'.startedAt = now /\ now' = now /\ pr.requestedAt # Nil /\ pr'.requestedAt = pr.requestedAt

\* A review is one more, of the request under way, that took its time.
ReviewsMove ==
  \/ pr'.reviews = pr.reviews
  \/ /\ pr.listed /\ ~pr'.listed /\ now' = now /\ pr'.requestedAt = pr.requestedAt
     /\ now >= pr.requestedAt + ReviewTime
     /\ Len(pr'.reviews) = Len(pr.reviews) + 1
     /\ \A k \in DOMAIN pr.reviews : pr'.reviews[k] = pr.reviews[k]
     /\ pr'.reviews[Len(pr.reviews) + 1].id = Len(pr.reviews) + 1
     /\ pr'.reviews[Len(pr.reviews) + 1].at = now

SameRow(i) == /\ log'[i].at = log[i].at /\ log'[i].prev = log[i].prev
              /\ log'[i].base = log[i].base /\ log'[i].asked = log[i].asked

RowsMove ==
  /\ \A i \in DOMAIN log : i \in DOMAIN log' /\ SameRow(i)
  /\ \/ DOMAIN log' = DOMAIN log
     \/ /\ DOMAIN log' = 1..(Len(log) + 1)
        /\ \E c \in Requesters : RecordTrigger(c)

WorldMoves == TimeMoves /\ RequestMoves /\ ReviewsMove /\ RowsMove

LEMMA SameRows == UNCHANGED log => RowsMove
BY DEF RowsMove, SameRow

LEMMA SameRequest == UNCHANGED pr => RequestMoves /\ ReviewsMove
BY DEF RequestMoves, ReviewsMove

LEMMA RequestStepMovesWorld ==
  ASSUME RequestInv, WorldInOrder, NEW c \in Requesters, RequestStep(c)
  PROVE  WorldMoves
<1>1. TypeOK /\ MarksInBounds /\ c \in Callers
  BY DEF RequestInv, Callers
<1>2. CASE RequestCall(c) \/ Refuse(c) \/ ReadLatest(c)
  <2>1. UNCHANGED <<now, pr, log>>
    BY <1>2, Zenon DEF RequestCall, Refuse, ReadLatest
  <2> QED BY <2>1, SameRows, SameRequest DEF WorldMoves, TimeMoves
<1>3. CASE RequestCopilotReview(c)
  <2>1. UNCHANGED <<now, log>> /\ pr' = Listed(pr)
    BY <1>3, Zenon DEF RequestCopilotReview
  <2>2. RequestMoves /\ ReviewsMove
    BY <1>1, <2>1, ListedEffect DEF RequestMoves, ReviewsMove
  <2> QED BY <2>1, <2>2, SameRows DEF WorldMoves, TimeMoves
<1>4. CASE RecordTrigger(c)
  <2>1. UNCHANGED <<now, pr>>
    BY <1>4, Zenon DEF RecordTrigger
  <2>2. DOMAIN log' = 1..(Len(log) + 1) /\ \A i \in DOMAIN log : log'[i] = log[i]
    BY <1>1, <1>4, InsertEffect
  <2>3. \A i \in DOMAIN log : i \in 1..(Len(log) + 1)
    BY <1>1, RowType DEF TypeOK
  <2>4. RowsMove
    BY <1>4, <2>2, <2>3 DEF RowsMove, SameRow
  <2> QED BY <2>1, <2>4, SameRequest DEF WorldMoves, TimeMoves
<1> QED BY <1>2, <1>3, <1>4 DEF RequestStep

LEMMA CompletionMovesWorld ==
  ASSUME TypeOK, NEW i \in DOMAIN log, UpdateCompletedAt(i), UNCHANGED <<now, pr>>
  PROVE  WorldMoves
<1>1. RowsMove
  BY CompletedEffect DEF RowsMove, SameRow
<1> QED BY <1>1, SameRequest DEF WorldMoves, TimeMoves

LEMMA GitHubMovesWorld ==
  ASSUME TypeOK, WorldInOrder, GitHub
  PROVE  WorldMoves
<1>1. UNCHANGED log
  BY Zenon DEF GitHub, Tick, AutomaticRequest, StartWork, Withdraw, SubmitReview
<1>2. CASE Tick
  <2>1. UNCHANGED pr /\ TimeMoves
    BY <1>2 DEF Tick, TimeMoves
  <2> QED BY <1>1, <2>1, SameRows, SameRequest DEF WorldMoves
<1>3. ASSUME ~Tick, UNCHANGED now, RequestMoves, ReviewsMove
      PROVE  WorldMoves
  BY <1>1, <1>3, SameRows DEF WorldMoves, TimeMoves
<1>4. ~Tick => UNCHANGED now
  BY Zenon DEF GitHub, AutomaticRequest, StartWork, Withdraw, SubmitReview
<1>5. CASE AutomaticRequest
  <2>1. pr' = Listed(pr) /\ UNCHANGED now
    BY <1>5 DEF AutomaticRequest
  <2>2. RequestMoves /\ ReviewsMove
    BY <2>1, ListedEffect DEF RequestMoves, ReviewsMove
  <2> QED BY <1>1, <2>1, <2>2, SameRows DEF WorldMoves, TimeMoves
<1>6. CASE StartWork
  <2>1. UNCHANGED now /\ pr.listed /\ pr.requestedAt # Nil
    BY <1>6, Zenon DEF StartWork, WorldInOrder, RequestIsCurrent
  <2>2. RequestMoves /\ ReviewsMove
    BY <1>6, <2>1, StartEffect DEF RequestMoves, ReviewsMove
  <2> QED BY <1>1, <2>1, <2>2, SameRows DEF WorldMoves, TimeMoves
<1>7. CASE Withdraw
  <2>1. UNCHANGED now
    BY <1>7, Zenon DEF Withdraw
  <2>2. RequestMoves /\ ReviewsMove
    BY <1>7, WithdrawEffect DEF RequestMoves, ReviewsMove
  <2> QED BY <1>1, <2>1, <2>2, SameRows DEF WorldMoves, TimeMoves
<1>8. ASSUME NEW state \in States, SubmitReview(state)
      PROVE  WorldMoves
  <2>1. UNCHANGED now /\ pr.listed /\ now >= pr.requestedAt + ReviewTime
    BY <1>8, Zenon DEF SubmitReview
  <2>2. RequestMoves
    BY <1>8, SubmitEffect DEF RequestMoves
  <2>3. ReviewsMove
    BY <1>8, <2>1, SubmitEffect DEF ReviewsMove
  <2> QED BY <1>1, <2>1, <2>2, <2>3, SameRows DEF WorldMoves, TimeMoves
<1> QED BY <1>2, <1>5, <1>6, <1>7, <1>8 DEF GitHub

LEMMA NextMovesWorld ==
  ASSUME RequestInv, WorldInOrder, [Next]_vars
  PROVE  WorldMoves
<1>1. TypeOK /\ MarksInBounds
  BY DEF RequestInv
<1>2. CASE UNCHANGED <<now, pr, log>>
  BY <1>2, SameRows, SameRequest DEF WorldMoves, TimeMoves
<1>3. ASSUME NEW c \in Observers, StatusStep(c)
      PROVE  WorldMoves
  <2>1. CASE StatusCall(c) \/ Derive(c)
    <3>1. UNCHANGED <<now, pr, log>>
      BY <2>1, Zenon DEF StatusCall, Derive
    <3> QED BY <1>2, <3>1
  <2>2. CASE Settle(c)
    <3>1. call[c].entry \in DOMAIN log /\ UpdateCompletedAt(call[c].entry) /\ UNCHANGED <<now, pr>>
      BY <1>1, <2>2 DEF Settle, MarksInBounds
    <3> QED BY <1>1, <3>1, CompletionMovesWorld
  <2> QED BY <1>3, <2>1, <2>2 DEF StatusStep
<1>4. ASSUME NEW c \in Callers, ReadStep(c) \/ Fails(c)
      PROVE  WorldMoves
  <2>1. UNCHANGED <<now, pr, log>>
    BY <1>4, Zenon DEF ReadStep, ReadReviewers, ReadReviews, RateLow, ReadTimeline, TimelineFails, Fails
  <2> QED BY <1>2, <2>1
<1>5. ASSUME NEW i \in DOMAIN log, CancelWatch(i)
      PROVE  WorldMoves
  BY <1>1, <1>5, CompletionMovesWorld DEF CancelWatch
<1> QED BY <1>1, <1>2, <1>3, <1>4, <1>5, RequestStepMovesWorld, GitHubMovesWorld DEF Next, vars

(***************************************************************************)
(* The world keeps its order.                                              *)
(***************************************************************************)
LEMMA WorldNumbers ==
  ASSUME TypeOK
  PROVE  /\ now \in Int /\ Lag \in Int /\ Lag >= 0 /\ CallTime \in Int /\ CallTime >= 0
         /\ ReviewTime \in Int /\ ReviewTime > 0 /\ Len(pr.reviews) \in Nat
         /\ DOMAIN pr.reviews = 1..Len(pr.reviews)
         /\ \A k \in DOMAIN pr.reviews : pr.reviews[k].at \in Int
         /\ pr.requestedAt # Nil => pr.requestedAt \in Int
         /\ pr.startedAt # Nil => pr.startedAt \in Int
         /\ now # Nil
<1>1. \A k \in DOMAIN pr.reviews : pr.reviews[k].at \in Int
  BY PullRequestType, ReviewOf
<1>2. /\ pr.requestedAt # Nil => pr.requestedAt \in Int
      /\ pr.startedAt # Nil => pr.startedAt \in Int
  BY PullRequestType DEF Time
<1> QED BY <1>1, <1>2, PullRequestType, Parameters

LEMMA ReviewsStay ==
  ASSUME TypeOK, TypeOK', WorldMoves, NEW k \in DOMAIN pr.reviews
  PROVE  k \in DOMAIN pr'.reviews /\ pr'.reviews[k] = pr.reviews[k]
<1>1. k \in 1..Len(pr.reviews) /\ Len(pr.reviews) \in Nat
  BY WorldNumbers
<1>2. CASE pr'.reviews = pr.reviews
  BY <1>1, <1>2
<1>3. CASE Len(pr'.reviews) = Len(pr.reviews) + 1 /\ pr'.reviews[k] = pr.reviews[k]
  <2>1. DOMAIN pr'.reviews = 1..Len(pr'.reviews)
    BY DEF TypeOK
  <2> QED BY <1>1, <1>3, <2>1
<1> QED BY <1>2, <1>3 DEF WorldMoves, ReviewsMove

\* Whether a review passes for the answer to a row is settled when it is recorded.
LEMMA BlurredStays ==
  ASSUME TypeOK, TypeOK', WorldMoves, NEW i \in DOMAIN log, log[i].base <= Len(pr.reviews)
  PROVE  Blurred(i)' <=> Blurred(i)
<1>1. SameRow(i)
  BY DEF WorldMoves, RowsMove
<1>2. ASSUME log[i].base > 0
      PROVE  pr'.reviews[log[i].base] = pr.reviews[log[i].base]
  <2>1. log[i].base \in DOMAIN pr.reviews
    BY <1>2, RowType, WorldNumbers
  <2> QED BY <2>1, ReviewsStay
<1> QED BY <1>1, <1>2 DEF Blurred, SameRow

LEMMA ReviewsKeepOrder ==
  ASSUME TypeOK, TypeOK', WorldInOrder, WorldMoves
  PROVE  ReviewsInOrder' /\ RequestIsCurrent'
<1> DEFINE n == Len(pr.reviews)
<1>1. /\ now \in Int /\ n \in Nat /\ DOMAIN pr.reviews = 1..n /\ now # Nil
      /\ \A k \in 1..n : pr.reviews[k].at \in Int
      /\ pr.requestedAt # Nil => pr.requestedAt \in Int
      /\ pr.startedAt # Nil => pr.startedAt \in Int
      /\ ReviewTime \in Int /\ ReviewTime > 0
  BY WorldNumbers
<1>2. ReviewsInOrder /\ RequestIsCurrent
  BY DEF WorldInOrder
<1>3. now' \in Int /\ now <= now'
  BY <1>1 DEF WorldMoves, TimeMoves
<1>4. /\ pr.requestedAt # Nil => pr.requestedAt <= now'
      /\ pr.startedAt # Nil => pr.startedAt <= now'
      /\ \A k \in 1..n : pr.reviews[k].id = k /\ pr.reviews[k].at <= now'
      /\ \A j, k \in 1..n : j < k => pr.reviews[j].at < pr.reviews[k].at
  <2>1. /\ pr.requestedAt # Nil => pr.requestedAt <= now'
        /\ pr.startedAt # Nil => pr.startedAt <= now'
    BY <1>1, <1>2, <1>3 DEF RequestIsCurrent
  <2>2. ASSUME NEW k \in 1..n
        PROVE  pr.reviews[k].id = k /\ pr.reviews[k].at <= now'
    BY <1>1, <1>2, <1>3 DEF ReviewsInOrder
  <2>3. \A j, k \in 1..n : j < k => pr.reviews[j].at < pr.reviews[k].at
    BY <1>1, <1>2 DEF ReviewsInOrder
  <2> QED BY <2>1, <2>2, <2>3
<1>5. CASE pr'.reviews = pr.reviews
  <2>1. ReviewsInOrder'
    BY <1>1, <1>4, <1>5 DEF ReviewsInOrder
  <2>2. pr'.listed \/ pr'.reviews # <<>> \/ pr'.startedAt # Nil => pr'.requestedAt # Nil
    BY <1>1, <1>2, <1>5 DEF RequestIsCurrent, WorldMoves, RequestMoves
  <2>3. pr'.requestedAt # Nil => pr'.requestedAt <= now'
    BY <1>1, <1>3, <1>4 DEF WorldMoves, RequestMoves
  <2>4. pr'.startedAt # Nil => pr'.startedAt <= now'
    BY <1>1, <1>3, <1>4 DEF WorldMoves, RequestMoves
  <2>5. pr'.listed => \A k \in DOMAIN pr'.reviews : pr'.reviews[k].at <= pr'.requestedAt
    BY <1>1, <1>2, <1>5 DEF RequestIsCurrent, ReviewsInOrder, WorldMoves, RequestMoves
  <2> QED BY <2>1, <2>2, <2>3, <2>4, <2>5 DEF RequestIsCurrent
<1>6. CASE /\ pr.listed /\ ~pr'.listed /\ now' = now /\ pr'.requestedAt = pr.requestedAt
           /\ now >= pr.requestedAt + ReviewTime
           /\ Len(pr'.reviews) = n + 1
           /\ \A k \in DOMAIN pr.reviews : pr'.reviews[k] = pr.reviews[k]
           /\ pr'.reviews[n + 1].id = n + 1
           /\ pr'.reviews[n + 1].at = now
  <2>1. pr.requestedAt # Nil /\ pr.requestedAt \in Int
    BY <1>1, <1>2, <1>6 DEF RequestIsCurrent
  <2>2. \A k \in 1..n : pr.reviews[k].at < now
    <3>1. \A k \in 1..n : pr.reviews[k].at <= pr.requestedAt
      BY <1>1, <1>2, <1>6 DEF RequestIsCurrent
    <3> HIDE DEF n
    <3> QED BY <1>1, <1>6, <2>1, <3>1
  <2>3. DOMAIN pr'.reviews = 1..(n + 1)
    BY <1>6 DEF TypeOK
  <2> HIDE DEF n
  <2>4. \A k \in DOMAIN pr'.reviews : k \in 1..n \/ k = n + 1
    BY <1>1, <2>3
  <2>5. \A k \in DOMAIN pr'.reviews : pr'.reviews[k].id = k /\ pr'.reviews[k].at <= now'
    BY <1>1, <1>4, <1>6, <2>4
  <2>6. ASSUME NEW j \in DOMAIN pr'.reviews, NEW k \in DOMAIN pr'.reviews, j < k
        PROVE  pr'.reviews[j].at < pr'.reviews[k].at
    <3>1. j \in 1..n
      BY <1>1, <2>3, <2>6
    <3>2. CASE k \in 1..n
      BY <1>1, <1>4, <1>6, <2>6, <3>1, <3>2
    <3>3. CASE k = n + 1
      BY <1>1, <1>6, <2>2, <3>1, <3>3
    <3> QED BY <2>4, <3>2, <3>3
  <2>7. pr'.startedAt # Nil => pr'.startedAt <= now'
    BY <1>1, <1>3, <1>4, <1>6 DEF WorldMoves, RequestMoves
  <2> QED BY <1>4, <1>6, <2>1, <2>5, <2>6, <2>7 DEF ReviewsInOrder, RequestIsCurrent
<1> QED BY <1>5, <1>6 DEF WorldMoves, ReviewsMove

\* The row a handler records names the last review it could see.
LEMMA RecordedRowKnows ==
  ASSUME RequestInv, RequestInv', WorldInOrder, WorldMoves, NEW c \in Requesters, Knows(c),
         RecordTrigger(c), NEW j, j = Len(log) + 1
  PROVE  RowKnows(j)'
<1> DEFINE m == call[c].mark
           v == call[c].data.review
<1>1. TypeOK /\ TypeOK' /\ MarksInBounds /\ c \in Callers /\ call[c].pc = "insert"
      /\ pr' = pr /\ now' = now
  BY CallersAreApart DEF RequestInv, RecordTrigger, At
<1>2. /\ log'[j].base = m /\ log'[j].asked = pr.requestedAt
      /\ log'[j].prev # Nil => v # Nil /\ log'[j].prev = v.id
  BY <1>1, InsertEffect
<1>3. /\ call[c].since \in Int /\ m \in Nat /\ m <= Len(pr.reviews)
      /\ call[c].since <= now /\ now <= call[c].since + CallTime
      /\ pr.requestedAt # Nil /\ pr.requestedAt <= now
      /\ m > 0 => pr.reviews[m].at <= pr.requestedAt
      /\ v # Nil => v.id <= m /\ (v.id = m \/ Unseen(c, m))
      /\ v # Nil => v.id \in Int /\ v.id >= 1
  <2>1. call[c].since \in Int /\ m \in Nat /\ (v # Nil => v \in Reviews)
    BY <1>1, CallType, DataType
  <2>2. v # Nil => v.id \in Int /\ v.id >= 1
    BY <2>1 DEF Reviews, ReviewId
  <2>3. m <= Len(pr.reviews)
    BY <1>1 DEF MarksInBounds
  <2>4. call[c].since <= now /\ now <= call[c].since + CallTime
    BY <1>1 DEF Knows, IsTimely, At
  <2>5. RequesterKnows(c)
    BY DEF Knows
  <2>6. pr.requestedAt # Nil /\ pr.requestedAt <= now
    BY <1>1, <2>5 DEF RequesterKnows, WorldInOrder, RequestIsCurrent
  <2> QED BY <1>1, <2>1, <2>2, <2>3, <2>4, <2>5, <2>6, CallType DEF RequesterKnows
<1>4. ASSUME v # Nil, Unseen(c, m), m > 0
      PROVE  Blurred(j)'
  <2>1. m \in DOMAIN pr.reviews
    <3>1. DOMAIN pr.reviews = 1..Len(pr.reviews) /\ Len(pr.reviews) \in Nat
      BY <1>1, WorldNumbers
    <3>2. m \in Nat /\ m > 0 /\ m <= Len(pr.reviews)
      BY <1>3, <1>4
    <3> HIDE DEF m
    <3> QED BY <3>1, <3>2
  <2>2. /\ pr.reviews[m].at \in Int /\ Lag \in Int /\ CallTime \in Int /\ ReviewTime \in Int
        /\ pr.requestedAt \in Int /\ now \in Int
    BY <1>1, <1>3, <2>1, WorldNumbers
  <2>3. \/ Lag > 0 /\ pr.reviews[m].at + Lag + CallTime > pr.requestedAt
        \/ pr.reviews[m].at + CallTime >= pr.requestedAt + ReviewTime
    <3> DEFINE last == pr.reviews[m].at
               since == call[c].since
    <3>1. last \in Int /\ since \in Int /\ pr.requestedAt <= now /\ now <= since + CallTime
      BY <1>3, <2>2
    <3>2. (Lag > 0 /\ last + Lag > since) \/ last >= since + ReviewTime
      BY <1>4 DEF Unseen
    <3> HIDE DEF last, since
    <3>3. (Lag > 0 /\ last + Lag + CallTime > pr.requestedAt)
          \/ last + CallTime >= pr.requestedAt + ReviewTime
      BY <2>2, <3>1, <3>2
    <3> QED BY <3>3 DEF last
  <2> QED BY <1>1, <1>2, <1>4, <2>3 DEF Blurred
<1>5. v # Nil => m > 0
  BY <1>3
<1>6. Len(log)' = Len(log) + 1 /\ pr'.requestedAt <= pr'.requestedAt
  <2>1. pr.requestedAt \in Int
    BY <1>1, <1>3, WorldNumbers
  <2> QED BY <1>1, <2>1, InsertEffect
<1> HIDE DEF m, v
<1> QED BY <1>1, <1>2, <1>3, <1>4, <1>5, <1>6 DEF RowKnows

LEMMA RowsKeepOrder ==
  ASSUME RequestInv, RequestInv', WorldInOrder, WorldMoves, \A c \in Requesters : Knows(c)
  PROVE  \A i \in DOMAIN log' : RowKnows(i)'
<1>1. TypeOK /\ TypeOK'
  BY DEF RequestInv
<1>2. ASSUME NEW i \in DOMAIN log
      PROVE  RowKnows(i)'
  <2>1. RowKnows(i) /\ SameRow(i) /\ (Blurred(i)' <=> Blurred(i))
    BY <1>1, BlurredStays DEF WorldInOrder, RowKnows, WorldMoves, RowsMove
  <2>2. log[i].base \in Nat /\ Len(pr.reviews) \in Nat /\ Len(pr'.reviews) \in Nat
    BY <1>1, RowType DEF TypeOK
  <2>3. Len(pr.reviews) <= Len(pr'.reviews)
    BY <2>2 DEF WorldMoves, ReviewsMove
  <2>4. pr'.requestedAt # Nil /\ log[i].asked <= pr'.requestedAt
    <3>1. pr.requestedAt # Nil /\ pr.requestedAt \in Int /\ log[i].asked <= pr.requestedAt
          /\ log[i].asked \in Int /\ now \in Int /\ now # Nil /\ pr.requestedAt <= now
      BY <1>1, <2>1, RowType, WorldNumbers DEF RowKnows, WorldInOrder, RequestIsCurrent, Time
    <3> QED BY <3>1 DEF WorldMoves, RequestMoves
  <2>5. log[i].base > 0 => pr'.reviews[log[i].base].at <= log[i].asked
    <3>1. log[i].base > 0 => log[i].base \in DOMAIN pr.reviews
      BY <1>1, <2>1, <2>2, WorldNumbers DEF RowKnows
    <3> QED BY <1>1, <2>1, <3>1, ReviewsStay DEF RowKnows
  <2> QED BY <2>1, <2>2, <2>3, <2>4, <2>5 DEF RowKnows, SameRow
<1>3. CASE DOMAIN log' = DOMAIN log
  BY <1>2, <1>3
<1>4. ASSUME NEW c \in Requesters, RecordTrigger(c), DOMAIN log' = 1..(Len(log) + 1)
      PROVE  \A i \in DOMAIN log' : RowKnows(i)'
  <2>1. \A i \in DOMAIN log' : i \in DOMAIN log \/ i = Len(log) + 1
    BY <1>1, <1>4 DEF TypeOK
  <2> QED BY <1>2, <1>4, <2>1, RecordedRowKnows
<1> QED BY <1>3, <1>4 DEF WorldMoves, RowsMove

(***************************************************************************)
(* What a handler knows stays true while others act.                       *)
(***************************************************************************)
LEMMA TimelyStays ==
  ASSUME TypeOK, WorldMoves, NEW c \in Callers, IsTimely(c), call'[c] = call[c]
  PROVE  IsTimely(c)'
<1>1. call[c].since \in Int /\ now \in Int /\ CallTime \in Int
  BY CallType, WorldNumbers
<1> QED BY <1>1 DEF IsTimely, At, WorldMoves, TimeMoves

LEMMA RequesterStays ==
  ASSUME RequestInv, RequestInv', WorldInOrder, WorldMoves, NEW c \in Requesters, Knows(c),
         call'[c] = call[c]
  PROVE  RequesterKnows(c)'
<1> DEFINE x == call[c]
           v == x.data.review
<1>1. /\ TypeOK /\ TypeOK' /\ MarksInBounds /\ c \in Callers
      /\ RequesterKnows(c) /\ IsTimely(c)
  BY CallersAreApart DEF RequestInv, Knows
<1>2. /\ now \in Int /\ now # Nil /\ x.since \in Int /\ ReviewTime \in Int /\ Lag \in Int
      /\ x.mark \in Nat /\ Len(pr.reviews) \in Nat /\ DOMAIN pr.reviews = 1..Len(pr.reviews)
      /\ pr.requestedAt # Nil => pr.requestedAt \in Int /\ pr.requestedAt <= now
  BY <1>1, CallType, WorldNumbers DEF WorldInOrder, RequestIsCurrent
<1>3. x.pc # "idle" => x.since <= now
  BY <1>1 DEF IsTimely, At
<1>4. ASSUME x.pc \in {"reviews", "timeline", "decide"}, ~x.data.listed, pr'.listed
      PROVE  pr'.requestedAt >= x.since
  <2>1. CASE pr'.requestedAt = pr.requestedAt /\ pr.listed
    BY <1>1, <1>4, <2>1 DEF RequesterKnows
  <2>2. CASE pr'.requestedAt = now
    BY <1>2, <1>3, <1>4, <2>2
  <2> QED BY <1>4, <2>1, <2>2 DEF WorldMoves, RequestMoves
<1>5. ASSUME x.pc \in {"timeline", "decide"}, ~x.data.listed, v # Nil
      PROVE  /\ v.id \in DOMAIN pr'.reviews
             /\ \A k \in DOMAIN pr'.reviews : k > v.id => Unseen(c, k)'
  <2>1. /\ v.id \in DOMAIN pr.reviews
        /\ \A k \in DOMAIN pr.reviews : k > v.id => Unseen(c, k)
    BY <1>1, <1>5 DEF RequesterKnows
  <2>2. \A k \in DOMAIN pr.reviews : k > v.id => Unseen(c, k)'
    BY <1>1, <2>1, ReviewsStay DEF Unseen
  <2>3. ASSUME NEW k \in DOMAIN pr'.reviews, k \notin DOMAIN pr.reviews
        PROVE  pr'.reviews[k].at >= x.since + ReviewTime
    <3>1. /\ pr.listed /\ now >= pr.requestedAt + ReviewTime
          /\ Len(pr'.reviews) = Len(pr.reviews) + 1 /\ pr'.reviews[Len(pr.reviews) + 1].at = now
      BY <2>3 DEF WorldMoves, ReviewsMove
    <3>2. k = Len(pr.reviews) + 1
      <4>1. DOMAIN pr'.reviews = 1..Len(pr'.reviews)
        BY <1>1 DEF TypeOK
      <4> QED BY <1>2, <2>3, <3>1, <4>1
    <3>3. pr.requestedAt # Nil /\ pr.requestedAt >= x.since
      BY <1>1, <1>5, <3>1 DEF RequesterKnows, WorldInOrder, RequestIsCurrent
    <3>4. now >= x.since + ReviewTime
      <4> HIDE DEF x
      <4> QED BY <1>2, <3>1, <3>3
    <3> QED BY <3>1, <3>2, <3>4
  <2> QED BY <1>1, <2>1, <2>2, <2>3, ReviewsStay DEF Unseen
<1>6. ASSUME x.pc \in {"latest", "insert"}
      PROVE  /\ pr'.requestedAt # Nil
             /\ x.mark > 0 => pr'.reviews[x.mark].at <= pr'.requestedAt
             /\ v # Nil => v.id <= x.mark /\ (v.id = x.mark \/ Unseen(c, x.mark)')
  <2>1. /\ pr.requestedAt # Nil
        /\ x.mark > 0 => pr.reviews[x.mark].at <= pr.requestedAt
        /\ v # Nil => v.id <= x.mark /\ (v.id = x.mark \/ Unseen(c, x.mark))
    BY <1>1, <1>6 DEF RequesterKnows
  <2>2. x.mark > 0 => x.mark \in DOMAIN pr.reviews
    <3>1. x.mark <= Len(pr.reviews)
      BY <1>1, <1>6 DEF MarksInBounds
    <3> HIDE DEF x
    <3> QED BY <1>2, <3>1
  <2>3. x.mark > 0 => pr'.reviews[x.mark] = pr.reviews[x.mark] /\ pr.reviews[x.mark].at \in Int
    BY <1>1, <2>2, ReviewsStay, WorldNumbers
  <2>4. pr'.requestedAt # Nil /\ pr'.requestedAt \in Int /\ pr.requestedAt <= pr'.requestedAt
    BY <1>2, <2>1 DEF WorldMoves, RequestMoves
  <2>5. v # Nil => x.mark > 0
    <3>1. v # Nil => v.id \in Int /\ v.id >= 1
      BY <1>1, CallType, DataType DEF Reviews, ReviewId
    <3> HIDE DEF x, v
    <3> QED BY <1>2, <2>1, <3>1
  <2>6. v # Nil => (Unseen(c, x.mark) => Unseen(c, x.mark)')
    BY <2>3, <2>5 DEF Unseen
  <2>7. x.mark > 0 => pr'.reviews[x.mark].at <= pr'.requestedAt
    <3> SUFFICES ASSUME x.mark > 0 PROVE pr'.reviews[x.mark].at <= pr'.requestedAt
      OBVIOUS
    <3> DEFINE last == pr.reviews[x.mark].at
    <3>1. last \in Int /\ last <= pr.requestedAt /\ pr'.reviews[x.mark].at = last
      BY <2>1, <2>3
    <3>2. pr.requestedAt \in Int
      BY <1>2, <2>1
    <3> HIDE DEF last
    <3>3. last <= pr'.requestedAt
      BY <2>4, <3>1, <3>2
    <3> QED BY <3>1, <3>3
  <2> QED BY <2>1, <2>4, <2>6, <2>7
<1> QED BY <1>4, <1>5, <1>6 DEF RequesterKnows

LEMMA ObserverStays ==
  ASSUME RequestInv, RequestInv', WorldInOrder, WorldMoves, NEW c \in Observers, Knows(c),
         call'[c] = call[c]
  PROVE  ObserverKnows(c)'
<1> DEFINE x == call[c]
           v == x.data.review
<1>1. /\ TypeOK /\ TypeOK' /\ MarksInBounds /\ c \in Callers
      /\ ObserverKnows(c) /\ IsTimely(c)
  BY CallersAreApart DEF RequestInv, Knows
<1>2. /\ now \in Int /\ now # Nil /\ x.since \in Int /\ Lag \in Int
      /\ x.mark \in Nat /\ x.seen \in Nat
      /\ Len(pr.reviews) \in Nat /\ DOMAIN pr.reviews = 1..Len(pr.reviews)
      /\ pr.requestedAt # Nil => pr.requestedAt \in Int /\ pr.requestedAt <= now
      /\ pr.startedAt # Nil => pr.startedAt \in Int /\ pr.startedAt <= now
  BY <1>1, CallType, WorldNumbers DEF WorldInOrder, RequestIsCurrent
<1>3. x.pc # "idle" => x.since <= now
  BY <1>1 DEF IsTimely, At
<1>4. Unread(c)'
  BY <1>1 DEF ObserverKnows, Unread
<1>5. ASSUME NEW i \in DOMAIN log', i <= x.mark
      PROVE  i \in DOMAIN log /\ SameRow(i)
  <2>1. x.mark <= Len(log) /\ Len(log) \in Nat /\ Len(log') \in Nat /\ DOMAIN log = 1..Len(log)
        /\ DOMAIN log' = 1..Len(log')
    BY <1>1 DEF MarksInBounds, TypeOK
  <2>2. i \in DOMAIN log
    BY <1>2, <1>5, <2>1
  <2> QED BY <2>2 DEF WorldMoves, RowsMove
<1>6. RowsBefore(c)'
  <2>1. Len(pr.reviews) <= Len(pr'.reviews) /\ Len(pr'.reviews) \in Nat
    BY <1>1, <1>2 DEF WorldMoves, ReviewsMove, TypeOK
  <2>2. x.seen <= Len(pr'.reviews)
    <3>1. x.seen <= Len(pr.reviews)
      BY <1>1 DEF ObserverKnows, RowsBefore
    <3> HIDE DEF x
    <3> QED BY <1>2, <2>1, <3>1
  <2>3. \A i \in DOMAIN log' : i <= x.mark => log'[i].base <= x.seen /\ log'[i].asked <= x.since
    BY <1>1, <1>5 DEF ObserverKnows, RowsBefore, SameRow
  <2> QED BY <2>2, <2>3 DEF RowsBefore
<1>7. KnowsListed(c)'
  <2> SUFFICES ASSUME x.pc \in {"reviews", "timeline", "decide"}, pr'.listed,
                      pr'.requestedAt < x.since
               PROVE  x.data.listed
    BY DEF KnowsListed
  <2>1. pr'.requestedAt # now
    BY <1>2, <1>3
  <2>2. pr.listed /\ pr.requestedAt < x.since
    BY <2>1 DEF WorldMoves, RequestMoves
  <2> QED BY <1>1, <2>2 DEF ObserverKnows, KnowsListed
<1>8. KnowsReview(c)'
  <2> SUFFICES ASSUME x.pc \in {"timeline", "decide"}
               PROVE  /\ v # Nil => v.id \in DOMAIN pr'.reviews /\ v = pr'.reviews[v.id]
                      /\ \A k \in 1..x.seen : pr'.reviews[k].at + Lag <= x.since =>
                           v # Nil /\ k <= v.id
    BY DEF KnowsReview
  <2>1. /\ v # Nil => v.id \in DOMAIN pr.reviews /\ v = pr.reviews[v.id]
        /\ \A k \in 1..x.seen : pr.reviews[k].at + Lag <= x.since => v # Nil /\ k <= v.id
    BY <1>1 DEF ObserverKnows, KnowsReview
  <2>2. \A k \in 1..x.seen : k \in DOMAIN pr.reviews
    <3>1. x.seen <= Len(pr.reviews)
      BY <1>1 DEF ObserverKnows, RowsBefore
    <3> HIDE DEF x
    <3> QED BY <1>2, <3>1
  <2> QED BY <1>1, <2>1, <2>2, ReviewsStay
<1>9. KnowsTimeline(c)'
  <2>1. ASSUME x.data.requestedAt # Nil
        PROVE  /\ pr'.requestedAt # Nil /\ x.data.requestedAt <= pr'.requestedAt
               /\ pr'.requestedAt < x.since => x.data.requestedAt = pr'.requestedAt
               /\ \A i \in DOMAIN log' : i <= x.mark => log'[i].asked <= x.data.requestedAt
    <3>1. /\ pr.requestedAt # Nil /\ x.data.requestedAt <= pr.requestedAt
          /\ pr.requestedAt < x.since => x.data.requestedAt = pr.requestedAt
          /\ \A i \in DOMAIN log : i <= x.mark => log[i].asked <= x.data.requestedAt
      BY <1>1, <2>1 DEF ObserverKnows, KnowsTimeline
    <3>2. x.data.requestedAt \in Int
      BY <1>1, <2>1, CallType, DataType DEF Time
    <3>3. x.pc # "idle"
      BY <1>1, <2>1 DEF ObserverKnows, Unread
    <3>4. pr'.requestedAt # Nil /\ x.data.requestedAt <= pr'.requestedAt
      BY <1>2, <3>1, <3>2 DEF WorldMoves, RequestMoves
    <3>5. pr'.requestedAt < x.since => x.data.requestedAt = pr'.requestedAt
      BY <1>2, <1>3, <3>1, <3>3 DEF WorldMoves, RequestMoves
    <3>6. \A i \in DOMAIN log' : i <= x.mark => log'[i].asked <= x.data.requestedAt
      BY <1>5, <3>1 DEF SameRow
    <3> QED BY <3>4, <3>5, <3>6
  <2>2. ASSUME x.data.startedAt # Nil
        PROVE  /\ x.data.requestedAt # Nil
               /\ pr'.startedAt # Nil /\ x.data.startedAt <= pr'.startedAt
    <3>1. /\ x.data.requestedAt # Nil
          /\ pr.startedAt # Nil /\ x.data.startedAt <= pr.startedAt
      BY <1>1, <2>2 DEF ObserverKnows, KnowsTimeline
    <3>2. x.data.startedAt \in Int
      BY <1>1, <2>2, CallType, DataType DEF Time
    <3> QED BY <1>2, <3>1, <3>2 DEF WorldMoves, RequestMoves
  <2> QED BY <2>1, <2>2 DEF KnowsTimeline
<1> QED BY <1>4, <1>6, <1>7, <1>8, <1>9 DEF ObserverKnows

\* A row about to be completed was answered, or passes for answered; it stays so.
LEMMA AnswerStaysAnswer ==
  ASSUME RequestInv, RequestInv', WorldInOrder, WorldMoves, NEW c \in Observers, SettlesAnswer(c),
         call'[c] = call[c]
  PROVE  SettlesAnswer(c)'
<1> DEFINE i == call[c].entry
<1> SUFFICES ASSUME At(c, "settle"), i <= call[c].mark
             PROVE  Len(pr'.reviews) > log'[i].base \/ Blurred(i)'
  BY DEF SettlesAnswer, At
<1>1. TypeOK /\ TypeOK' /\ i \in DOMAIN log /\ (Len(pr.reviews) > log[i].base \/ Blurred(i))
  BY DEF RequestInv, MarksInBounds, SettlesAnswer
<1>2. RowKnows(i) /\ SameRow(i)
  BY <1>1 DEF WorldInOrder, WorldMoves, RowsMove
<1>3. Len(pr'.reviews) >= Len(pr.reviews) /\ Len(pr.reviews) \in Nat /\ Len(pr'.reviews) \in Nat
      /\ log[i].base \in Nat
  <2>1. Len(pr.reviews) \in Nat
    BY <1>1, WorldNumbers
  <2>2. log[i].base \in Nat
    <3> HIDE DEF i
    <3>1. log[i].base \in 0..MaxReviews
      BY <1>1, RowType
    <3> QED BY <3>1, Parameters
  <2>3. Len(pr'.reviews) \in {Len(pr.reviews), Len(pr.reviews) + 1}
    BY DEF WorldMoves, ReviewsMove
  <2> HIDE DEF i
  <2> QED BY <2>1, <2>2, <2>3
<1>4. \A j \in DOMAIN log : log[j].base <= Len(pr.reviews) => (Blurred(j)' <=> Blurred(j))
  BY <1>1, BlurredStays
<1>5. i' = i
  OBVIOUS
<1> HIDE DEF i
<1>6. Blurred(i) => Blurred(i)'
  BY <1>1, <1>2, <1>4, <1>5 DEF RowKnows
<1> QED BY <1>1, <1>2, <1>3, <1>6 DEF SameRow

LEMMA KnowledgeStays ==
  ASSUME RequestInv, RequestInv', WorldInOrder, WorldMoves, NEW c \in Callers, Knows(c),
         call'[c] = call[c]
  PROVE  Knows(c)'
BY TimelyStays, RequesterStays, ObserverStays, AnswerStaysAnswer DEF Knows, RequestInv

(***************************************************************************)
(* A status follows the request.                                           *)
(***************************************************************************)
\* What GitHub lists is the reviews up to one, and its newest is that one.
LEMMA ListsPrefix ==
  ASSUME TypeOK, ReviewsInOrder, NEW listing \in Listings
  PROVE  \E m \in 0..Len(pr.reviews) :
           /\ m = 0 => NewestReview(listing) = Nil
           /\ m # 0 => /\ m \in DOMAIN pr.reviews /\ NewestReview(listing) = pr.reviews[m]
                       /\ pr.reviews[m] # Nil /\ pr.reviews[m].id = m
           /\ \A k \in DOMAIN pr.reviews : k > m => pr.reviews[k].at + Lag > now
<1> DEFINE s == pr.reviews
<1>1. s \in Seq(Reviews) /\ Len(s) \in Nat /\ DOMAIN s = 1..Len(s)
  BY PullRequestType
<1>2. PICK m \in 0..Len(s) :
        listing = SubSeq(s, 1, m) /\ \A i \in (m + 1)..Len(s) : s[i].at + Lag > now
  BY DEF Listings
<1>3. \A k \in DOMAIN s : k > m => s[k].at + Lag > now
  BY <1>1, <1>2
<1>4. /\ listing \in Seq(Reviews) /\ DOMAIN listing = 1..m /\ (listing = <<>> <=> m = 0)
      /\ \A i \in 1..m : listing[i] = s[i] /\ i \in DOMAIN s
  <2> HIDE DEF s
  <2> QED BY <1>1, <1>2
<1>5. ASSUME m # 0
      PROVE  m \in DOMAIN s /\ NewestReview(listing) = s[m] /\ s[m] # Nil /\ s[m].id = m
  <2>1. PICK i \in DOMAIN listing : /\ IsFirstNewest(listing, DOMAIN listing, i)
                                    /\ NewestReview(listing) = listing[i]
    BY <1>4, <1>5, NewestReviewIsFirstNewest
  <2>2. m \in 1..m /\ i \in 1..m /\ m \in Int /\ i \in Int
    BY <1>1, <1>4, <1>5, <2>1
  <2>3. s[i].at \in Int /\ s[m].at \in Int /\ s[m] # Nil /\ m \in DOMAIN s /\ i \in DOMAIN s
    BY <1>1, <1>4, <2>2, ReviewOf
  <2>4. i = m
    <3> SUFFICES ASSUME i # m PROVE FALSE
      OBVIOUS
    <3>1. s[i].at < s[m].at
      BY <2>2, <2>3 DEF ReviewsInOrder
    <3>2. listing[m].at < listing[i].at \/ listing[m].at = listing[i].at
      BY <1>4, <2>1, <2>2 DEF IsFirstNewest
    <3> QED BY <1>4, <2>2, <2>3, <3>1, <3>2
  <2>5. s[m].id = m
    BY <2>3 DEF ReviewsInOrder
  <2> QED BY <1>4, <2>1, <2>2, <2>3, <2>4, <2>5
<1>6. m = 0 => NewestReview(listing) = Nil
  BY <1>4, NewestReviewIsFirstNewest
<1> QED BY <1>2, <1>3, <1>5, <1>6

\* A status that says the review is over was derived from a review.
LEMMA DoneHasReview ==
  ASSUME NEW d, NEW i, StatusOf(d, i) \in Done
  PROVE  /\ d.review # Nil /\ StatusOf(d, i) = Outcome(d.review)
         /\ i # 0 => Relevant(d, log[i].at, log[i].prev)
BY DEF StatusOf, DeriveStatus, Done, Outcome

LEMMA RelevantIsDone ==
  ASSUME NEW d, NEW i, i # 0, d.review # Nil, Relevant(d, log[i].at, log[i].prev)
  PROVE  StatusOf(d, i) = Outcome(d.review) /\ StatusOf(d, i) \in Done
BY DEF StatusOf, DeriveStatus, Done, Outcome

\* What an observer about to decide knows, of the reviews and of a row.
LEMMA DeciderKnows ==
  ASSUME RequestInv, WorldInOrder, NEW c \in Observers, Knows(c), At(c, "decide"),
         NEW i \in DOMAIN log
  PROVE  /\ TypeOK /\ c \in Callers /\ i # 0 /\ log[i].at # Nil /\ log[i].at \in Int
         /\ ObserverKnows(c) /\ KnowsReview(c) /\ KnowsTimeline(c) /\ RowKnows(i)
         /\ ReviewsInOrder /\ RequestIsCurrent
         /\ call[c].pc = "decide" /\ call[c].since \in Int /\ call[c].since <= now
         /\ call[c].seen \in Nat /\ call[c].seen <= Len(pr.reviews)
         /\ log[i].base \in Nat /\ log[i].base <= Len(pr.reviews)
         /\ log[i].prev # Nil => log[i].prev \in Int
         /\ call[c].data.requestedAt # Nil => call[c].data.requestedAt \in Int
         /\ log[i].asked \in Int /\ pr.requestedAt \in Int
<1>1. TypeOK /\ c \in Callers /\ ObserverKnows(c) /\ RowKnows(i) /\ IsTimely(c)
  BY CallersAreApart DEF RequestInv, Knows, WorldInOrder
<1>2. /\ i # 0 /\ log[i].at # Nil /\ log[i].at \in Int /\ log[i].base \in Nat
      /\ log[i].prev # Nil => log[i].prev \in Int
      /\ log[i].asked # Nil => log[i].asked \in Int
  BY <1>1, RowType DEF ReviewId, Time
<1>3. /\ call[c].since \in Int /\ call[c].seen \in Nat
      /\ call[c].data.requestedAt # Nil => call[c].data.requestedAt \in Int
  BY <1>1, CallType, DataType DEF Time
<1>4. call[c].pc = "decide" /\ call[c].since <= now
  BY <1>1 DEF IsTimely, At
<1>5. log[i].asked # Nil /\ pr.requestedAt # Nil /\ pr.requestedAt \in Int
  BY <1>1, WorldNumbers DEF RowKnows
<1> QED BY <1>1, <1>2, <1>3, <1>4, <1>5 DEF ObserverKnows, RowsBefore, RowKnows, WorldInOrder

\* The outcome of a review before the request counts only if the row is blurred.
LEMMA OutcomeIsOfAnAnswer ==
  ASSUME RequestInv, WorldInOrder, NEW c \in Observers, Knows(c), At(c, "decide"),
         NEW i \in DOMAIN log, i <= call[c].mark, StatusOf(call[c].data, i) \in Done
  PROVE  \/ Blurred(i)
         \/ \E k \in (log[i].base + 1)..Len(pr.reviews) :
              StatusOf(call[c].data, i) = Outcome(pr.reviews[k])
<1> DEFINE d == call[c].data
           b == log[i].base
<1>1. /\ TypeOK /\ i # 0 /\ log[i].at # Nil /\ log[i].at \in Int
      /\ KnowsReview(c) /\ KnowsTimeline(c) /\ RowKnows(i) /\ ReviewsInOrder
      /\ call[c].pc = "decide" /\ call[c].since \in Int /\ call[c].since <= now
      /\ b \in Nat /\ b <= Len(pr.reviews)
      /\ d.requestedAt # Nil => d.requestedAt \in Int
      /\ log[i].asked \in Int
      /\ log[i].base <= call[c].seen /\ log[i].asked <= call[c].since /\ call[c].seen \in Nat
  BY DeciderKnows DEF ObserverKnows, RowsBefore
<1>2. d.review # Nil /\ StatusOf(d, i) = Outcome(d.review) /\ Relevant(d, log[i].at, log[i].prev)
  BY <1>1, DoneHasReview
<1> DEFINE k == d.review.id
<1>3. k \in DOMAIN pr.reviews /\ d.review = pr.reviews[k]
  BY <1>1, <1>2 DEF KnowsReview
<1>4. /\ k \in Nat /\ k >= 1 /\ k <= Len(pr.reviews) /\ Len(pr.reviews) \in Nat
      /\ Lag \in Int /\ Lag >= 0 /\ CallTime \in Int /\ CallTime >= 0 /\ now \in Int
      /\ \A j \in 1..Len(pr.reviews) : pr.reviews[j].at \in Int
      /\ DOMAIN pr.reviews = 1..Len(pr.reviews)
  <2>1. /\ Lag \in Int /\ Lag >= 0 /\ CallTime \in Int /\ CallTime >= 0 /\ now \in Int
        /\ DOMAIN pr.reviews = 1..Len(pr.reviews) /\ Len(pr.reviews) \in Nat
        /\ \A j \in DOMAIN pr.reviews : pr.reviews[j].at \in Int
    BY <1>1, WorldNumbers
  <2>2. k \in 1..Len(pr.reviews)
    BY <1>3, <2>1
  <2> HIDE DEF k
  <2>3. k \in Nat /\ k >= 1 /\ k <= Len(pr.reviews)
    BY <2>1, <2>2
  <2> QED BY <2>1, <2>3
<1>5. CASE k > b
  <2>1. k \in (b + 1)..Len(pr.reviews)
    BY <1>1, <1>4, <1>5
  <2> QED BY <1>2, <1>3, <2>1
<1>6. CASE k <= b
  <2> DEFINE last == pr.reviews[b].at
             seenAt == pr.reviews[k].at
  <2>0. b > 0 /\ b \in 1..Len(pr.reviews) /\ k \in 1..Len(pr.reviews) /\ b \in Int /\ k \in Int
    <3> HIDE DEF k, b
    <3> QED BY <1>1, <1>4, <1>6
  <2>1. b > 0 /\ last \in Int /\ seenAt \in Int /\ last <= log[i].asked
    BY <1>1, <1>4, <2>0 DEF RowKnows
  <2>2. seenAt <= last
    <3>1. k < b => seenAt < last
      BY <1>1, <1>4, <2>0 DEF ReviewsInOrder
    <3>2. k = b => seenAt = last
      OBVIOUS
    <3> HIDE DEF k, b, seenAt, last
    <3> QED BY <1>6, <2>0, <2>1, <3>1, <3>2
  <2>3. CASE log[i].prev = Nil
    <3>1. \/ d.requestedAt # Nil /\ seenAt >= d.requestedAt
          \/ d.requestedAt = Nil /\ seenAt >= log[i].at
      <4>1. d.review.at = seenAt
        BY <1>3
      <4>2. seenAt # Nil
        BY <1>1, <1>3, ReviewOf, PullRequestType
      <4> HIDE DEF seenAt, d
      <4> QED BY <1>1, <1>2, <2>1, <2>3, <4>1, <4>2 DEF Relevant, After
    <3>2. d.requestedAt # Nil => log[i].asked <= d.requestedAt
      BY <1>1 DEF KnowsTimeline
    <3>3. last >= log[i].asked \/ last >= log[i].at
      <4> HIDE DEF last, seenAt, d
      <4>1. CASE d.requestedAt = Nil
        BY <1>1, <2>1, <2>2, <3>1, <4>1
      <4>2. CASE d.requestedAt # Nil
        BY <1>1, <2>1, <2>2, <3>1, <3>2, <4>2
      <4> QED BY <4>1, <4>2
    <3> QED BY <2>1, <2>3, <3>3 DEF Blurred
  <2>4. CASE log[i].prev # Nil /\ k < b
    <3>1. ~(last + Lag <= call[c].since)
      <4>1. b \in 1..call[c].seen
        BY <1>1, <2>1
      <4>2. last + Lag <= call[c].since => b <= k
        BY <1>1, <4>1 DEF KnowsReview
      <4> HIDE DEF last, k, b
      <4> QED BY <2>0, <2>4, <4>2
    <3>2. Lag > 0 /\ last + Lag + CallTime > log[i].asked
      <4> DEFINE since == call[c].since
                 asked == log[i].asked
      <4>1. since \in Int /\ asked \in Int /\ asked <= since /\ last \in Int /\ last <= asked
        BY <1>1, <2>1
      <4>2. ~(last + Lag <= since)
        BY <3>1
      <4> HIDE DEF last, since, asked
      <4>3. Lag > 0 /\ last + Lag + CallTime > asked
        BY <1>4, <4>1, <4>2
      <4> QED BY <4>3 DEF asked
    <3> QED BY <2>1, <3>2 DEF Blurred
  <2>5. CASE log[i].prev # Nil /\ k = b
    <3>1. k # log[i].prev
      BY <1>1, <1>2, <2>5 DEF Relevant
    <3> QED BY <1>1, <2>5, <3>1 DEF RowKnows
  <2>6. k < b \/ k = b
    <3> HIDE DEF k, b
    <3> QED BY <1>1, <1>4, <1>6
  <2> QED BY <2>3, <2>4, <2>5, <2>6
<1>7. k > b \/ k <= b
  <2> HIDE DEF k, b
  <2> QED BY <1>1, <1>4
<1> QED BY <1>5, <1>6, <1>7

\* An answer that GitHub listed before the call is seen, or a later one is.
LEMMA RecognisableIsDone ==
  ASSUME RequestInv, WorldInOrder, NEW c \in Observers, Knows(c), At(c, "decide"),
         NEW i \in DOMAIN log, NEW k, Recognisable(c, i, k)
  PROVE  /\ StatusOf(call[c].data, i) \in Done
         /\ k = Len(pr.reviews) => StatusOf(call[c].data, i) = Outcome(pr.reviews[k])
<1> DEFINE d == call[c].data
           m == d.review.id
<1>1. /\ TypeOK /\ i # 0 /\ log[i].at # Nil /\ log[i].at \in Int
      /\ KnowsReview(c) /\ KnowsTimeline(c) /\ RowKnows(i) /\ ReviewsInOrder
      /\ call[c].pc = "decide"
      /\ call[c].seen \in Nat /\ call[c].seen <= Len(pr.reviews)
      /\ log[i].base \in Nat
      /\ log[i].prev # Nil => log[i].prev \in Int /\ log[i].prev <= log[i].base
      /\ d.requestedAt # Nil => d.requestedAt \in Int /\ d.requestedAt <= pr.requestedAt
      /\ pr.requestedAt \in Int
  BY DeciderKnows DEF RowKnows, KnowsTimeline
<1>2. /\ DOMAIN pr.reviews = 1..Len(pr.reviews) /\ Len(pr.reviews) \in Nat
      /\ \A j \in DOMAIN pr.reviews : pr.reviews[j].at \in Int /\ pr.reviews[j].at # Nil
  BY <1>1, PullRequestType, ReviewOf
<1>3. k \in 1..call[c].seen /\ k \in 1..Len(pr.reviews) /\ k > log[i].base /\ k \in Int
  BY <1>1, <1>2 DEF Recognisable
<1>4. d.review # Nil /\ k <= m
  BY <1>1, <1>3 DEF KnowsReview, Recognisable
<1>5. m \in 1..Len(pr.reviews) /\ d.review = pr.reviews[m] /\ m \in Int
  <2>1. m \in DOMAIN pr.reviews /\ d.review = pr.reviews[m]
    BY <1>1, <1>4 DEF KnowsReview
  <2> HIDE DEF m
  <2> QED BY <1>2, <2>1
<1>6. pr.reviews[k].at <= pr.reviews[m].at
  <2>1. k < m => pr.reviews[k].at < pr.reviews[m].at
    BY <1>1, <1>2, <1>3, <1>5 DEF ReviewsInOrder
  <2>2. pr.reviews[k].at \in Int /\ pr.reviews[m].at \in Int
    BY <1>2, <1>3, <1>5
  <2>3. k < m \/ k = m
    <3> HIDE DEF m
    <3> QED BY <1>3, <1>4, <1>5
  <2> HIDE DEF m
  <2> QED BY <2>1, <2>2, <2>3
<1>7. Relevant(d, log[i].at, log[i].prev)
  <2> DEFINE seenAt == pr.reviews[m].at
             first  == pr.reviews[k].at
  <2>1. /\ seenAt \in Int /\ seenAt # Nil /\ first \in Int /\ first <= seenAt
        /\ d.review.at = seenAt /\ d.review.id = m
        /\ pr.requestedAt <= first /\ (log[i].prev # Nil \/ log[i].at <= first)
    BY <1>2, <1>3, <1>5, <1>6 DEF Recognisable
  <2>2. log[i].prev # Nil => m # log[i].prev
    <3> HIDE DEF m
    <3> QED BY <1>1, <1>3, <1>4, <1>5
  <2> HIDE DEF seenAt, first, m, d
  <2>3. CASE log[i].prev # Nil
    BY <1>1, <2>1, <2>2, <2>3 DEF Relevant
  <2>4. CASE log[i].prev = Nil /\ d.requestedAt # Nil
    <3>1. ~(d.requestedAt > seenAt)
      BY <1>1, <2>1, <2>4
    <3> QED BY <2>1, <2>4, <3>1 DEF Relevant, After
  <2>5. CASE log[i].prev = Nil /\ d.requestedAt = Nil
    <3>1. ~(log[i].at > seenAt)
      BY <1>1, <2>1, <2>5
    <3> QED BY <1>1, <2>1, <2>5, <3>1 DEF Relevant, After
  <2> QED BY <2>3, <2>4, <2>5
<1>8. k = Len(pr.reviews) => m = k
  <2> HIDE DEF m
  <2> QED BY <1>2, <1>3, <1>4, <1>5
<1> QED BY <1>1, <1>4, <1>5, <1>7, <1>8, RelevantIsDone

\* A request made before the call is seen, and so is that Copilot began.
LEMMA OpenRequestSeen ==
  ASSUME RequestInv, WorldInOrder, NEW c \in Observers, Knows(c), At(c, "decide"),
         GetLatest \in DOMAIN log, GetLatest <= call[c].mark
  PROVE  OpenRequestIsSeen(c, GetLatest)
<1> DEFINE i == GetLatest
           d == call[c].data
<1> SUFFICES ASSUME Len(pr.reviews) = log[i].base, pr.listed, pr.requestedAt < call[c].since,
                    ~Blurred(i)
             PROVE  \/ Derived(c) = "PENDING"
                    \/ Derived(c) = "IN_PROGRESS" /\ After(pr.startedAt, pr.requestedAt)
  BY DEF OpenRequestIsSeen
<1>1. /\ TypeOK /\ i \in DOMAIN log /\ i # 0 /\ Len(pr.reviews) \in Nat
      /\ KnowsListed(c) /\ KnowsTimeline(c) /\ call[c].pc = "decide"
      /\ d.requestedAt # Nil => d.requestedAt \in Int
      /\ pr.requestedAt \in Int
  BY DeciderKnows, WorldNumbers DEF ObserverKnows
<1>2. d.listed
  BY <1>1 DEF KnowsListed
<1>3. StatusOf(d, i) \notin Done
  <2>1. (log[i].base + 1)..Len(pr.reviews) = {}
    BY <1>1
  <2> HIDE DEF i
  <2> QED BY <1>1, <2>1, OutcomeIsOfAnAnswer DEF i
<1>4. StatusOf(d, i) \in {"PENDING", "IN_PROGRESS"} /\ (StatusOf(d, i) = "IN_PROGRESS" => Started(d))
  BY <1>1, <1>2, <1>3 DEF StatusOf, DeriveStatus, Done
<1>5. Started(d) => After(pr.startedAt, pr.requestedAt)
  <2> SUFFICES ASSUME d.startedAt # Nil, d.requestedAt = Nil \/ d.startedAt > d.requestedAt
               PROVE  pr.startedAt # Nil /\ pr.startedAt > pr.requestedAt
    BY DEF Started, After
  <2>1. /\ d.requestedAt # Nil /\ d.requestedAt = pr.requestedAt
        /\ pr.startedAt # Nil /\ d.startedAt <= pr.startedAt
    BY <1>1 DEF KnowsTimeline
  <2>2. d.startedAt \in Int /\ pr.startedAt \in Int
    <3>1. d \in Data /\ d.startedAt \in Time \union {Nil}
      BY <1>1, CallersAreApart, CallType, DataType
    <3> QED BY <1>1, <2>1, <3>1, WorldNumbers DEF Time
  <2> HIDE DEF d
  <2> QED BY <1>1, <2>1, <2>2
<1> QED BY <1>4, <1>5 DEF Derived

LEMMA StatusInOrder ==
  ASSUME RequestInv, WorldInOrder, \A c \in Callers : Knows(c)
  PROVE  StatusFollowsRequest
<1> SUFFICES ASSUME NEW c \in Observers, At(c, "decide"), 0 < GetLatest, GetLatest <= call[c].mark
             PROVE  /\ OnlyAnswersCount(c, GetLatest) /\ AnswerIsSeen(c, GetLatest)
                    /\ OpenRequestIsSeen(c, GetLatest)
  BY DEF StatusFollowsRequest
<1>1. Knows(c) /\ TypeOK
  BY DEF Callers, RequestInv
<1>2. GetLatest \in DOMAIN log
  <2>1. log # <<>> => GetLatest \in DOMAIN log
    BY <1>1, GetLatestFinds
  <2>2. log = <<>> => GetLatest = 0
    BY <1>1, GetLatestFinds
  <2> QED BY <2>1, <2>2
<1>3. ASSUME NEW i \in DOMAIN log, i = GetLatest
      PROVE  OnlyAnswersCount(c, GetLatest) /\ AnswerIsSeen(c, GetLatest)
  <2>1. OnlyAnswersCount(c, i)
    BY <1>1, <1>3, OutcomeIsOfAnAnswer DEF OnlyAnswersCount, Derived
  <2>2. AnswerIsSeen(c, i)
    BY <1>1, <1>3, RecognisableIsDone DEF AnswerIsSeen, Derived
  <2> QED BY <1>3, <2>1, <2>2
<1> QED BY <1>1, <1>2, <1>3, OpenRequestSeen

(***************************************************************************)
(* What a handler knows after a step of its own.                           *)
(***************************************************************************)
LEMMA IdleKnows ==
  ASSUME TypeOK', NEW c \in Callers, call'[c] = Idle
  PROVE  Knows(c)'
<1>1. /\ Idle.pc = "idle" /\ Idle.mark = 0 /\ Idle.seen = 0 /\ Idle.data = NoData
      /\ NoData.requestedAt = Nil /\ NoData.startedAt = Nil
  BY NoDataType DEF Idle
<1>2. Len(pr'.reviews) \in Nat /\ \A i \in DOMAIN log' : i \in Nat /\ i >= 1
  BY DEF TypeOK
<1>3. ObserverKnows(c)'
  BY <1>1, <1>2 DEF ObserverKnows, Unread, RowsBefore, KnowsListed, KnowsReview, KnowsTimeline
<1> QED BY <1>1, <1>3 DEF Knows, IsTimely, RequesterKnows, SettlesAnswer, At

LEMMA ReturnsKnows ==
  ASSUME TypeOK, TypeOK', NEW c \in Callers, Returns(c)
  PROVE  Knows(c)'
<1>1. call'[c] = Idle
  BY DEF Returns, TypeOK
<1> QED BY <1>1, IdleKnows

\* The part of an observer's knowledge that a reading step leaves alone.
LEMMA ReadStepKeeps ==
  ASSUME TypeOK, NEW c \in Callers, Knows(c), UNCHANGED <<now, pr, log>>,
         call[c].pc # "idle", call'[c].since = call[c].since, call'[c].mark = call[c].mark,
         call'[c].seen = call[c].seen, call'[c].pc # "settle"
  PROVE  IsTimely(c)' /\ SettlesAnswer(c)' /\ (c \in Observers => RowsBefore(c)')
<1>1. IsTimely(c)' /\ SettlesAnswer(c)'
  BY DEF Knows, IsTimely, SettlesAnswer, At
<1> QED BY <1>1 DEF Knows, ObserverKnows, RowsBefore

LEMMA ReadReviewersKnows ==
  ASSUME RequestInv, WorldInOrder, NEW c \in Callers, Knows(c), ReadReviewers(c)
  PROVE  Knows(c)'
<1>1. TypeOK /\ call[c].pc = "reviewers" /\ UNCHANGED <<now, pr, log>>
  BY DEF RequestInv, ReadReviewers, At
<1>2. /\ call'[c].pc = "reviews" /\ call'[c].since = call[c].since /\ call'[c].mark = call[c].mark
      /\ call'[c].seen = call[c].seen /\ call'[c].data.listed = pr.listed
      /\ call'[c].data.requestedAt = call[c].data.requestedAt
      /\ call'[c].data.startedAt = call[c].data.startedAt
  BY <1>1, ReadReviewersEffect
<1>3. RequesterKnows(c)'
  BY <1>1, <1>2 DEF RequesterKnows
<1>4. c \in Observers => ObserverKnows(c)'
  BY <1>1, <1>2, ReadStepKeeps
     DEF Knows, ObserverKnows, Unread, KnowsListed, KnowsReview, KnowsTimeline
<1> QED BY <1>1, <1>2, <1>3, <1>4, ReadStepKeeps DEF Knows

LEMMA ReadReviewsKnows ==
  ASSUME RequestInv, WorldInOrder, NEW c \in Callers, Knows(c), ReadReviews(c)
  PROVE  Knows(c)'
<1> DEFINE d == call'[c].data
<1>1. /\ TypeOK /\ call[c].pc = "reviews" /\ UNCHANGED <<now, pr, log>>
      /\ call[c].since <= now /\ call[c].since \in Int /\ ReviewsInOrder
  BY CallType DEF RequestInv, ReadReviews, At, Knows, IsTimely, WorldInOrder
<1>2. /\ call'[c].pc \in {"timeline", "decide"} /\ call'[c].since = call[c].since
      /\ call'[c].mark = call[c].mark
      /\ call'[c].seen = call[c].seen /\ d.listed = call[c].data.listed
      /\ d.requestedAt = call[c].data.requestedAt
      /\ d.startedAt = call[c].data.startedAt
      /\ \E listing \in Listings : d.review = NewestReview(listing)
  BY <1>1, ReadReviewsEffect
<1>3. PICK m \in 0..Len(pr.reviews) :
        /\ m = 0 => d.review = Nil
        /\ m # 0 => /\ m \in DOMAIN pr.reviews /\ d.review = pr.reviews[m]
                    /\ pr.reviews[m] # Nil /\ pr.reviews[m].id = m
        /\ \A k \in DOMAIN pr.reviews : k > m => pr.reviews[k].at + Lag > now
  BY <1>1, <1>2, ListsPrefix
<1> HIDE DEF d
<1>4. /\ now \in Int /\ Lag \in Int /\ Lag >= 0 /\ m \in Int /\ Len(pr.reviews) \in Nat
      /\ DOMAIN pr.reviews = 1..Len(pr.reviews)
      /\ \A k \in DOMAIN pr.reviews : pr.reviews[k].at \in Int /\ pr.reviews[k].at <= now
  BY <1>1, WorldNumbers DEF ReviewsInOrder
<1>5. ASSUME NEW k \in DOMAIN pr.reviews, k > m
      PROVE  Lag > 0 /\ pr.reviews[k].at + Lag > call[c].since
  <2> DEFINE last == pr.reviews[k].at
  <2> DEFINE since == call[c].since
  <2>1. /\ last + Lag > now /\ last \in Int /\ last <= now
        /\ since \in Int /\ since <= now
    BY <1>1, <1>3, <1>4, <1>5
  <2> HIDE DEF last, since
  <2>2. Lag > 0 /\ last + Lag > since
    BY <1>4, <2>1
  <2> QED BY <2>2 DEF last, since
<1>6. c \in Requesters => RequesterKnows(c)'
  <2>1. d.review # Nil => d.review.id = m /\ m \in DOMAIN pr.reviews
    BY <1>3
  <2>2. \A k \in DOMAIN pr.reviews : k > m => Unseen(c, k)'
    BY <1>1, <1>2, <1>5 DEF Unseen
  <2> QED BY <1>1, <1>2, <2>1, <2>2 DEF Knows, RequesterKnows, d
<1>7. c \in Observers => ObserverKnows(c)'
  <2> SUFFICES ASSUME c \in Observers PROVE ObserverKnows(c)'
    OBVIOUS
  <2>1. Unread(c)' /\ KnowsTimeline(c)' /\ KnowsListed(c)'
    BY <1>1, <1>2 DEF Knows, ObserverKnows, Unread, KnowsTimeline, KnowsListed, d
  <2>2. d.review # Nil => d.review.id \in DOMAIN pr.reviews /\ d.review = pr.reviews[d.review.id]
    BY <1>3
  <2>3. ASSUME NEW k \in 1..call[c].seen, pr.reviews[k].at + Lag <= call[c].since
        PROVE  d.review # Nil /\ k <= d.review.id
    <3>1. k \in DOMAIN pr.reviews /\ k \in Int /\ k >= 1
      <4>1. call[c].seen <= Len(pr.reviews) /\ call[c].seen \in Int
        BY <1>1, CallType DEF Knows, ObserverKnows, RowsBefore
      <4> QED BY <1>4, <4>1
    <3>2. ~(k > m)
      <4> DEFINE last == pr.reviews[k].at
      <4> DEFINE since == call[c].since
      <4>1. last \in Int /\ since \in Int /\ last + Lag <= since
        BY <1>1, <1>4, <2>3, <3>1
      <4>2. k > m => last + Lag > since
        BY <1>5, <3>1
      <4> HIDE DEF last, since
      <4> QED BY <1>4, <4>1, <4>2
    <3>3. m # 0 /\ k <= m
      BY <1>4, <3>1, <3>2
    <3> QED BY <1>3, <3>3
  <2>4. KnowsReview(c)'
    BY <1>1, <1>2, <2>2, <2>3 DEF KnowsReview, d
  <2>5. RowsBefore(c)'
    BY <1>1, <1>2, ReadStepKeeps
  <2> QED BY <2>1, <2>4, <2>5 DEF ObserverKnows
<1> QED BY <1>1, <1>2, <1>6, <1>7, ReadStepKeeps DEF Knows

LEMMA ReadTimelineKnows ==
  ASSUME RequestInv, WorldInOrder, NEW c \in Callers, Knows(c),
         ReadTimeline(c) \/ TimelineFails(c) \/ RateLow(c)
  PROVE  Knows(c)'
<1> DEFINE d == call'[c].data
<1>1. /\ TypeOK /\ UNCHANGED <<now, pr, log>> /\ "decide" \in CallPc
      /\ call[c].pc = "timeline" \/ (call[c].pc = "reviews" /\ c \in Requesters)
  BY DEF RequestInv, ReadTimeline, TimelineFails, RateLow, At, CallPc
<1>2. /\ call'[c].pc = "decide" /\ call'[c].since = call[c].since
      /\ call'[c].mark = call[c].mark
      /\ call'[c].seen = call[c].seen /\ d.listed = call[c].data.listed
      /\ d.review = call[c].data.review
      /\ \/ d.requestedAt = pr.requestedAt /\ d.startedAt = pr.startedAt
         \/ d = call[c].data
  <2>1. CASE ReadTimeline(c)
    BY <1>1, <2>1, ReadTimelineEffect
  <2>2. CASE TimelineFails(c) \/ RateLow(c)
    <3>1. GoTo(c, "decide")
      BY <2>2 DEF TimelineFails, RateLow
    <3> QED BY <1>1, <3>1, GoToEffect
  <2> QED BY <2>1, <2>2
<1>3. c \in Requesters => RequesterKnows(c)'
  <2>1. call[c].pc = "reviews" => d.review = Nil
    BY <1>2 DEF RequestInv, Fresh
  <2> QED BY <1>1, <1>2, <2>1 DEF Knows, RequesterKnows, Unseen
<1>4. c \in Observers => ObserverKnows(c)'
  <2> SUFFICES ASSUME c \in Observers PROVE ObserverKnows(c)'
    OBVIOUS
  <2>1. call[c].pc = "timeline" /\ ObserverKnows(c)
    BY <1>1, CallersAreApart DEF Knows
  <2>2. Unread(c)' /\ KnowsListed(c)' /\ KnowsReview(c)'
    BY <1>1, <1>2, <2>1 DEF ObserverKnows, Unread, KnowsListed, KnowsReview
  <2>3. RowsBefore(c)'
    BY <1>1, <1>2, ReadStepKeeps
  <2>4. CASE d = call[c].data
    <3>1. KnowsTimeline(c)'
      BY <1>1, <1>2, <2>1, <2>4 DEF ObserverKnows, KnowsTimeline
    <3> QED BY <2>2, <2>3, <3>1 DEF ObserverKnows
  <2>5. CASE d.requestedAt = pr.requestedAt /\ d.startedAt = pr.startedAt
    <3>1. pr.requestedAt # Nil => pr.requestedAt <= pr.requestedAt
      BY <1>1, WorldNumbers
    <3>2. pr.startedAt # Nil => pr.startedAt <= pr.startedAt /\ pr.requestedAt # Nil
      BY <1>1, WorldNumbers DEF WorldInOrder, RequestIsCurrent
    <3>3. \A i \in DOMAIN log : log[i].asked <= pr.requestedAt
      BY DEF WorldInOrder, RowKnows
    <3>4. KnowsTimeline(c)'
      BY <1>1, <1>2, <2>5, <3>1, <3>2, <3>3 DEF KnowsTimeline
    <3> QED BY <2>2, <2>3, <3>4 DEF ObserverKnows
  <2> QED BY <1>2, <2>4, <2>5
<1> QED BY <1>1, <1>2, <1>3, <1>4, ReadStepKeeps DEF Knows

LEMMA StatusStepKnows ==
  ASSUME RequestInv, RequestInv', WorldInOrder, NEW c \in Observers, Knows(c), StatusStep(c)
  PROVE  Knows(c)'
<1>1. TypeOK /\ TypeOK' /\ c \in Callers /\ c \notin Requesters
  BY CallersAreApart DEF RequestInv
<1>2. CASE StatusCall(c)
  <2>1. /\ UNCHANGED <<now, pr, log>> /\ call[c].pc = "idle" /\ Begins(c, Len(log), Len(pr.reviews))
    BY <1>2 DEF StatusCall, At
  <2>2. /\ call'[c].pc = "reviewers" /\ call'[c].since = now /\ call'[c].data = call[c].data
        /\ call'[c].mark = Len(log) /\ call'[c].seen = Len(pr.reviews)
    <3>1. Len(log) \in Nat /\ Len(pr.reviews) \in 0..MaxReviews
      BY <1>1, PullRequestType, Parameters DEF TypeOK
    <3> QED BY <1>1, <2>1, <3>1, BeginsEffect
  <2>3. call[c].data.requestedAt = Nil /\ call[c].data.startedAt = Nil
    BY <2>1 DEF Knows, ObserverKnows, Unread
  <2>4. IsTimely(c)'
    BY <1>1, <2>1, <2>2, WorldNumbers DEF IsTimely
  <2>5. RowsBefore(c)'
    <3>1. /\ Len(pr.reviews) \in Nat /\ now \in Int
          /\ \A i \in DOMAIN log : /\ log[i].base <= Len(pr.reviews)
                                   /\ log[i].asked <= pr.requestedAt /\ log[i].asked \in Int
                                   /\ pr.requestedAt \in Int /\ pr.requestedAt <= now
      BY <1>1, RowType, WorldNumbers DEF WorldInOrder, RowKnows, RequestIsCurrent, Time
    <3>2. \A i \in DOMAIN log : log[i].asked <= now
      BY <3>1
    <3> QED BY <2>1, <2>2, <3>1, <3>2 DEF RowsBefore
  <2>6. Unread(c)' /\ KnowsListed(c)' /\ KnowsReview(c)' /\ KnowsTimeline(c)' /\ SettlesAnswer(c)'
    BY <2>1, <2>2, <2>3 DEF Unread, KnowsListed, KnowsReview, KnowsTimeline, SettlesAnswer, At
  <2> QED BY <1>1, <2>4, <2>5, <2>6 DEF Knows, ObserverKnows
<1>3. CASE Derive(c)
  <2>1. UNCHANGED <<now, pr, log>> /\ call[c].pc = "decide"
    BY <1>3 DEF Derive, At
  <2>2. CASE call'[c] = Idle
    BY <1>1, <2>2, IdleKnows
  <2>3. CASE /\ Owes(c) /\ call'[c].pc = "settle" /\ call'[c].since = call[c].since
             /\ call'[c].data = call[c].data /\ call'[c].mark = call[c].mark
             /\ call'[c].entry = GetLatest /\ call'[c].seen = call[c].seen
    <3>1. IsTimely(c)'
      BY <2>1, <2>3 DEF Knows, IsTimely, At
    <3>2. ObserverKnows(c)'
      BY <2>1, <2>3 DEF Knows, ObserverKnows, Unread, RowsBefore, KnowsListed, KnowsReview,
                        KnowsTimeline
    <3>3. ASSUME GetLatest <= call[c].mark
          PROVE  Len(pr.reviews) > log[GetLatest].base \/ Blurred(GetLatest)
      <4>1. GetLatest \in DOMAIN log /\ StatusOf(call[c].data, GetLatest) \in Done
        BY <2>3 DEF Owes
      <4>2. \/ Blurred(GetLatest)
            \/ (log[GetLatest].base + 1)..Len(pr.reviews) # {}
        BY <2>1, <3>3, <4>1, OutcomeIsOfAnAnswer DEF At
      <4>3. log[GetLatest].base \in Nat /\ Len(pr.reviews) \in Nat
        BY <1>1, <4>1, RowType, WorldNumbers
      <4> QED BY <4>2, <4>3
    <3>4. SettlesAnswer(c)'
      <4> DEFINE i == call'[c].entry
      <4>1. i = GetLatest
        BY <2>3
      <4>2. i <= call[c].mark => Len(pr.reviews) > log[i].base \/ Blurred(i)
        BY <3>3, <4>1
      <4>3. Blurred(i) => Blurred(call[c].entry)'
        BY <2>1 DEF Blurred
      <4> QED BY <2>1, <2>3, <4>2, <4>3 DEF SettlesAnswer
    <3> QED BY <1>1, <3>1, <3>2, <3>4 DEF Knows
  <2> QED BY <1>1, <1>3, <2>2, <2>3, DeriveEffect
<1>4. CASE Settle(c)
  BY <1>1, <1>4, ReturnsKnows DEF Settle
<1> QED BY <1>2, <1>3, <1>4 DEF StatusStep

LEMMA RequestStepKnows ==
  ASSUME RequestInv, RequestInv', WorldInOrder, NEW c \in Requesters, Knows(c), RequestStep(c)
  PROVE  Knows(c)'
<1>1. TypeOK /\ TypeOK' /\ c \in Callers /\ c \notin Observers
  BY CallersAreApart DEF RequestInv
<1>2. CASE RequestCall(c)
  <2>1. Begins(c, 0, 0) /\ now' = now /\ 0 \in Nat /\ 0 \in 0..MaxReviews
    BY <1>2, Parameters DEF RequestCall
  <2>2. call'[c].pc = "reviewers" /\ call'[c].since = now
    BY <1>1, <2>1, BeginsEffect
  <2> QED BY <1>1, <2>1, <2>2, WorldNumbers DEF Knows, IsTimely, RequesterKnows
<1>3. CASE Refuse(c) \/ RecordTrigger(c)
  BY <1>1, <1>3, ReturnsKnows DEF Refuse, RecordTrigger
<1>4. CASE RequestCopilotReview(c)
  <2> DEFINE n == Len(pr.reviews)
             v == call[c].data.review
  <2>1. call[c].pc = "decide" /\ ~call[c].data.listed /\ now' = now /\ pr' = Listed(pr)
    BY <1>4 DEF RequestCopilotReview, At
  <2>2. /\ call'[c].pc \in {"latest", "insert"} /\ call'[c].since = call[c].since
        /\ call'[c].mark = n /\ call'[c].data = call[c].data
    BY <1>1, <1>4, MutationEffect
  <2>3. /\ pr'.reviews = pr.reviews /\ (pr.listed => pr' = pr)
        /\ ~pr.listed => pr'.requestedAt = now
    BY <1>1, <2>1, ListedEffect
  <2>4. /\ now # Nil /\ n \in Nat /\ DOMAIN pr.reviews = 1..n
    BY <1>1, WorldNumbers
  <2>5. pr'.requestedAt # Nil
    BY <2>3, <2>4 DEF WorldInOrder, RequestIsCurrent
  <2>6. n > 0 => pr'.reviews[n].at <= pr'.requestedAt
    <3>1. n > 0 => n \in DOMAIN pr.reviews
      BY <2>4
    <3> QED BY <2>3, <3>1 DEF WorldInOrder, RequestIsCurrent, ReviewsInOrder
  <2>7. v # Nil => v.id <= n /\ (v.id = n \/ Unseen(c, n))
    <3> SUFFICES ASSUME v # Nil PROVE v.id <= n /\ (v.id = n \/ Unseen(c, n))
      OBVIOUS
    <3>1. v.id \in DOMAIN pr.reviews /\ \A k \in DOMAIN pr.reviews : k > v.id => Unseen(c, k)
      BY <2>1 DEF Knows, RequesterKnows
    <3>2. v.id \in 1..n
      BY <2>4, <3>1
    <3> HIDE DEF v, n
    <3>3. v.id <= n /\ (v.id = n \/ (n > v.id /\ n \in 1..n))
      BY <2>4, <3>2
    <3> QED BY <2>4, <3>1, <3>3
  <2>8. ASSUME NEW k, Unseen(c, k)
        PROVE  pr'.reviews = pr.reviews /\ Unseen(c, k)'
    BY <2>2, <2>3, <2>8 DEF Unseen
  <2>9. IsTimely(c)'
    BY <2>1, <2>2 DEF Knows, IsTimely, At
  <2>10. RequesterKnows(c)'
    <3>1. v # Nil => v.id <= n /\ (v.id = n \/ Unseen(c, call[c].mark)')
      <4>1. Unseen(c, n) => Unseen(c, call[c].mark)'
        BY <2>2, <2>3 DEF Unseen
      <4> QED BY <2>7, <4>1
    <3> HIDE DEF n
    <3> QED BY <2>2, <2>5, <2>6, <3>1 DEF RequesterKnows
  <2> QED BY <1>1, <2>9, <2>10 DEF Knows
<1>5. CASE ReadLatest(c)
  <2>1. UNCHANGED <<now, pr, log>> /\ call[c].pc = "latest"
    BY <1>5 DEF ReadLatest, At
  <2>2. /\ call'[c].pc = "insert" /\ call'[c].since = call[c].since
        /\ call'[c].data = call[c].data /\ call'[c].mark = call[c].mark
    BY <1>1, <1>5, LatestEffect
  <2> QED BY <1>1, <2>1, <2>2 DEF Knows, IsTimely, RequesterKnows, Unseen, At
<1> QED BY <1>2, <1>3, <1>4, <1>5 DEF RequestStep

(***************************************************************************)
(* The theorems.                                                           *)
(***************************************************************************)
LEMMA InitOrderInv == Init => OrderInv
<1> SUFFICES ASSUME Init PROVE OrderInv
  OBVIOUS
<1>1. RequestInv /\ TypeOK
  BY InitRequestInv DEF RequestInv
<1>2. /\ ~pr.listed /\ pr.reviews = <<>> /\ pr.requestedAt = Nil /\ pr.startedAt = Nil /\ log = <<>>
      /\ \A c \in Callers : call[c] = Idle
  BY DEF Init
<1>3. WorldInOrder
  BY <1>2 DEF WorldInOrder, ReviewsInOrder, RequestIsCurrent
<1>4. ASSUME NEW c \in Callers PROVE Knows(c)
  <2>1. /\ Idle.pc = "idle" /\ Idle.mark = 0 /\ Idle.seen = 0 /\ Idle.data = NoData
        /\ NoData.requestedAt = Nil /\ NoData.startedAt = Nil
    BY NoDataType DEF Idle
  <2>2. ObserverKnows(c)
    BY <1>2, <2>1 DEF ObserverKnows, Unread, RowsBefore, KnowsListed, KnowsReview, KnowsTimeline
  <2> QED BY <1>2, <2>1, <2>2 DEF Knows, IsTimely, RequesterKnows, SettlesAnswer, At
<1> QED BY <1>1, <1>3, <1>4 DEF OrderInv

LEMMA OrderInvIsInductive ==
  ASSUME OrderInv, [Next]_vars
  PROVE  OrderInv'
<1>1. RequestInv /\ RequestInv' /\ WorldInOrder /\ (\A c \in Callers : Knows(c)) /\ TypeOK /\ TypeOK'
  BY RequestInvIsInductive DEF OrderInv, RequestInv
<1>2. WorldMoves
  BY <1>1, NextMovesWorld
<1>3. WorldInOrder'
  BY <1>1, <1>2, ReviewsKeepOrder, RowsKeepOrder DEF WorldInOrder, Callers
<1>4. ASSUME NEW c \in Callers
      PROVE  Knows(c)'
  <2>1. CASE call'[c] = call[c]
    BY <1>1, <1>2, <2>1, KnowledgeStays
  <2>2. CASE Fails(c)
    BY <1>1, <2>2, ReturnsKnows DEF Fails
  <2>3. CASE ReadStep(c)
    BY <1>1, <2>3, ReadReviewersKnows, ReadReviewsKnows, ReadTimelineKnows DEF ReadStep
  <2> QED BY <1>1, <2>1, <2>2, <2>3, CallerSteps, StatusStepKnows, RequestStepKnows
<1> QED BY <1>1, <1>3, <1>4 DEF OrderInv

LEMMA AnswerSettlesRow ==
  ASSUME OrderInv
  PROVE  SettledByAnswer
BY DEF OrderInv, Knows, SettlesAnswer, SettledByAnswer, Callers

\* Whatever other calls, requests, cancelled watches and failures come between the
\* reads of a status call and its write, and however late GitHub lists a review: a
\* status call completes a row that was there when it began only if Copilot
\* submitted a review since GitHub was asked, or the review before passes for it.
THEOREM AnswerSettles == Spec => []SettledByAnswer
<1> QED BY InitOrderInv, OrderInvIsInductive, AnswerSettlesRow, PTL DEF Spec

\* What a status call derives from reviewers, reviews and timeline, read at three
\* moments, is the outcome of an answer to the newest row, finds the answer GitHub
\* had listed, and says PENDING or IN_PROGRESS of a request that has none.
THEOREM StatusIsOfTheRequest == Spec => []StatusFollowsRequest
<1>1. OrderInv => StatusFollowsRequest
  BY StatusInOrder DEF OrderInv
<1> QED BY <1>1, InitOrderInv, OrderInvIsInductive, PTL DEF Spec
=============================================================================
