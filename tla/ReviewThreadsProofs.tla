-------------------------- MODULE ReviewThreadsProofs --------------------------
(***************************************************************************)
(* Theorems about ReviewThreads, for any set of threads, any set of agents *)
(* and any number of comments.                                             *)
(***************************************************************************)
EXTENDS ReviewThreads, FiniteSetTheorems, TLAPS

(***************************************************************************)
(* The inductive invariant.                                                *)
(***************************************************************************)

\* What a handler knows of its reply is what GitHub has, at every step of it.
HandlerKnows ==
  \A a \in Agents : work[a].pc # "idle" =>
    /\ RepliesOf(a, On(a)) = work[a].before + (IF work[a].replied THEN 1 ELSE 0)
    /\ work[a].pc \in {"find", "post"} \/ work[a].op # "both" => ~work[a].replied
    /\ work[a].pc \in {"check", "mutate"} /\ work[a].op = "both" => work[a].replied

\* What a handler answered stays true until the agent calls again: its reply is
\* there, or is not there, or is there although the handler does not know it.
AnswerKnows ==
  \A a \in Agents : answer[a].op # "none" =>
    /\ work[a].pc = "idle"
    /\ RepliesOf(a, answer[a].on) \in {answer[a].before, answer[a].before + 1}
    /\ answer[a].replied => RepliesOf(a, answer[a].on) = answer[a].before + 1

ThreadInv == ThreadTypeOK /\ HandlerKnows /\ AnswerKnows

Comments == Seq(Agents \union {Reviewer})
Thread   == [comments: Comments, resolved: BOOLEAN]

(***************************************************************************)
(* Counting the comments of an agent.                                      *)
(***************************************************************************)
By(a, s)     == {i \in DOMAIN s : s[i] = a}
Number(a, s) == Cardinality(By(a, s))

\* A thread has no more comments of an agent than it has comments.
LEMMA NumberBound ==
  ASSUME NEW a, NEW s \in Comments
  PROVE  IsFiniteSet(By(a, s)) /\ Number(a, s) \in 0..Len(s)
<1>1. Len(s) \in Nat /\ DOMAIN s = 1..Len(s)
  BY DEF Comments
<1>2. IsFiniteSet(1..Len(s)) /\ Cardinality(1..Len(s)) = Len(s)
  <2>1. Cardinality(1..Len(s)) = IF 1 > Len(s) THEN 0 ELSE Len(s) - 1 + 1
    BY <1>1, FS_Interval
  <2> QED BY <1>1, <2>1, FS_Interval
<1>3. By(a, s) \in SUBSET (1..Len(s))
  BY <1>1 DEF By
<1>4. IsFiniteSet(By(a, s)) /\ Cardinality(By(a, s)) <= Len(s)
  BY <1>2, <1>3, FS_Subset
<1>5. Cardinality(By(a, s)) \in Nat
  BY <1>4, FS_CardinalityType
<1> QED BY <1>1, <1>4, <1>5 DEF Number

\* One more comment counts for its author, and for nobody else.
LEMMA NumberAppend ==
  ASSUME NEW a, NEW s \in Comments, NEW b \in Agents \union {Reviewer}
  PROVE  /\ Append(s, b) \in Comments /\ Len(Append(s, b)) = Len(s) + 1
         /\ Number(a, Append(s, b)) = IF a = b THEN Number(a, s) + 1 ELSE Number(a, s)
<1> DEFINE n == Len(s) + 1
           t == Append(s, b)
<1>1. Len(s) \in Nat /\ DOMAIN s = 1..Len(s) /\ t \in Comments /\ Len(t) = n /\ DOMAIN t = 1..n
  BY DEF Comments
<1>2. t[n] = b /\ \A i \in 1..Len(s) : t[i] = s[i]
  BY DEF Comments
<1> HIDE DEF t
<1>3. CASE a = b
  <2>1. By(a, t) = By(a, s) \union {n} /\ n \notin By(a, s)
    BY <1>1, <1>2, <1>3 DEF By
  <2>2. IsFiniteSet(By(a, s))
    BY NumberBound
  <2>3. Cardinality(By(a, s) \union {n}) = Cardinality(By(a, s)) + 1
    BY <2>1, <2>2, FS_AddElement
  <2> QED BY <1>1, <1>3, <2>1, <2>3 DEF Number, t
<1>4. CASE a # b
  <2>1. By(a, t) = By(a, s)
    BY <1>1, <1>2, <1>4 DEF By
  <2> QED BY <1>1, <1>4, <2>1 DEF Number, t
<1> QED BY <1>3, <1>4

LEMMA NumberEmpty ==
  ASSUME NEW a
  PROVE  Number(a, <<>>) = 0
<1>1. By(a, <<>>) = {}
  BY DEF By
<1> QED BY <1>1, FS_EmptySet DEF Number

LEMMA RepliesAreNumbered ==
  ASSUME NEW a, NEW t
  PROVE  /\ RepliesOf(a, t) = Number(a, thread[t].comments)
         /\ RepliesOf(a, t)' = Number(a, thread'[t].comments)
BY DEF RepliesOf, Number, By

LEMMA ThreadFacts ==
  ASSUME ThreadTypeOK, NEW t \in Threads, NEW a \in Agents
  PROVE  /\ thread[t] \in Thread /\ thread[t].comments \in Comments
         /\ Len(thread[t].comments) \in 0..MaxComments
         /\ RepliesOf(a, t) \in 0..MaxComments
         /\ work[a] \in Work /\ answer[a] \in Answer
         /\ On(a) \in Threads /\ work[a].before \in 0..MaxComments /\ answer[a].on \in Threads
         /\ answer[a].before \in 0..MaxComments
<1>1. /\ thread[t] \in Thread /\ thread[t].comments \in Comments
      /\ Len(thread[t].comments) \in 0..MaxComments /\ MaxComments \in Nat
  BY ThreadParameters DEF ThreadTypeOK, Thread, Comments
<1>2. Number(a, thread[t].comments) \in 0..Len(thread[t].comments)
  BY <1>1, NumberBound
<1>3. RepliesOf(a, t) \in 0..MaxComments
  BY <1>1, <1>2, RepliesAreNumbered
<1>4. /\ work[a] \in Work /\ answer[a] \in Answer
      /\ On(a) \in Threads /\ work[a].before \in 0..MaxComments
      /\ answer[a].on \in Threads /\ answer[a].before \in 0..MaxComments
  BY DEF ThreadTypeOK, Work, Answer, On
<1> QED BY <1>1, <1>3, <1>4

LEMMA NobodyYet == NoWork \in Work /\ NoAnswer \in Answer
<1>1. (CHOOSE t \in Threads : TRUE) \in Threads /\ 0 \in 0..MaxComments
  BY ThreadParameters
<1> QED BY <1>1 DEF NoWork, NoAnswer, Work, Answer, Ops, Pcs

LEMMA InitThreadInv == ThreadInit => ThreadInv
<1> SUFFICES ASSUME ThreadInit PROVE ThreadInv
  OBVIOUS
<1>1. /\ <<>> \in Comments /\ Len(<<>>) <= MaxComments
      /\ NoWork \in Work /\ NoAnswer \in Answer /\ NoWork.pc = "idle" /\ NoAnswer.op = "none"
  BY ThreadParameters, NobodyYet DEF Comments, NoWork, NoAnswer
<1>2. ThreadTypeOK
  BY <1>1 DEF ThreadInit, ThreadTypeOK, Comments
<1>3. HandlerKnows /\ AnswerKnows
  BY <1>1 DEF ThreadInit, HandlerKnows, AnswerKnows
<1> QED BY <1>2, <1>3 DEF ThreadInv

(***************************************************************************)
(* What the GitHub calls do to the threads.                                *)
(***************************************************************************)

\* The threads keep their type, and the comments of everyone but a.
Keeps(a) ==
  /\ thread' \in [Threads -> Thread]
  /\ \A t \in Threads : Len(thread'[t].comments) <= MaxComments
  /\ \A b \in Agents \ {a}, t \in Threads : RepliesOf(b, t)' = RepliesOf(b, t)

\* They keep the comments of all agents.
KeepsAll ==
  /\ thread' \in [Threads -> Thread]
  /\ \A t \in Threads : Len(thread'[t].comments) <= MaxComments
  /\ \A b \in Agents, t \in Threads : RepliesOf(b, t)' = RepliesOf(b, t)

LEMMA UnchangedKeeps ==
  ASSUME ThreadTypeOK, UNCHANGED thread
  PROVE  KeepsAll
BY DEF ThreadTypeOK, Thread, Comments, KeepsAll, RepliesOf

LEMMA ResolvedKeeps ==
  ASSUME ThreadTypeOK, NEW u \in Threads, NEW resolved \in BOOLEAN,
         thread' = [thread EXCEPT ![u].resolved = resolved]
  PROVE  KeepsAll
<1>1. ASSUME NEW t \in Threads
      PROVE  thread'[t] \in Thread /\ thread'[t].comments = thread[t].comments
  <2> DEFINE x == thread[t]
  <2>1. x \in Thread /\ (thread'[t] = IF t = u THEN [x EXCEPT !.resolved = resolved] ELSE x)
    BY DEF ThreadTypeOK, Thread, Comments
  <2> HIDE DEF x
  <2>2. thread'[t] \in Thread /\ thread'[t].comments = x.comments
    BY <2>1 DEF Thread
  <2> QED BY <2>2 DEF x
<1>2. thread' \in [Threads -> Thread]
  BY <1>1 DEF ThreadTypeOK
<1>3. \A t \in Threads : Len(thread'[t].comments) <= MaxComments
  BY <1>1 DEF ThreadTypeOK
<1>4. ASSUME NEW b \in Agents, NEW t \in Threads
      PROVE  RepliesOf(b, t)' = RepliesOf(b, t)
  BY <1>1, RepliesAreNumbered
<1> QED BY <1>2, <1>3, <1>4 DEF KeepsAll

\* Threads that are opened had no comment, and have the reviewer's then.
LEMMA OpenedKeeps ==
  ASSUME ThreadTypeOK, NEW ts \in SUBSET {t \in Threads : ~Open(t)}, Opened(ts)
  PROVE  KeepsAll
<1> DEFINE one  == <<Reviewer>>
           none == <<>>
<1>1. /\ one \in Comments /\ Len(one) = 1 /\ Append(none, Reviewer) = one /\ none \in Comments
      /\ \A t \in ts : thread[t].comments = none
      /\ thread' = [t \in Threads |-> IF t \in ts THEN [thread[t] EXCEPT !.comments = one]
                                     ELSE thread[t]]
  BY DEF Comments, Open, Opened
<1> HIDE DEF one, none
<1>2. ASSUME NEW t \in Threads
      PROVE  /\ thread'[t] \in Thread
             /\ thread'[t].comments = IF t \in ts THEN one ELSE thread[t].comments
  <2> DEFINE x == thread[t]
  <2>1. /\ x \in Thread
        /\ thread'[t] = IF t \in ts THEN [x EXCEPT !.comments = one] ELSE x
    BY <1>1 DEF ThreadTypeOK, Thread, Comments
  <2> HIDE DEF x
  <2>2. /\ thread'[t] \in Thread
        /\ thread'[t].comments = IF t \in ts THEN one ELSE x.comments
    BY <1>1, <2>1 DEF Thread
  <2> QED BY <2>2 DEF x
<1>3. thread' \in [Threads -> Thread]
  <2>1. thread' = [t \in Threads |-> thread'[t]]
    <3> DEFINE new(t) == IF t \in ts THEN [thread[t] EXCEPT !.comments = one]
                         ELSE thread[t]
    <3>1. thread' = [t \in Threads |-> new(t)]
      BY <1>1
    <3> HIDE DEF new
    <3> QED BY <3>1
  <2> QED BY <1>2, <2>1
<1>4. \A t \in Threads : Len(thread'[t].comments) <= MaxComments
  <2>1. ASSUME NEW t \in Threads PROVE Len(thread'[t].comments) <= MaxComments
    <3>1. thread'[t].comments \in {one, thread[t].comments}
      BY <1>2
    <3>2. Len(thread[t].comments) <= MaxComments /\ Len(one) <= MaxComments
      BY <1>1, ThreadParameters DEF ThreadTypeOK
    <3> QED BY <3>1, <3>2
  <2> QED BY <2>1
<1>5. ASSUME NEW b \in Agents, NEW t \in Threads
      PROVE  RepliesOf(b, t)' = RepliesOf(b, t)
  <2>1. CASE t \in ts
    <3>1. thread[t].comments = none /\ thread'[t].comments = one
      BY <1>1, <1>2, <2>1
    <3>2. b # Reviewer /\ Reviewer \in Agents \union {Reviewer}
      BY ThreadParameters
    <3>3. Number(b, Append(none, Reviewer)) = Number(b, none)
      BY <1>1, <3>2, NumberAppend
    <3> QED BY <1>1, <3>1, <3>3, RepliesAreNumbered
  <2>2. CASE t \notin ts
    BY <1>2, <2>2, RepliesAreNumbered
  <2> QED BY <2>1, <2>2
<1> QED BY <1>3, <1>4, <1>5 DEF KeepsAll

\* A reply is one more comment of its author, on the thread of the handler.
LEMMA CommentKeeps ==
  ASSUME ThreadTypeOK, NEW a \in Agents, Comment(a)
  PROVE  /\ Keeps(a)
         /\ \A t \in Threads : RepliesOf(a, t)' =
              IF t = On(a) THEN RepliesOf(a, t) + 1 ELSE RepliesOf(a, t)
         /\ \A t \in Threads : thread'[t].resolved = thread[t].resolved
<1> DEFINE u == work[a].on
<1>1. u \in Threads /\ u = On(a) /\ Len(thread[u].comments) < MaxComments
  BY ThreadFacts DEF Comment, ThreadTypeOK, Work, On
<1>2. thread' = [thread EXCEPT ![u].comments = Append(@, a)]
  BY DEF Comment, On
<1> HIDE DEF u
<1>3. ASSUME NEW t \in Threads
      PROVE  /\ thread'[t] \in Thread /\ thread'[t].resolved = thread[t].resolved
             /\ thread'[t].comments = IF t = u THEN Append(thread[t].comments, a)
                                      ELSE thread[t].comments
  <2> DEFINE x == thread[t]
             s == Append(x.comments, a)
  <2>1. /\ x \in Thread
        /\ thread'[t] = IF t = u THEN [x EXCEPT !.comments = s] ELSE x
    BY <1>2 DEF ThreadTypeOK, Thread, Comments
  <2>2. s \in Comments
    BY <2>1, NumberAppend DEF Thread
  <2> HIDE DEF x, s
  <2>3. /\ thread'[t] \in Thread /\ thread'[t].resolved = x.resolved
        /\ thread'[t].comments = IF t = u THEN s ELSE x.comments
    BY <2>1, <2>2 DEF Thread
  <2> QED BY <2>3 DEF x, s
<1>4. thread' \in [Threads -> Thread]
  BY <1>2, <1>3 DEF ThreadTypeOK
<1>5. ASSUME NEW t \in Threads PROVE Len(thread'[t].comments) <= MaxComments
  <2>1. thread[t].comments \in Comments /\ Len(thread[t].comments) <= MaxComments
    BY DEF ThreadTypeOK, Comments
  <2>2. Len(Append(thread[t].comments, a)) = Len(thread[t].comments) + 1
    BY <2>1, NumberAppend
  <2>3. Len(thread[u].comments) \in Nat /\ MaxComments \in Nat
    <3>1. thread[u].comments \in Comments
      BY <1>1 DEF ThreadTypeOK, Comments
    <3> QED BY <3>1, ThreadParameters DEF Comments
  <2>4. CASE t = u
    <3>1. thread'[t].comments = Append(thread[t].comments, a)
      BY <1>3, <2>4
    <3>2. Len(thread[t].comments) < MaxComments /\ Len(thread[t].comments) \in Nat
      BY <1>1, <2>3, <2>4
    <3> DEFINE n == Len(thread[t].comments)
    <3>3. Len(thread'[t].comments) = n + 1 /\ n < MaxComments /\ n \in Nat
      BY <2>2, <3>1, <3>2
    <3> HIDE DEF n
    <3> QED BY <2>3, <3>3
  <2>5. CASE t # u
    BY <1>3, <2>1, <2>5
  <2> QED BY <2>4, <2>5
<1>6. ASSUME NEW b \in Agents, NEW t \in Threads
      PROVE  RepliesOf(b, t)' = IF t = u /\ b = a THEN RepliesOf(b, t) + 1 ELSE RepliesOf(b, t)
  <2>1. thread[t].comments \in Comments
    BY DEF ThreadTypeOK, Comments
  <2>2. Number(b, Append(thread[t].comments, a)) =
          IF b = a THEN Number(b, thread[t].comments) + 1 ELSE Number(b, thread[t].comments)
    BY <2>1, NumberAppend
  <2> QED BY <1>3, <2>2, RepliesAreNumbered
<1> QED BY <1>1, <1>3, <1>4, <1>5, <1>6 DEF Keeps

(***************************************************************************)
(* The steps of the handlers.                                              *)
(***************************************************************************)

\* What the invariant says of one agent, in terms of its handler w, its answer x
\* and the number of its replies on each thread.
Knows(w, x, replies) ==
  /\ w.pc # "idle" =>
       /\ replies[w.on] = w.before + (IF w.replied THEN 1 ELSE 0)
       /\ w.pc \in {"find", "post"} \/ w.op # "both" => ~w.replied
       /\ w.pc \in {"check", "mutate"} /\ w.op = "both" => w.replied
  /\ x.op # "none" =>
       /\ w.pc = "idle"
       /\ replies[x.on] \in {x.before, x.before + 1}
       /\ x.replied => replies[x.on] = x.before + 1

Replies(a) == [t \in Threads |-> RepliesOf(a, t)]

LEMMA EachAgentKnows ==
  ASSUME ThreadTypeOK
  PROVE  HandlerKnows /\ AnswerKnows <=> \A a \in Agents : Knows(work[a], answer[a], Replies(a))
<1>1. ASSUME NEW a \in Agents
      PROVE  /\ Replies(a)[work[a].on] = RepliesOf(a, On(a))
             /\ Replies(a)[answer[a].on] = RepliesOf(a, answer[a].on)
  BY ThreadFacts DEF Replies, On, ThreadTypeOK, Work, Answer
<1> QED BY <1>1 DEF HandlerKnows, AnswerKnows, Knows

\* A step of the handler of a: what it leaves of a satisfies the invariant, and
\* the rest of the state is not its business.
LEMMA HandlerStepInv ==
  ASSUME ThreadInv, NEW a \in Agents, NEW w \in Work, NEW x \in Answer,
         work' = [work EXCEPT ![a] = w], answer' = [answer EXCEPT ![a] = x],
         Keeps(a),
         w.pc \in {"find", "post"} => w.op # "resolve",
         w.pc \in {"mutate", "return"} => w.op # "reply",
         Knows(w, x, Replies(a)')
  PROVE  ThreadInv'
<1>1. \A b \in Agents : /\ work'[b] = IF b = a THEN w ELSE work[b]
                        /\ answer'[b] = IF b = a THEN x ELSE answer[b]
  BY DEF ThreadInv, ThreadTypeOK
<1>2. ThreadTypeOK'
  <2>1. work' \in [Agents -> Work] /\ answer' \in [Agents -> Answer]
    BY DEF ThreadInv, ThreadTypeOK
  <2>2. \A b \in Agents : /\ work'[b].pc \in {"find", "post"} => work'[b].op # "resolve"
                          /\ work'[b].pc \in {"mutate", "return"} => work'[b].op # "reply"
    <3> SUFFICES ASSUME NEW b \in Agents
                 PROVE  /\ work'[b].pc \in {"find", "post"} => work'[b].op # "resolve"
                        /\ work'[b].pc \in {"mutate", "return"} => work'[b].op # "reply"
      OBVIOUS
    <3>1. \/ work'[b] = w
          \/ work'[b] = work[b]
      BY <1>1
    <3>2. /\ work[b].pc \in {"find", "post"} => work[b].op # "resolve"
          /\ work[b].pc \in {"mutate", "return"} => work[b].op # "reply"
      BY DEF ThreadInv, ThreadTypeOK
    <3> QED BY <3>1, <3>2
  <2> QED BY <2>1, <2>2 DEF Keeps, ThreadTypeOK, Thread, Comments
<1>3. ASSUME NEW b \in Agents PROVE Knows(work[b], answer[b], Replies(b))'
  <2>1. CASE b = a
    <3>1. work'[b] = w /\ answer'[b] = x
      BY <1>1, <2>1
    <3>2. Replies(b)' = Replies(a)'
      BY <2>1 DEF Replies
    <3> QED BY <3>1, <3>2 DEF Knows
  <2>2. CASE b # a
    <3>1. Replies(b)' = Replies(b)
      BY <2>2 DEF Keeps, Replies
    <3>2. Knows(work[b], answer[b], Replies(b))
      BY EachAgentKnows DEF ThreadInv
    <3>3. work'[b] = work[b] /\ answer'[b] = answer[b]
      BY <1>1, <2>2
    <3> QED BY <3>1, <3>2, <3>3
  <2> QED BY <2>1, <2>2
<1>4. (HandlerKnows /\ AnswerKnows)'
  <2>1. ASSUME NEW b \in Agents
        PROVE  /\ Replies(b)'[work'[b].on] = RepliesOf(b, On(b))'
               /\ Replies(b)'[answer'[b].on] = RepliesOf(b, answer[b].on)'
    <3>1. work'[b].on \in Threads /\ answer'[b].on \in Threads
      BY <1>2 DEF ThreadTypeOK, Work, Answer
    <3> QED BY <3>1 DEF Replies, RepliesOf, On
  <2> QED BY <1>3, <2>1 DEF HandlerKnows, AnswerKnows, Knows
<1> QED BY <1>2, <1>4 DEF ThreadInv

\* The handler of a goes on, as w; nothing is answered.
LEMMA GoesOnInv ==
  ASSUME ThreadInv, NEW a \in Agents, work[a].pc # "idle", NEW w \in Work,
         work' = [work EXCEPT ![a] = w], UNCHANGED answer, Keeps(a), w.pc # "idle",
         w.pc \in {"find", "post"} => w.op # "resolve",
         w.pc \in {"mutate", "return"} => w.op # "reply",
         \A t \in Threads :
           t = w.on => RepliesOf(a, t)' = w.before + (IF w.replied THEN 1 ELSE 0),
         w.pc \in {"find", "post"} \/ w.op # "both" => ~w.replied,
         w.pc \in {"check", "mutate"} /\ w.op = "both" => w.replied
  PROVE  ThreadInv'
<1>1. answer[a] \in Answer /\ answer[a].op = "none" /\ answer' = [answer EXCEPT ![a] = answer[a]]
  BY DEF ThreadInv, ThreadTypeOK, AnswerKnows
<1>2. w.on \in Threads
  BY DEF Work
<1>3. Replies(a)'[w.on] = w.before + (IF w.replied THEN 1 ELSE 0)
  BY <1>2 DEF Replies
<1>4. Knows(w, answer[a], Replies(a)')
  BY <1>1, <1>3 DEF Knows
<1> QED BY <1>1, <1>4, HandlerStepInv

\* The handler of a returns and says whether it replied.
LEMMA ReturnsInv ==
  ASSUME ThreadInv, NEW a \in Agents, work[a].pc # "idle", Keeps(a),
         NEW replied \in BOOLEAN, NEW resolved \in BOOLEAN, NEW already \in BOOLEAN,
         Answers(a, replied, resolved, already),
         \A t \in Threads : t = On(a) =>
           /\ RepliesOf(a, t)' \in {work[a].before, work[a].before + 1}
           /\ replied => RepliesOf(a, t)' = work[a].before + 1
  PROVE  ThreadInv'
<1> DEFINE x == [op |-> work[a].op, on |-> work[a].on, replied |-> replied, resolved |-> resolved,
                 already |-> already, before |-> work[a].before]
<1>1. work[a] \in Work
  BY DEF ThreadInv, ThreadTypeOK
<1>2. /\ x \in Answer /\ x.on = work[a].on /\ x.before = work[a].before /\ x.replied = replied
      /\ x.on \in Threads
  BY <1>1 DEF Work, Answer
<1>3. answer' = [answer EXCEPT ![a] = x] /\ work' = [work EXCEPT ![a] = NoWork]
  BY DEF Answers, On
<1>4. NoWork \in Work /\ NoWork.pc = "idle"
  BY NobodyYet DEF NoWork
<1>5. /\ Replies(a)'[x.on] \in {x.before, x.before + 1}
      /\ replied => Replies(a)'[x.on] = x.before + 1
  <2> DEFINE on == work[a].on
  <2>1. on \in Threads /\ on = On(a) /\ Replies(a)'[x.on] = Replies(a)'[on]
    BY <1>2 DEF On
  <2> HIDE DEF on
  <2>2. \A t \in Threads : Replies(a)'[t] = RepliesOf(a, t)'
    BY DEF Replies
  <2>3. Replies(a)'[on] \in {work[a].before, work[a].before + 1}
        /\ (replied => Replies(a)'[on] = work[a].before + 1)
    BY <2>1, <2>2
  <2> QED BY <1>2, <2>1, <2>3
<1> HIDE DEF x
<1>6. Knows(NoWork, x, Replies(a)')
  BY <1>2, <1>4, <1>5 DEF Knows
<1> QED BY <1>2, <1>3, <1>4, <1>6, HandlerStepInv

LEMMA CallInv ==
  ASSUME ThreadInv, NEW a \in Agents, NEW t \in Threads, NEW op \in Ops, NEW resolve \in BOOLEAN,
         Call(a, op, t, resolve)
  PROVE  ThreadInv'
<1> DEFINE n == RepliesOf(a, t)
<1>1. n \in 0..MaxComments /\ Keeps(a) /\ RepliesOf(a, t)' = n
  BY ThreadFacts, UnchangedKeeps DEF Call, ThreadInv, KeepsAll, Keeps
<1> HIDE DEF n
<1> DEFINE w == [pc |-> IF op = "both" THEN "find" ELSE "check", op |-> op, on |-> t,
                 resolve |-> resolve, replied |-> FALSE, already |-> FALSE, before |-> n,
                 reopened |-> FALSE]
<1>2. /\ w \in Work /\ w.pc \in {"find", "check"} /\ (w.pc = "find" <=> w.op = "both") /\ ~w.replied
      /\ w.before = n /\ w.on = t
  BY <1>1 DEF Work, Ops, Pcs
<1>3. work' = [work EXCEPT ![a] = w] /\ answer' = [answer EXCEPT ![a] = NoAnswer]
  BY DEF Call, n
<1>4. NoAnswer \in Answer /\ NoAnswer.op = "none"
  BY NobodyYet DEF NoAnswer
<1> HIDE DEF w
<1>5. Replies(a)'[w.on] = n
  BY <1>1, <1>2 DEF Replies
<1>6. Knows(w, NoAnswer, Replies(a)')
  BY <1>1, <1>2, <1>4, <1>5 DEF Knows
<1> QED BY <1>1, <1>2, <1>3, <1>4, <1>6, HandlerStepInv

\* What the invariant says of a handler under way.
LEMMA HandlerFacts ==
  ASSUME ThreadInv, NEW a \in Agents, work[a].pc # "idle"
  PROVE  /\ work[a] \in Work /\ On(a) = work[a].on /\ On(a) \in Threads
         /\ work[a].before \in 0..MaxComments /\ work[a].replied \in BOOLEAN
         /\ work[a].already \in BOOLEAN /\ thread[On(a)].resolved \in BOOLEAN
         /\ RepliesOf(a, On(a)) = work[a].before + (IF work[a].replied THEN 1 ELSE 0)
         /\ work[a].pc \in {"find", "post"} \/ work[a].op # "both" => ~work[a].replied
         /\ work[a].pc \in {"check", "mutate"} /\ work[a].op = "both" => work[a].replied
         /\ work[a].pc \in {"find", "post"} => work[a].op # "resolve"
         /\ work[a].pc \in {"mutate", "return"} => work[a].op # "reply"
<1>1. /\ work[a] \in Work /\ On(a) = work[a].on /\ On(a) \in Threads
      /\ work[a].before \in 0..MaxComments /\ work[a].replied \in BOOLEAN
      /\ work[a].already \in BOOLEAN
  BY DEF ThreadInv, ThreadTypeOK, Work, On
<1>2. thread[On(a)].resolved \in BOOLEAN
  BY <1>1 DEF ThreadInv, ThreadTypeOK
<1> QED BY <1>1, <1>2 DEF ThreadInv, ThreadTypeOK, HandlerKnows

\* The handler of a returns with the threads as they were, but for resolved.
LEMMA ReturnsWithoutReplyInv ==
  ASSUME ThreadInv, NEW a \in Agents, work[a].pc # "idle", KeepsAll,
         NEW replied \in BOOLEAN, replied => work[a].replied,
         NEW resolved \in BOOLEAN, NEW already \in BOOLEAN,
         Answers(a, replied, resolved, already)
  PROVE  ThreadInv'
<1>1. Keeps(a) /\ \A t \in Threads : RepliesOf(a, t)' = RepliesOf(a, t)
  BY DEF KeepsAll, Keeps
<1>2. /\ work[a].before \in 0..MaxComments
      /\ RepliesOf(a, On(a)) = work[a].before + (IF work[a].replied THEN 1 ELSE 0)
  BY HandlerFacts
<1>3. \A t \in Threads : t = On(a) =>
        /\ RepliesOf(a, t)' \in {work[a].before, work[a].before + 1}
        /\ replied => RepliesOf(a, t)' = work[a].before + 1
  BY <1>1, <1>2, ThreadParameters
<1> QED BY <1>1, <1>3, ReturnsInv

\* It goes on, with the threads as they were, but for resolved.
LEMMA ProceedsInv ==
  ASSUME ThreadInv, NEW a \in Agents, work[a].pc # "idle", KeepsAll, UNCHANGED answer,
         NEW w \in Work, work' = [work EXCEPT ![a] = w],
         w.op = work[a].op, w.on = work[a].on, w.before = work[a].before,
         w.replied = work[a].replied, w.pc # "idle",
         w.pc \in {"find", "post"} => w.op = "reply" \/ work[a].pc \in {"find", "post"},
         w.pc \in {"check", "mutate", "return"} =>
           w.op # "reply" /\ work[a].pc \in {"check", "mutate"}
  PROVE  ThreadInv'
<1>1. Keeps(a) /\ \A t \in Threads : RepliesOf(a, t)' = RepliesOf(a, t)
  BY DEF KeepsAll, Keeps
<1>2. w.pc \in {"find", "post", "check", "mutate", "return"}
  BY DEF Work, Pcs
<1>3. \A t \in Threads : t = w.on => RepliesOf(a, t)' = w.before + (IF w.replied THEN 1 ELSE 0)
  BY <1>1, HandlerFacts
<1> QED BY <1>1, <1>2, <1>3, HandlerFacts, GoesOnInv

LEMMA ProceedInv ==
  ASSUME ThreadInv, NEW a \in Agents, work[a].pc # "idle", KeepsAll, UNCHANGED answer,
         NEW pc \in Pcs \ {"idle"}, Proceed(a, pc),
         pc = "post" => work[a].pc = "find",
         pc = "find" => work[a].op = "reply",
         pc \in {"check", "mutate", "return"} =>
           work[a].op # "reply" /\ work[a].pc \in {"check", "mutate"}
  PROVE  ThreadInv'
<1> DEFINE x == work[a]
           w == [x EXCEPT !.pc = pc]
<1>1. x \in Work /\ work' = [work EXCEPT ![a] = w]
  BY HandlerFacts DEF Proceed
<1> HIDE DEF x
<1>2. /\ w \in Work /\ w.pc = pc /\ w.op = x.op /\ w.on = x.on /\ w.before = x.before
      /\ w.replied = x.replied
  BY <1>1 DEF Work
<1> HIDE DEF w
<1> QED BY <1>1, <1>2, ProceedsInv DEF x

LEMMA CheckResolvedInv ==
  ASSUME ThreadInv, NEW a \in Agents, CheckResolved(a)
  PROVE  ThreadInv'
<1> DEFINE resolved == thread[On(a)].resolved
           next == IF work[a].op = "reply" THEN "find"
                   ELSE IF resolved THEN "return" ELSE "mutate"
           x == work[a]
           y == [x EXCEPT !.pc = next]
           w == [y EXCEPT !.already = resolved]
<1>1. work[a].pc = "check" /\ UNCHANGED <<thread, answer>>
  BY DEF CheckResolved, In
<1>2. KeepsAll
  BY <1>1, UnchangedKeeps DEF ThreadInv
<1>3. /\ work' = [work EXCEPT ![a] = w] /\ x \in Work /\ x.pc = "check" /\ resolved \in BOOLEAN
      /\ next \in {"find", "return", "mutate"} /\ (next = "find" <=> x.op = "reply")
  <2>1. work' = [work EXCEPT ![a].pc = next, ![a].already = resolved]
    BY DEF CheckResolved
  <2> QED BY <1>1, <2>1, HandlerFacts
<1> HIDE DEF x, resolved, next
<1>4. /\ y \in Work /\ y.pc = next /\ y.op = x.op /\ y.on = x.on /\ y.before = x.before
      /\ y.replied = x.replied
  BY <1>3 DEF Work, Pcs
<1> HIDE DEF y
<1>5. /\ w \in Work /\ w.pc = next /\ w.op = x.op /\ w.on = x.on /\ w.before = x.before
      /\ w.replied = x.replied
  BY <1>3, <1>4 DEF Work
<1> HIDE DEF w
<1> QED BY <1>1, <1>2, <1>3, <1>5, ProceedsInv DEF x

LEMMA FindCommentInv ==
  ASSUME ThreadInv, NEW a \in Agents, FindComment(a)
  PROVE  ThreadInv'
<1>1. work[a].pc = "find" /\ UNCHANGED <<thread, answer>> /\ Proceed(a, "post")
  BY DEF FindComment, In
<1>2. KeepsAll
  BY <1>1, UnchangedKeeps DEF ThreadInv
<1> QED BY <1>1, <1>2, ProceedInv DEF Pcs

LEMMA ResolveInv ==
  ASSUME ThreadInv, NEW a \in Agents, Resolve(a)
  PROVE  ThreadInv'
<1>1. work[a].pc = "mutate" /\ UNCHANGED answer /\ Proceed(a, "return")
  BY DEF Resolve, In
<1>2. On(a) \in Threads /\ work[a].op # "reply"
  BY <1>1, HandlerFacts
<1>3. KeepsAll
  BY <1>2, ResolvedKeeps DEF Resolve, ThreadInv
<1> QED BY <1>1, <1>2, <1>3, ProceedInv DEF Pcs

LEMMA PostReplyInv ==
  ASSUME ThreadInv, NEW a \in Agents, PostReply(a)
  PROVE  ThreadInv'
<1>1. work[a].pc = "post" /\ Comment(a)
  BY DEF PostReply, In
<1>2. /\ Keeps(a)
      /\ \A t \in Threads : RepliesOf(a, t)' =
           IF t = On(a) THEN RepliesOf(a, t) + 1 ELSE RepliesOf(a, t)
  BY <1>1, CommentKeeps DEF ThreadInv
<1>3. /\ RepliesOf(a, On(a)) = work[a].before /\ work[a].before \in 0..MaxComments
      /\ work[a].already \in BOOLEAN /\ work[a] \in Work /\ On(a) = work[a].on
  BY <1>1, HandlerFacts
<1>4. CASE work[a].op = "both" /\ work[a].resolve
  <2> DEFINE x == work[a]
             w == [x EXCEPT !.pc = "check", !.replied = TRUE]
  <2>1. work' = [work EXCEPT ![a] = w] /\ UNCHANGED answer
    <3>1. work' = [work EXCEPT ![a].pc = "check", ![a].replied = TRUE] /\ UNCHANGED answer
      BY <1>4 DEF PostReply
    <3>2. work \in [Agents -> Work]
      BY DEF ThreadInv, ThreadTypeOK
    <3> QED BY <3>1, <3>2
  <2>2. x \in Work /\ x.op = "both" /\ x.before \in 0..MaxComments /\ x.on = On(a)
        /\ RepliesOf(a, On(a)) = x.before
    BY <1>3, <1>4
  <2> HIDE DEF x
  <2>3. /\ w \in Work /\ w.pc = "check" /\ w.op = "both" /\ w.replied /\ w.on = x.on
        /\ w.before = x.before
    BY <2>2 DEF Work, Pcs
  <2> HIDE DEF w
  <2>4. \A t \in Threads : t = w.on => RepliesOf(a, t)' = w.before + (IF w.replied THEN 1 ELSE 0)
    BY <1>2, <2>2, <2>3
  <2> QED BY <1>1, <1>2, <2>1, <2>3, <2>4, GoesOnInv
<1>5. CASE ~(work[a].op = "both" /\ work[a].resolve)
  <2>1. Answers(a, TRUE, FALSE, work[a].already)
    BY <1>5 DEF PostReply
  <2>2. \A t \in Threads : t = On(a) => RepliesOf(a, t)' = work[a].before + 1
    BY <1>2, <1>3
  <2> QED BY <1>1, <1>2, <1>3, <2>1, <2>2, ReturnsInv, ThreadParameters
<1> QED BY <1>4, <1>5

LEMMA ReplyLostInv ==
  ASSUME ThreadInv, NEW a \in Agents, ReplyLost(a)
  PROVE  ThreadInv'
<1>1. work[a].pc = "post" /\ Comment(a) /\ Answers(a, FALSE, FALSE, FALSE)
  BY DEF ReplyLost, In
<1>2. /\ Keeps(a)
      /\ \A t \in Threads : RepliesOf(a, t)' =
           IF t = On(a) THEN RepliesOf(a, t) + 1 ELSE RepliesOf(a, t)
  BY <1>1, CommentKeeps DEF ThreadInv
<1>3. RepliesOf(a, On(a)) = work[a].before
  BY <1>1, HandlerFacts
<1>4. \A t \in Threads : t = On(a) => RepliesOf(a, t)' = work[a].before + 1
  BY <1>2, <1>3
<1> QED BY <1>1, <1>2, <1>4, ReturnsInv

LEMMA OtherReturnsInv ==
  ASSUME ThreadInv, NEW a \in Agents, Return(a) \/ ResolveLost(a) \/ CallFails(a)
  PROVE  ThreadInv'
<1>1. work[a].pc # "idle"
  BY DEF Return, ResolveLost, CallFails, In
<1>2. On(a) \in Threads /\ work[a].replied \in BOOLEAN /\ work[a].already \in BOOLEAN
  BY <1>1, HandlerFacts
<1>3. KeepsAll
  BY <1>2, ResolvedKeeps, UnchangedKeeps DEF Return, ResolveLost, CallFails, ThreadInv
<1>4. PICK resolved \in BOOLEAN, already \in BOOLEAN :
        Answers(a, work[a].replied, resolved, already)
  BY <1>2 DEF Return, ResolveLost, CallFails
<1> QED BY <1>1, <1>2, <1>3, <1>4, ReturnsWithoutReplyInv

LEMMA AgentStepInv ==
  ASSUME ThreadInv, NEW a \in Agents, AgentStep(a)
  PROVE  ThreadInv'
BY CheckResolvedInv, FindCommentInv, PostReplyInv, ResolveInv, ReplyLostInv, OtherReturnsInv
   DEF AgentStep

\* Of the handlers nothing changes but that a thread was reopened behind their back.
OnlyReopened ==
  /\ work' \in [Agents -> Work]
  /\ \A a \in Agents : /\ work'[a].pc = work[a].pc /\ work'[a].op = work[a].op
                       /\ work'[a].on = work[a].on /\ work'[a].before = work[a].before
                       /\ work'[a].replied = work[a].replied

\* A step of GitHub's users: no handler is concerned.
LEMMA UserStepInv ==
  ASSUME ThreadInv, KeepsAll, OnlyReopened, UNCHANGED answer
  PROVE  ThreadInv'
<1>1. ThreadTypeOK'
  BY DEF ThreadInv, ThreadTypeOK, KeepsAll, Thread, Comments, OnlyReopened
<1>2. \A a \in Agents, t \in Threads : RepliesOf(a, t)' = RepliesOf(a, t)
  BY DEF KeepsAll
<1>3. ASSUME NEW a \in Agents
      PROVE  /\ RepliesOf(a, On(a))' = RepliesOf(a, On(a))
             /\ RepliesOf(a, answer[a].on)' = RepliesOf(a, answer[a].on)
  <2>1. work[a].on \in Threads /\ answer[a].on \in Threads /\ work'[a].on = work[a].on
    BY ThreadFacts DEF ThreadInv, ThreadTypeOK, Work, Answer, OnlyReopened
  <2>2. /\ RepliesOf(a, On(a))' = Cardinality({i \in DOMAIN thread'[work[a].on].comments :
                                                 thread'[work[a].on].comments[i] = a})
        /\ RepliesOf(a, answer[a].on)' = Cardinality({i \in DOMAIN thread'[answer[a].on].comments :
                                                        thread'[answer[a].on].comments[i] = a})
    BY <2>1 DEF RepliesOf, On
  <2>3. \A t \in Threads : Cardinality({i \in DOMAIN thread'[t].comments :
                                          thread'[t].comments[i] = a}) = RepliesOf(a, t)
    BY <1>2 DEF RepliesOf
  <2> QED BY <2>1, <2>2, <2>3 DEF On
<1>4. HandlerKnows' /\ AnswerKnows'
  BY <1>3 DEF ThreadInv, HandlerKnows, AnswerKnows, OnlyReopened
<1> QED BY <1>1, <1>4 DEF ThreadInv

LEMMA SameWork == ASSUME ThreadTypeOK, UNCHANGED work PROVE OnlyReopened
BY DEF ThreadTypeOK, OnlyReopened

LEMMA OpenedInv ==
  ASSUME ThreadInv, NEW ts \in SUBSET {t \in Threads : ~Open(t)}, Opened(ts),
         UNCHANGED <<work, answer>>
  PROVE  ThreadInv'
BY OpenedKeeps, SameWork, UserStepInv DEF ThreadInv

LEMMA UserSetsEffect ==
  ASSUME ThreadInv, NEW t \in Threads, NEW resolved \in BOOLEAN, UserSets(t, resolved)
  PROVE  /\ work' \in [Agents -> Work]
         /\ \A a \in Agents :
              /\ work'[a].pc = work[a].pc /\ work'[a].op = work[a].op
              /\ work'[a].on = work[a].on /\ work'[a].before = work[a].before
              /\ work'[a].replied = work[a].replied
              /\ work'[a].reopened <=>
                   work[a].reopened \/ (~resolved /\ In(a, "return") /\ On(a) = t)
<1> DEFINE hit(a) == ~resolved /\ In(a, "return") /\ On(a) = t
           new(a) == IF hit(a) THEN [work[a] EXCEPT !.reopened = TRUE] ELSE work[a]
<1>1. work' = [a \in Agents |-> new(a)]
  BY DEF UserSets
<1>2. ASSUME NEW a \in Agents
      PROVE  /\ new(a) \in Work
             /\ new(a).pc = work[a].pc /\ new(a).op = work[a].op
             /\ new(a).on = work[a].on /\ new(a).before = work[a].before
             /\ new(a).replied = work[a].replied
             /\ new(a).reopened <=> work[a].reopened \/ hit(a)
  <2> DEFINE x == work[a]
             h == hit(a)
             z == new(a)
  <2>1. x \in Work /\ z = IF h THEN [x EXCEPT !.reopened = TRUE] ELSE x
    BY DEF ThreadInv, ThreadTypeOK
  <2> HIDE DEF x, h, z
  <2>2. CASE h
    <3>1. z = [x EXCEPT !.reopened = TRUE]
      BY <2>1, <2>2
    <3>2. /\ z \in Work /\ z.pc = x.pc /\ z.op = x.op /\ z.on = x.on /\ z.before = x.before
          /\ z.replied = x.replied /\ z.reopened = TRUE
      BY <2>1, <3>1 DEF Work
    <3> QED BY <2>2, <3>2, Zenon DEF x, h, z
  <2>3. CASE ~h
    <3>1. z = x
      BY <2>1, <2>3
    <3> QED BY <2>1, <2>3, <3>1, Zenon DEF x, h, z
  <2> QED BY <2>2, <2>3
<1> HIDE DEF new
<1>3. \A a \in Agents : work'[a] = new(a)
  BY <1>1
<1> QED BY <1>1, <1>2, <1>3

LEMMA UserSetsInv ==
  ASSUME ThreadInv, NEW t \in Threads, NEW resolved \in BOOLEAN, UserSets(t, resolved)
  PROVE  ThreadInv'
<1>1. KeepsAll /\ UNCHANGED answer
  BY ResolvedKeeps DEF ThreadInv, UserSets
<1>2. OnlyReopened
  BY UserSetsEffect DEF OnlyReopened
<1> QED BY <1>1, <1>2, UserStepInv

LEMMA ThreadInvIsInductive ==
  ThreadInv /\ [ThreadNext]_threadVars => ThreadInv'
<1> SUFFICES ASSUME ThreadInv, [ThreadNext]_threadVars PROVE ThreadInv'
  OBVIOUS
<1>1. CASE UNCHANGED threadVars
  BY <1>1, UnchangedKeeps, SameWork, UserStepInv DEF threadVars, ThreadInv
<1>2. ASSUME NEW t \in Threads, OpenThread(t) PROVE ThreadInv'
  <2>1. {t} \in SUBSET {u \in Threads : ~Open(u)}
    BY <1>2 DEF OpenThread
  <2> QED BY <1>2, <2>1, OpenedInv DEF OpenThread
<1> QED BY <1>1, <1>2, CallInv, AgentStepInv, UserSetsInv DEF ThreadNext

(***************************************************************************)
(* The theorems.                                                           *)
(***************************************************************************)

\* The threads, the handlers of the thread tools and their answers keep their
\* types.
THEOREM ThreadTypeCorrect == ThreadSpec => []ThreadTypeOK
<1>1. ThreadInv => ThreadTypeOK
  BY DEF ThreadInv
<1> QED BY <1>1, InitThreadInv, ThreadInvIsInductive, PTL DEF ThreadSpec

\* A handler of the thread tools posts at most one reply, whichever of its calls
\* fail and however late their answers are lost, and replied is true only of a
\* reply that is there.
THEOREM ReplyIsPostedOnce == ThreadSpec => []RepliedOnce
<1>1. ASSUME ThreadInv PROVE RepliedOnce
  <2>1. ASSUME NEW a \in Agents, answer[a].op # "none"
        PROVE  /\ RepliesOf(a, answer[a].on) <= answer[a].before + 1
               /\ answer[a].replied => RepliesOf(a, answer[a].on) = answer[a].before + 1
    <3>1. answer[a].before \in 0..MaxComments
      BY <1>1 DEF ThreadInv, ThreadTypeOK, Answer
    <3>2. RepliesOf(a, answer[a].on) \in {answer[a].before, answer[a].before + 1}
      BY <1>1, <2>1 DEF ThreadInv, AnswerKnows
    <3>3. answer[a].replied => RepliesOf(a, answer[a].on) = answer[a].before + 1
      BY <1>1, <2>1 DEF ThreadInv, AnswerKnows
    <3> QED BY <3>1, <3>2, <3>3, ThreadParameters
  <2>2. ASSUME NEW a \in Agents, work[a].pc # "idle"
        PROVE  RepliesOf(a, On(a)) <= work[a].before + 1
    BY <1>1, <2>2, HandlerFacts, ThreadParameters
  <2> QED BY <2>1, <2>2 DEF RepliedOnce
<1> QED BY <1>1, InitThreadInv, ThreadInvIsInductive, PTL DEF ThreadSpec

\* reply_and_resolve comes to the resolution of a thread only with its reply on it.
THEOREM ReplyComesFirst == ThreadSpec => []RepliedBeforeResolving
<1>1. ASSUME ThreadInv PROVE RepliedBeforeResolving
  <2>1. ASSUME NEW a \in Agents, work[a].op = "both", work[a].pc \in {"check", "mutate"}
        PROVE  RepliesOf(a, On(a)) > work[a].before
    BY <1>1, <2>1, HandlerFacts, ThreadParameters
  <2> QED BY <2>1 DEF RepliedBeforeResolving
<1> QED BY <1>1, InitThreadInv, ThreadInvIsInductive, PTL DEF ThreadSpec

(***************************************************************************)
(* resolved is answered of resolved threads.                               *)
(***************************************************************************)
\* A handler that is about to say resolved knows it of a thread that still is, or
\* that someone reopened meanwhile.
ReturnsResolved(a) == In(a, "return") => thread[On(a)].resolved \/ work[a].reopened

\* A step of a handler unresolves no thread; it comes to know the thread resolved
\* when it is, and says so only when it came to know it.
LEMMA HandlerMoves ==
  ASSUME ThreadInv, NEW b \in Agents, AgentStep(b)
  PROVE  /\ \A a \in Agents \ {b} : work'[a] = work[a]
         /\ \A t \in Threads : thread[t].resolved => thread'[t].resolved
         /\ \/ work'[b].pc \notin {"idle", "return"}
            \/ work'[b].pc = "return" /\ work'[b].on = work[b].on /\ thread'[On(b)].resolved
            \/ work'[b].pc = "idle" /\ (answer'[b].resolved => In(b, "return") /\ UNCHANGED thread)
<1>1. /\ work \in [Agents -> Work] /\ answer \in [Agents -> Answer]
      /\ thread \in [Threads -> Thread] /\ NoWork.pc = "idle"
  BY DEF ThreadInv, ThreadTypeOK, Thread, Comments, NoWork
<1>2. work[b].pc # "idle"
  BY DEF AgentStep, CheckResolved, FindComment, PostReply, Resolve, Return, CallFails, ReplyLost,
         ResolveLost, In
<1>3. On(b) \in Threads /\ work[b] \in Work
  BY <1>2, HandlerFacts
<1>4. ASSUME NEW replied, NEW resolved, NEW already, Answers(b, replied, resolved, already)
      PROVE  /\ \A a \in Agents \ {b} : work'[a] = work[a]
             /\ work'[b].pc = "idle" /\ answer'[b].resolved = resolved
  BY <1>1, <1>4 DEF Answers
<1>5. ASSUME NEW pc \in Pcs, Proceed(b, pc)
      PROVE  /\ \A a \in Agents \ {b} : work'[a] = work[a]
             /\ work'[b].pc = pc /\ work'[b].on = work[b].on
  <2> DEFINE x == work[b]
  <2>1. x \in Work /\ work' = [work EXCEPT ![b] = [x EXCEPT !.pc = pc]]
    BY <1>1, <1>5 DEF Proceed
  <2> HIDE DEF x
  <2>2. [x EXCEPT !.pc = pc].pc = pc /\ [x EXCEPT !.pc = pc].on = x.on
    BY <2>1 DEF Work
  <2> QED BY <1>1, <2>1, <2>2 DEF x
<1>6. ASSUME thread' = [thread EXCEPT ![On(b)].resolved = TRUE]
      PROVE  thread'[On(b)].resolved /\ \A t \in Threads : thread[t].resolved => thread'[t].resolved
  BY <1>1, <1>3, <1>6 DEF Thread
<1>7. Comment(b) => \A t \in Threads : thread'[t].resolved = thread[t].resolved
  BY CommentKeeps DEF ThreadInv
<1>8. CASE CheckResolved(b)
  <2> DEFINE resolved == thread[On(b)].resolved
             next == IF work[b].op = "reply" THEN "find"
                     ELSE IF resolved THEN "return" ELSE "mutate"
             x == work[b]
             y == [x EXCEPT !.pc = next]
             w == [y EXCEPT !.already = resolved]
  <2>1. /\ work' = [work EXCEPT ![b] = w] /\ x \in Work /\ UNCHANGED thread
        /\ next \in {"find", "return", "mutate"} /\ (next = "return" => resolved)
    <3>1. work' = [work EXCEPT ![b].pc = next, ![b].already = resolved] /\ UNCHANGED thread
      BY <1>8 DEF CheckResolved
    <3> QED BY <1>1, <1>3, <3>1
  <2>2. (next = "return" => thread'[On(b)].resolved)
    BY <2>1
  <2> HIDE DEF x, resolved, next
  <2>3. y \in Work /\ y.pc = next /\ y.on = x.on
    BY <2>1 DEF Work, Pcs
  <2> HIDE DEF y
  <2>4. w.pc = next /\ w.on = x.on
    BY <2>3 DEF Work
  <2> HIDE DEF w
  <2>5. work'[b] = w /\ \A a \in Agents \ {b} : work'[a] = work[a]
    BY <1>1, <2>1
  <2> QED BY <2>1, <2>2, <2>4, <2>5 DEF x
<1>9. CASE FindComment(b)
  BY <1>5, <1>9 DEF FindComment, Pcs
<1>10. CASE PostReply(b)
  <2>1. CASE work[b].op = "both" /\ work[b].resolve
    <3> DEFINE x == work[b]
               y == [x EXCEPT !.pc = "check"]
               w == [y EXCEPT !.replied = TRUE]
    <3>1. work' = [work EXCEPT ![b] = w] /\ x \in Work
      <4>1. work' = [work EXCEPT ![b].pc = "check", ![b].replied = TRUE]
        BY <1>10, <2>1 DEF PostReply
      <4> QED BY <1>1, <4>1
    <3> HIDE DEF x
    <3>2. y \in Work /\ y.pc = "check"
      BY <3>1 DEF Work, Pcs
    <3> HIDE DEF y
    <3>3. w.pc = "check"
      BY <3>2 DEF Work
    <3> HIDE DEF w
    <3>4. work'[b] = w /\ \A a \in Agents \ {b} : work'[a] = work[a]
      BY <1>1, <3>1
    <3> QED BY <1>7, <1>10, <3>3, <3>4 DEF PostReply
  <2>2. CASE ~(work[b].op = "both" /\ work[b].resolve)
    <3>1. Answers(b, TRUE, FALSE, work[b].already) /\ Comment(b)
      BY <1>10, <2>2 DEF PostReply
    <3> QED BY <1>4, <1>7, <3>1
  <2> QED BY <2>1, <2>2
<1>11. CASE Resolve(b)
  <2>1. thread' = [thread EXCEPT ![On(b)].resolved = TRUE] /\ Proceed(b, "return")
    BY <1>11 DEF Resolve
  <2> QED BY <1>5, <1>6, <2>1 DEF Pcs
<1>12. CASE Return(b)
  <2>1. In(b, "return") /\ Answers(b, work[b].replied, TRUE, work[b].already) /\ UNCHANGED thread
    BY <1>12 DEF Return
  <2> QED BY <1>4, <2>1
<1>13. CASE CallFails(b) \/ ReplyLost(b) \/ ResolveLost(b)
  <2>1. \E replied : Answers(b, replied, FALSE, FALSE)
    BY <1>13 DEF CallFails, ReplyLost, ResolveLost
  <2>2. \A t \in Threads : thread[t].resolved => thread'[t].resolved
    BY <1>6, <1>7, <1>13 DEF CallFails, ReplyLost, ResolveLost
  <2> QED BY <1>4, <2>1, <2>2
<1> QED BY <1>8, <1>9, <1>10, <1>11, <1>12, <1>13 DEF AgentStep

\* A call begins: no handler returns.
LEMMA CallMoves ==
  ASSUME ThreadInv, NEW b \in Agents,
         \E t \in Threads, op \in Ops, resolve \in BOOLEAN : Call(b, op, t, resolve)
  PROVE  /\ \A a \in Agents \ {b} : work'[a] = work[a]
         /\ UNCHANGED thread /\ work[b].pc = "idle" /\ work'[b].pc # "return"
<1>1. PICK t \in Threads, op \in Ops, resolve \in BOOLEAN : Call(b, op, t, resolve)
  OBVIOUS
<1>2. work \in [Agents -> Work]
  BY DEF ThreadInv, ThreadTypeOK
<1> QED BY <1>1, <1>2 DEF Call, In

LEMMA OpenedResolvesNothing ==
  ASSUME ThreadInv, NEW ts \in SUBSET Threads, Opened(ts)
  PROVE  \A t \in Threads : thread'[t].resolved = thread[t].resolved
<1>1. thread \in [Threads -> Thread]
  BY DEF ThreadInv, ThreadTypeOK, Thread, Comments
<1>2. ASSUME NEW t \in Threads PROVE thread'[t].resolved = thread[t].resolved
  <2> DEFINE x == thread[t]
  <2>1. x \in Thread /\ thread'[t] = IF t \in ts THEN [x EXCEPT !.comments = <<Reviewer>>] ELSE x
    BY <1>1 DEF Opened
  <2> HIDE DEF x
  <2>2. thread'[t].resolved = x.resolved
    BY <2>1 DEF Thread
  <2> QED BY <2>2 DEF x
<1> QED BY <1>2

LEMMA ReturnsResolvedStays ==
  ASSUME ThreadInv, [ThreadNext]_threadVars, NEW a \in Agents, ReturnsResolved(a)
  PROVE  ReturnsResolved(a)'
<1>1. /\ thread \in [Threads -> Thread] /\ work[a] \in Work /\ work[a].on \in Threads
      /\ On(a) = work[a].on
  BY DEF ThreadInv, ThreadTypeOK, Thread, Comments, Work, On
<1>2. ASSUME work'[a] = work[a], \A t \in Threads : thread[t].resolved => thread'[t].resolved
      PROVE  ReturnsResolved(a)'
  BY <1>1, <1>2 DEF ReturnsResolved, In, On
<1>3. CASE UNCHANGED threadVars
  BY <1>2, <1>3 DEF threadVars
<1>4. ASSUME NEW b \in Agents, AgentStep(b)
      PROVE  ReturnsResolved(a)'
  <2>1. CASE b # a
    BY <1>2, <1>4, <2>1, HandlerMoves
  <2>2. CASE b = a
    BY <1>1, <1>4, <2>2, HandlerMoves DEF ReturnsResolved, In, On
  <2> QED BY <2>1, <2>2
<1>5. ASSUME NEW b \in Agents,
             \E t \in Threads, op \in Ops, resolve \in BOOLEAN : Call(b, op, t, resolve)
      PROVE  ReturnsResolved(a)'
  <2>1. CASE b # a
    BY <1>2, <1>5, <2>1, CallMoves
  <2>2. CASE b = a
    BY <1>5, <2>2, CallMoves DEF ReturnsResolved, In
  <2> QED BY <2>1, <2>2
<1>6. ASSUME NEW t \in Threads, OpenThread(t)
      PROVE  ReturnsResolved(a)'
  <2>1. Opened({t}) /\ UNCHANGED work /\ {t} \in SUBSET Threads
    BY <1>6 DEF OpenThread
  <2> QED BY <1>2, <2>1, OpenedResolvesNothing
<1>7. ASSUME NEW t \in Threads, NEW resolved \in BOOLEAN, UserSets(t, resolved)
      PROVE  ReturnsResolved(a)'
  <2>1. /\ work'[a].pc = work[a].pc /\ work'[a].on = work[a].on
        /\ work'[a].reopened <=> work[a].reopened \/ (~resolved /\ In(a, "return") /\ On(a) = t)
    BY <1>7, UserSetsEffect
  <2>2. \A u \in Threads : thread'[u].resolved = IF u = t THEN resolved ELSE thread[u].resolved
    BY <1>1, <1>7 DEF UserSets, Thread
  <2>3. thread'[work[a].on].resolved =
          IF work[a].on = t THEN resolved ELSE thread[work[a].on].resolved
    BY <1>1, <2>2
  <2> QED BY <1>1, <2>1, <2>3 DEF ReturnsResolved, In, On
<1> QED BY <1>3, <1>4, <1>5, <1>6, <1>7 DEF ThreadNext

\* A handler says that a thread is resolved only of one that is when it says so, or
\* that someone reopened after the handler saw it resolved or resolved it.
THEOREM ResolvedIsTrue == ThreadSpec => ResolvedWhenAnswered
<1> DEFINE I == ThreadInv /\ \A a \in Agents : ReturnsResolved(a)
           A == \A a \in Agents :
                  work[a].pc # "idle" /\ work'[a].pc = "idle" /\ answer'[a].resolved
                    => thread'[On(a)].resolved \/ work[a].reopened
<1>1. ASSUME I, [ThreadNext]_threadVars PROVE A
  <2> SUFFICES ASSUME NEW a \in Agents, work[a].pc # "idle", work'[a].pc = "idle",
                      answer'[a].resolved
               PROVE  thread'[On(a)].resolved \/ work[a].reopened
    OBVIOUS
  <2>1. ThreadInv /\ ReturnsResolved(a)
    BY <1>1
  <2>2. PICK b \in Agents :
          AgentStep(b) \/ \E t \in Threads, op \in Ops, resolve \in BOOLEAN : Call(b, op, t, resolve)
    <3>1. ~UNCHANGED threadVars /\ \A t \in Threads : ~OpenThread(t)
      BY DEF threadVars, OpenThread
    <3>2. \A t \in Threads, resolved \in BOOLEAN : ~UserSets(t, resolved)
      BY <2>1, UserSetsEffect
    <3> QED BY <1>1, <3>1, <3>2 DEF ThreadNext
  <2>3. AgentStep(a)
    BY <2>1, <2>2, CallMoves, HandlerMoves
  <2>4. In(a, "return") /\ UNCHANGED thread
    BY <2>1, <2>3, HandlerMoves
  <2> QED BY <2>1, <2>4 DEF ReturnsResolved
<1>2. ThreadInit => I
  <2>1. ThreadInit => \A a \in Agents : ReturnsResolved(a)
    BY DEF ThreadInit, ReturnsResolved, In, NoWork
  <2> QED BY <2>1, InitThreadInv
<1>3. I /\ [ThreadNext]_threadVars => I'
  BY ThreadInvIsInductive, ReturnsResolvedStays
<1> HIDE DEF A, I
<1>4. ThreadSpec => [][A]_threadVars
  BY <1>1, <1>2, <1>3, PTL DEF ThreadSpec
<1> QED BY <1>4 DEF A, ResolvedWhenAnswered

====
