-------------------------- MODULE ReviewCycleProofs --------------------------
(***************************************************************************)
(* Theorems about ReviewCycle: its handler is, for the requests, one more  *)
(* reader, and it sends nobody on before the newest request is answered.   *)
(***************************************************************************)
EXTENDS ReviewCycle, ReviewRequestProofs

R == INSTANCE ReviewThreadsProofs

(***************************************************************************)
(* The inductive invariant: those of the parts, the types of the handler,  *)
(* and that a call reads review data only where the handler does.          *)
(***************************************************************************)
Cycle == [pc: CyclePc, fixType: FixTypes \union {"none"}, escalate: BOOLEAN,
          ok: BOOLEAN, unresolved: 0..Cardinality(Threads), allReplied: BOOLEAN]

ReadsInTurn(c) == cycle[c].pc # "reviews" => At(c, "idle")

HandlerInv ==
  /\ checks \in BOOLEAN
  /\ cycle \in [Observers -> Cycle]
  /\ action \in [Observers -> Recommendations \union {Nil}]
  /\ \A c \in Observers : ReadsInTurn(c)

CycleInv == RequestInv /\ R!ThreadInv /\ HandlerInv

(***************************************************************************)
(* For the requests the handler is a status call that settles nothing.     *)
(***************************************************************************)
LEMMA CycleStepIsRead ==
  ASSUME HandlerInv, NEW c \in Observers, CycleStep(c)
  PROVE  UNCHANGED vars \/ StatusCall(c) \/ Fails(c)
<1>1. CASE \/ \E fixType \in FixTypes, cyclesDone \in 0..MaxCycles :
                CycleCall(c, fixType, cyclesDone)
           \/ ReadChecks(c)
  BY <1>1, Zenon DEF CycleCall, ReadChecks, requestVars, vars
<1>2. CASE ReadThreads(c)
  <2>1. At(c, "idle")
    BY <1>2 DEF ReadThreads, CycleAt, HandlerInv, ReadsInTurn
  <2>2. UNCHANGED <<now, pr, log>> /\ (UNCHANGED call \/ Begins(c, Len(log), Len(pr.reviews)))
    BY <1>2, Zenon DEF ReadThreads
  <2> QED BY <2>1, <2>2 DEF StatusCall, vars
<1>3. CASE Decide(c)
  <2>1. At(c, "decide") /\ Returns(c) /\ UNCHANGED <<now, pr, log>>
    BY <1>3, Zenon DEF Decide
  <2> QED BY <2>1 DEF Fails, At
<1>4. CASE CycleFails(c)
  <2>1. UNCHANGED <<now, pr, log>> /\ (IF At(c, "idle") THEN UNCHANGED call ELSE Returns(c))
    BY <1>4, Zenon DEF CycleFails
  <2> QED BY <2>1 DEF Fails, vars
<1> QED BY <1>1, <1>2, <1>3, <1>4 DEF CycleStep

LEMMA CycleNextIsNext ==
  ASSUME HandlerInv, [CycleNext]_cycleVars
  PROVE  [Next]_vars
<1>1. CASE UNCHANGED cycleVars
  BY <1>1 DEF cycleVars, vars
<1>2. ASSUME NEW c \in Observers, CycleStep(c)
      PROVE  [Next]_vars
  <2>1. UNCHANGED vars \/ StatusCall(c) \/ Fails(c)
    BY <1>2, CycleStepIsRead
  <2> QED BY <2>1, CallersAreApart DEF Next, StatusStep
<1>3. CASE RequestPart
  BY <1>3, CallersAreApart DEF RequestPart, Next, GitHub
<1>4. CASE ReviewPart
  BY <1>4 DEF ReviewPart, Next, GitHub
<1>5. CASE ThreadPart \/ ChecksPart
  BY <1>5 DEF ThreadPart, ChecksPart, requestVars, vars
<1> QED BY <1>1, <1>2, <1>3, <1>4, <1>5 DEF CycleNext

(***************************************************************************)
(* The threads.                                                            *)
(***************************************************************************)
LEMMA InitThreads == T!ThreadInit => R!ThreadInv
<1>1. T!ThreadInit => R!ThreadInit
  BY DEF T!ThreadInit, R!ThreadInit, T!NoWork, R!NoWork, T!NoAnswer, R!NoAnswer
<1> QED BY <1>1, CycleParameters, R!InitThreadInv

LEMMA OpenedKeepsThreads ==
  ASSUME R!ThreadInv, NEW ts \in SUBSET {t \in Threads : ~T!Open(t)}, T!Opened(ts),
         UNCHANGED <<work, answer>>
  PROVE  R!ThreadInv'
<1>1. ts \in SUBSET {t \in Threads : ~R!Open(t)} /\ R!Opened(ts)
  BY DEF T!Open, R!Open, T!Opened, R!Opened
<1> QED BY <1>1, CycleParameters, R!OpenedInv

LEMMA CallKeepsThreads ==
  ASSUME R!ThreadInv, NEW a \in Agents, NEW t \in Threads, T!Call(a, "both", t, TRUE)
  PROVE  R!ThreadInv'
<1>1. R!Call(a, "both", t, TRUE)
  BY Zenon DEF T!Call, R!Call, T!In, R!In, T!Open, R!Open, T!RepliesOf, R!RepliesOf,
         T!Cardinality, R!Cardinality, T!NoAnswer, R!NoAnswer
<1>2. "both" \in R!Ops /\ TRUE \in BOOLEAN
  BY DEF R!Ops
<1> QED BY <1>1, <1>2, CycleParameters, R!CallInv

LEMMA AgentStepKeepsThreads ==
  ASSUME R!ThreadInv, NEW a \in Agents, T!AgentStep(a)
  PROVE  R!ThreadInv'
<1>1. R!AgentStep(a)
  BY DEF T!AgentStep, T!CheckResolved, T!FindComment, T!PostReply, T!Resolve, T!Return,
         T!CallFails, T!ReplyLost, T!ResolveLost, T!In, T!On, T!Proceed, T!Answers, T!Open, T!Comment, T!NoWork,
         R!AgentStep, R!CheckResolved, R!FindComment, R!PostReply, R!Resolve, R!Return,
         R!CallFails, R!ReplyLost, R!ResolveLost, R!In, R!On, R!Proceed, R!Answers, R!Open, R!Comment, R!NoWork
<1> QED BY <1>1, CycleParameters, R!AgentStepInv

LEMMA UserKeepsThreads ==
  ASSUME R!ThreadInv, NEW t \in Threads, T!UserSets(t, TRUE)
  PROVE  R!ThreadInv'
<1>1. R!UserSets(t, TRUE) /\ TRUE \in BOOLEAN
  BY DEF T!UserSets, R!UserSets, T!Open, R!Open, T!In, R!In, T!On, R!On
<1> QED BY <1>1, CycleParameters, R!UserSetsInv

LEMMA ThreadInvStays ==
  ASSUME R!ThreadInv, [CycleNext]_cycleVars
  PROVE  R!ThreadInv'
<1>1. ASSUME UNCHANGED <<thread, work, answer>>
      PROVE  R!ThreadInv'
  <2>1. [R!ThreadNext]_(R!threadVars)
    BY <1>1 DEF R!threadVars
  <2> QED BY <2>1, CycleParameters, R!ThreadInvIsInductive
<1>2. CASE UNCHANGED cycleVars
  BY <1>1, <1>2 DEF cycleVars
<1>3. ASSUME NEW c \in Observers, CycleStep(c)
      PROVE  UNCHANGED <<thread, work, answer>>
  BY <1>3, Zenon DEF CycleStep, CycleCall, ReadChecks, ReadThreads, Decide, CycleFails, threadVars
<1>4. RequestPart \/ ChecksPart => UNCHANGED <<thread, work, answer>>
  BY Zenon DEF RequestPart, ChecksPart, threadVars
<1>5. CASE ReviewPart
  BY <1>5, OpenedKeepsThreads DEF ReviewPart
<1>6. CASE ThreadPart
  BY <1>6, CallKeepsThreads, AgentStepKeepsThreads, UserKeepsThreads DEF ThreadPart
<1> QED BY <1>1, <1>2, <1>3, <1>4, <1>5, <1>6 DEF CycleNext

\* A handler counts no more unresolved threads than there are threads.
LEMMA UnresolvedCounted == Cardinality(T!Unresolved) \in 0..Cardinality(Threads)
<1>1. T!Unresolved \subseteq Threads
  BY DEF T!Unresolved
<1>2. IsFiniteSet(Threads) /\ Cardinality(Threads) \in Nat
  BY CycleParameters, FS_CardinalityType
<1>3. IsFiniteSet(T!Unresolved) /\ Cardinality(T!Unresolved) <= Cardinality(Threads)
  BY <1>1, <1>2, FS_Subset
<1>4. Cardinality(T!Unresolved) \in Nat
  BY <1>3, FS_CardinalityType
<1> QED BY <1>2, <1>3, <1>4

(***************************************************************************)
(* The handler.                                                            *)
(***************************************************************************)
\* The other handlers are where they were.
OtherCycles(c) ==
  /\ cycle' \in [Observers -> Cycle]
  /\ action' \in [Observers -> Recommendations \union {Nil}]
  /\ \A b \in Observers \ {c} : cycle'[b] = cycle[b]

LEMMA NoCycleType == NoCycle \in Cycle /\ NoCycle.pc = "idle"
<1>1. 0 \in 0..Cardinality(Threads)
  BY CycleParameters, FS_CardinalityType
<1> QED BY <1>1 DEF NoCycle, Cycle, CyclePc

LEMMA CycleBecomes ==
  ASSUME HandlerInv, NEW c \in Observers, NEW w \in Cycle, cycle' = [cycle EXCEPT ![c] = w],
         NEW x \in Recommendations \union {Nil},
         action' = action \/ action' = [action EXCEPT ![c] = x]
  PROVE  OtherCycles(c) /\ cycle'[c] = w
BY DEF HandlerInv, OtherCycles

LEMMA CycleCallEffect ==
  ASSUME HandlerInv, NEW c \in Observers, NEW fixType \in FixTypes, NEW n \in 0..MaxCycles,
         CycleCall(c, fixType, n)
  PROVE  OtherCycles(c) /\ cycle'[c].pc = "checks"
<1> DEFINE spent == n >= MaxCycles
           x == [NoCycle EXCEPT !.pc = "checks"]
           y == [x EXCEPT !.fixType = fixType]
           z == [y EXCEPT !.escalate = spent]
<1>1. cycle' = [cycle EXCEPT ![c] = z] /\ action' = [action EXCEPT ![c] = Nil]
  BY Zenon DEF CycleCall
<1>2. spent \in BOOLEAN /\ "checks" \in CyclePc
  BY DEF CyclePc
<1> HIDE DEF spent
<1>3. x \in Cycle /\ x.pc = "checks"
  BY <1>2, NoCycleType DEF Cycle
<1> HIDE DEF x
<1>4. y \in Cycle /\ y.pc = "checks"
  BY <1>3 DEF Cycle
<1> HIDE DEF y
<1>5. z \in Cycle /\ z.pc = "checks"
  BY <1>2, <1>4 DEF Cycle
<1> HIDE DEF z
<1> QED BY <1>1, <1>5, CycleBecomes

LEMMA ReadChecksEffect ==
  ASSUME HandlerInv, NEW c \in Observers, ReadChecks(c)
  PROVE  OtherCycles(c) /\ cycle'[c].pc = "threads"
<1> DEFINE v == cycle[c]
           x == [v EXCEPT !.pc = "threads"]
           y == [x EXCEPT !.ok = checks]
<1>1. v \in Cycle /\ checks \in BOOLEAN /\ "threads" \in CyclePc
  BY DEF HandlerInv, CyclePc
<1>2. cycle' = [cycle EXCEPT ![c] = y] /\ action' = action
  BY Zenon DEF ReadChecks, HandlerInv
<1> HIDE DEF v
<1>3. x \in Cycle /\ x.pc = "threads"
  BY <1>1 DEF Cycle
<1> HIDE DEF x
<1>4. y \in Cycle /\ y.pc = "threads"
  BY <1>1, <1>3 DEF Cycle
<1> HIDE DEF y
<1> QED BY <1>2, <1>4, CycleBecomes

LEMMA ReadThreadsEffect ==
  ASSUME HandlerInv, NEW c \in Observers, ReadThreads(c)
  PROVE  /\ OtherCycles(c)
         /\ \/ cycle'[c].pc = "reviews" /\ UNCHANGED action
            \/ cycle'[c].pc = "idle" /\ UNCHANGED call /\ action'[c] = "ESCALATE"
<1> DEFINE v == cycle[c]
           n == Cardinality(T!Unresolved)
           replied == T!Unreplied = {}
           x == [v EXCEPT !.pc = "reviews"]
           y == [x EXCEPT !.unresolved = n]
           z == [y EXCEPT !.allReplied = replied]
<1>1. CASE v.escalate
  <2>1. /\ cycle' = [cycle EXCEPT ![c] = NoCycle] /\ UNCHANGED call
        /\ action' = [action EXCEPT ![c] = "ESCALATE"] /\ "ESCALATE" \in Recommendations
    BY <1>1 DEF ReadThreads, Recommendations
  <2>2. OtherCycles(c) /\ cycle'[c] = NoCycle
    BY <2>1, NoCycleType, CycleBecomes
  <2> QED BY <2>1, <2>2, NoCycleType DEF HandlerInv
<1>2. CASE ~v.escalate
  <2>1. v \in Cycle /\ n \in 0..Cardinality(Threads) /\ replied \in BOOLEAN /\ "reviews" \in CyclePc
    BY UnresolvedCounted DEF HandlerInv, CyclePc
  <2>2. cycle' = [cycle EXCEPT ![c] = z] /\ action' = action
    BY <1>2, Zenon DEF ReadThreads, HandlerInv
  <2> HIDE DEF v, n, replied
  <2>3. x \in Cycle /\ x.pc = "reviews"
    BY <2>1 DEF Cycle
  <2> HIDE DEF x
  <2>4. y \in Cycle /\ y.pc = "reviews"
    BY <2>1, <2>3 DEF Cycle
  <2> HIDE DEF y
  <2>5. z \in Cycle /\ z.pc = "reviews"
    BY <2>1, <2>4 DEF Cycle
  <2> HIDE DEF z
  <2> QED BY <2>2, <2>5, CycleBecomes
<1> QED BY <1>1, <1>2

LEMMA RecommendedType ==
  ASSUME NEW status, NEW read, NEW quiet
  PROVE  /\ Recommended(status, read, quiet) \in Recommendations
         /\ Recommended(status, read, quiet) # "WAIT" => status \in Done
BY DEF Recommended, Recommendations

LEMMA DecideEffect ==
  ASSUME HandlerInv, NEW c \in Observers, Decide(c)
  PROVE  /\ OtherCycles(c) /\ cycle'[c].pc = "idle"
         /\ action'[c] # "WAIT" => StatusOf(call[c].data, GetLatest) \in Done
<1> PICK quiet \in BOOLEAN :
      action' = [action EXCEPT ![c] =
        Recommended(StatusOf(call[c].data, GetLatest), cycle[c], quiet)]
  BY Zenon DEF Decide
<1> DEFINE status == StatusOf(call[c].data, GetLatest)
           x == Recommended(status, cycle[c], quiet)
<1>1. cycle' = [cycle EXCEPT ![c] = NoCycle] /\ action' = [action EXCEPT ![c] = x]
  BY Zenon DEF Decide
<1>2. x \in Recommendations /\ (x # "WAIT" => status \in Done)
  BY RecommendedType
<1> HIDE DEF x
<1>3. OtherCycles(c) /\ cycle'[c] = NoCycle /\ action'[c] = x
  BY <1>1, <1>2, NoCycleType, CycleBecomes DEF HandlerInv
<1> QED BY <1>2, <1>3, NoCycleType

LEMMA CycleFailsEffect ==
  ASSUME HandlerInv, NEW c \in Observers, CycleFails(c)
  PROVE  OtherCycles(c) /\ cycle'[c].pc = "idle" /\ UNCHANGED action
<1>1. cycle' = [cycle EXCEPT ![c] = NoCycle] /\ action' = action
  BY Zenon DEF CycleFails
<1>2. OtherCycles(c) /\ cycle'[c] = NoCycle
  BY <1>1, NoCycleType, CycleBecomes
<1> QED BY <1>1, <1>2, NoCycleType

(***************************************************************************)
(* CycleInv is inductive.                                                  *)
(***************************************************************************)
LEMMA CycleStepKeepsHandlers ==
  ASSUME RequestInv, HandlerInv, NEW c \in Observers, CycleStep(c)
  PROVE  HandlerInv'
<1>1. TypeOK /\ c \in Callers /\ Observers \subseteq Callers /\ Len(log) \in Nat
  BY CallersAreApart DEF RequestInv, TypeOK
<1>2. UNCHANGED checks
  BY Zenon DEF CycleStep, CycleCall, ReadChecks, ReadThreads, Decide, CycleFails
<1>3. OtherCycles(c)
  BY CycleCallEffect, ReadChecksEffect, ReadThreadsEffect, DecideEffect, CycleFailsEffect
     DEF CycleStep
<1>4. \A b \in Observers \ {c} : call'[b] = call[b]
  <2>1. CASE UNCHANGED vars
    BY <2>1 DEF vars
  <2>2. CASE StatusCall(c)
    BY <1>1, <2>2, StatusStepMoves DEF StatusStep, Others
  <2>3. CASE Fails(c)
    BY <1>1, <2>3, ReadStepMoves DEF Others
  <2> QED BY <2>1, <2>2, <2>3, CycleStepIsRead
<1>5. ReadsInTurn(c)'
  <2>1. CASE \E fixType \in FixTypes, cyclesDone \in 0..MaxCycles : CycleCall(c, fixType, cyclesDone)
    <3>1. UNCHANGED call /\ CycleAt(c, "idle")
      BY <2>1 DEF CycleCall, requestVars
    <3> QED BY <3>1 DEF HandlerInv, ReadsInTurn, CycleAt, At
  <2>2. CASE ReadChecks(c)
    <3>1. UNCHANGED call /\ CycleAt(c, "checks")
      BY <2>2 DEF ReadChecks, requestVars
    <3> QED BY <3>1 DEF HandlerInv, ReadsInTurn, CycleAt, At
  <2>3. CASE ReadThreads(c)
    <3>1. At(c, "idle")
      BY <2>3 DEF ReadThreads, CycleAt, HandlerInv, ReadsInTurn
    <3> QED BY <2>3, <3>1, ReadThreadsEffect DEF ReadsInTurn, At
  <2>4. CASE Decide(c)
    <3>1. Returns(c)
      BY <2>4, Zenon DEF Decide
    <3> QED BY <1>1, <3>1, ReturnsEffect DEF ReadsInTurn, At
  <2>5. CASE CycleFails(c)
    <3>1. IF At(c, "idle") THEN UNCHANGED call ELSE Returns(c)
      BY <2>5, Zenon DEF CycleFails
    <3> QED BY <1>1, <3>1, ReturnsEffect DEF ReadsInTurn, At
  <2> QED BY <2>1, <2>2, <2>3, <2>4, <2>5 DEF CycleStep
<1> QED BY <1>2, <1>3, <1>4, <1>5 DEF HandlerInv, OtherCycles, ReadsInTurn, At

\* A step of a call does not take review data out of turn.
LEMMA RequestPartKeepsHandlers ==
  ASSUME RequestInv, HandlerInv, RequestPart
  PROVE  HandlerInv'
<1>1. TypeOK /\ Requesters \subseteq Callers /\ Observers \subseteq Callers
      /\ Requesters \intersect Observers = {}
  BY CallersAreApart DEF RequestInv
<1>2. UNCHANGED <<checks, cycle, action>>
  BY DEF RequestPart
<1>3. ASSUME NEW b \in Observers, At(b, "idle")
      PROVE  At(b, "idle")'
  <2>1. ASSUME NEW c \in Requesters, RequestStep(c) \/ Fails(c)
        PROVE  call'[b] = call[b]
    BY <1>1, <2>1, RequestStepMoves, ReadStepMoves DEF Others
  <2>2. ASSUME NEW c \in Callers, ReadStep(c)
        PROVE  call'[b] = call[b]
    BY <1>1, <1>3, <2>2, ReadStepMoves DEF Others
  <2>3. (\E i \in DOMAIN log : CancelWatch(i)) \/ Tick \/ AutomaticRequest \/ StartWork \/ Withdraw
          => UNCHANGED call
    BY Zenon DEF CancelWatch, Tick, AutomaticRequest, StartWork, Withdraw
  <2> QED BY <1>3, <2>1, <2>2, <2>3 DEF RequestPart, At
<1> QED BY <1>2, <1>3 DEF HandlerInv, ReadsInTurn

LEMMA CycleInvIsInductive ==
  ASSUME CycleInv, [CycleNext]_cycleVars
  PROVE  CycleInv'
<1>1. RequestInv /\ HandlerInv /\ R!ThreadInv
  BY DEF CycleInv
<1>2. RequestInv' /\ R!ThreadInv'
  BY <1>1, CycleNextIsNext, RequestInvIsInductive, ThreadInvStays
<1>3. CASE UNCHANGED <<call, checks, cycle, action>>
  BY <1>1, <1>2, <1>3 DEF CycleInv, HandlerInv, ReadsInTurn, At
<1>4. ReviewPart \/ ThreadPart => UNCHANGED <<call, checks, cycle, action>>
  BY Zenon DEF ReviewPart, ThreadPart, SubmitReview, requestVars
<1>5. CASE ChecksPart
  <2>1. UNCHANGED <<call, cycle, action>> /\ checks' = ~checks
    BY <1>5, Zenon DEF ChecksPart, requestVars
  <2> QED BY <1>1, <1>2, <2>1 DEF CycleInv, HandlerInv, ReadsInTurn, At
<1> QED BY <1>1, <1>2, <1>3, <1>4, <1>5, CycleStepKeepsHandlers, RequestPartKeepsHandlers
        DEF CycleNext, cycleVars, CycleInv

LEMMA InitCycleInv == CycleInit => CycleInv
<1> SUFFICES ASSUME CycleInit PROVE CycleInv
  OBVIOUS
<1>1. RequestInv /\ R!ThreadInv
  BY InitRequestInv, InitThreads DEF CycleInit
<1>2. \A c \in Observers : At(c, "idle")
  BY IdleType, CallersAreApart DEF CycleInit, Init, At
<1> QED BY <1>1, <1>2, NoCycleType DEF CycleInit, CycleInv, HandlerInv, ReadsInTurn

\* For the requests get_pr_review_cycle_status only reads: it moves them as a
\* status call that settles nothing, so what ReviewRequestProofs shows holds with
\* it.
THEOREM CycleImplementsRequests == CycleSpec => Spec
<1>1. CycleInv /\ [CycleNext]_cycleVars => [Next]_vars
  BY CycleNextIsNext DEF CycleInv
<1>2. CycleInit => Init
  BY DEF CycleInit
<1> QED BY <1>1, <1>2, InitCycleInv, CycleInvIsInductive, PTL DEF CycleSpec, Spec

\* Every state of the composition is well formed, and the handler reads review
\* data only after the checks and the threads.
THEOREM CycleTypeCorrect == CycleSpec => []CycleTypeOK
<1>1. R!ThreadTypeOK => T!ThreadTypeOK
  BY DEF R!ThreadTypeOK, T!ThreadTypeOK, R!Work, T!Work, R!Answer, T!Answer, R!Ops, T!Ops,
         R!Pcs, T!Pcs
<1>2. CycleInv => CycleTypeOK
  BY <1>1 DEF CycleInv, RequestInv, HandlerInv, R!ThreadInv, CycleTypeOK, Cycle, ReadsInTurn
<1> QED BY <1>2, InitCycleInv, CycleInvIsInductive, PTL DEF CycleSpec

(***************************************************************************)
(* Nobody is sent on before Copilot answered.                              *)
(***************************************************************************)
ActsOnAnswer(c) ==
  /\ At(c, "decide") /\ action'[c] # action[c]
  /\ action'[c] \in {"REPLY_RESOLVE", "REQUEST_REREVIEW", "READY_TO_MERGE"}
  => /\ pr.reviews # <<>>
     /\ 0 < GetLatest /\ GetLatest <= call[c].mark =>
          Len(pr.reviews) > log[GetLatest].base \/ Blurred(GetLatest)

LEMMA ActsWhenAnswered ==
  ASSUME OrderInv, HandlerInv, CycleNext, NEW c \in Observers
  PROVE  ActsOnAnswer(c)
<1> SUFFICES ASSUME At(c, "decide"), action'[c] # action[c],
                    action'[c] \in {"REPLY_RESOLVE", "REQUEST_REREVIEW", "READY_TO_MERGE"}
             PROVE  /\ pr.reviews # <<>>
                    /\ 0 < GetLatest /\ GetLatest <= call[c].mark =>
                         Len(pr.reviews) > log[GetLatest].base \/ Blurred(GetLatest)
  BY DEF ActsOnAnswer
<1>1. /\ TypeOK /\ RequestInv /\ WorldInOrder /\ Knows(c) /\ KnowsReview(c)
      /\ c \in Callers /\ call[c].pc = "decide"
  BY CallersAreApart DEF OrderInv, RequestInv, Knows, ObserverKnows, At
<1>2. Decide(c)
  <2>1. PICK b \in Observers : CycleStep(b)
    BY Zenon DEF CycleNext, RequestPart, ReviewPart, ThreadPart, ChecksPart
  <2>2. b = c
    <3>1. \E x : action' = [action EXCEPT ![b] = x] \/ action' = action
      BY <2>1, Zenon DEF CycleStep, CycleCall, ReadChecks, ReadThreads, Decide, CycleFails
    <3> QED BY <3>1 DEF HandlerInv
  <2>3. ~\E fixType \in FixTypes, n \in 0..MaxCycles : CycleCall(c, fixType, n)
    <3>1. (\E fixType \in FixTypes, n \in 0..MaxCycles : CycleCall(c, fixType, n))
            => action' = [action EXCEPT ![c] = Nil]
      BY DEF CycleCall
    <3>2. action' = [action EXCEPT ![c] = Nil] => action'[c] = Nil
      BY DEF HandlerInv
    <3>3. Nil # action'[c]
      BY NilIsNoRecommendation DEF Recommendations
    <3> QED BY <3>1, <3>2, <3>3
  <2>4. ~ReadChecks(c) /\ ~CycleFails(c)
    BY Zenon DEF ReadChecks, CycleFails
  <2>5. ~ReadThreads(c)
    BY ReadThreadsEffect
  <2> QED BY <2>1, <2>2, <2>3, <2>4, <2>5 DEF CycleStep
<1>3. StatusOf(call[c].data, GetLatest) \in Done
  BY <1>2, DecideEffect
<1>4. pr.reviews # <<>>
  <2>1. call[c].data.review # Nil
    BY <1>3, DoneHasReview
  <2>2. call[c].data.review.id \in DOMAIN pr.reviews
    BY <1>1, <2>1 DEF KnowsReview
  <2> QED BY <2>2
<1>5. ASSUME 0 < GetLatest, GetLatest <= call[c].mark
      PROVE  Len(pr.reviews) > log[GetLatest].base \/ Blurred(GetLatest)
  <2> DEFINE i == GetLatest
             base == log[i].base
  <2>1. i \in DOMAIN log
    BY <1>1, <1>5, GetLatestFinds
  <2>2. Blurred(i) \/ \E k : k \in (base + 1)..Len(pr.reviews)
    BY <1>1, <1>3, <1>5, <2>1, OutcomeIsOfAnAnswer
  <2>3. base \in Nat /\ Len(pr.reviews) \in Nat
    BY <1>1, <2>1, RowType, PullRequestType
  <2> HIDE DEF i, base
  <2>4. Blurred(i) \/ Len(pr.reviews) > base
    BY <2>2, <2>3
  <2> QED BY <2>4 DEF i, base
<1> QED BY <1>4, <1>5

\* While its reads come apart, the handler sends nobody to the threads, to another
\* review or to the merge before there is a review, and before the newest request
\* it can know is answered, but for a request whose earlier review passes for the
\* answer: with any clocks, late lists, automatic requests and number of callers.
THEOREM NobodyActsTooEarly == CycleSpec => ReviewedBeforeActing
<1> DEFINE A == \A c \in Observers : ActsOnAnswer(c)
<1>1. CycleInv /\ OrderInv /\ [CycleNext]_cycleVars => CycleInv' /\ OrderInv'
  BY CycleInvIsInductive, OrderInvIsInductive, CycleNextIsNext DEF CycleInv
<1>2. CycleInv /\ OrderInv /\ [CycleNext]_cycleVars => [A]_cycleVars
  BY ActsWhenAnswered DEF CycleInv
<1>3. CycleInit => CycleInv /\ OrderInv
  BY InitCycleInv, InitOrderInv DEF CycleInit
<1>4. [A]_cycleVars =>
        [\A c \in Observers :
           LET i == GetLatest
           IN /\ At(c, "decide") /\ action'[c] # action[c]
              /\ action'[c] \in {"REPLY_RESOLVE", "REQUEST_REREVIEW", "READY_TO_MERGE"}
              => /\ pr.reviews # <<>>
                 /\ 0 < i /\ i <= call[c].mark => Len(pr.reviews) > log[i].base \/ Blurred(i)
        ]_cycleVars
  BY DEF ActsOnAnswer
<1> HIDE DEF A
<1> QED BY <1>1, <1>2, <1>3, <1>4, PTL DEF CycleSpec, ReviewedBeforeActing
====
