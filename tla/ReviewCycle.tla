----------------------------- MODULE ReviewCycle -----------------------------
(***************************************************************************)
(* get_pr_review_cycle_status (src/internal/tools/cycle.go): what an agent *)
(* is told to do next with a pull request, from its checks, its review     *)
(* threads, its reviews and its trigger_log.                               *)
(*                                                                         *)
(* The handler reads the four one after the other, and everything it reads *)
(* changes meanwhile: the module composes it with the requests of          *)
(* ReviewRequest, whose readers of the review data it joins, and with the  *)
(* thread tools of ReviewThreads.  Copilot's review and the threads it     *)
(* opens appear together.                                                  *)
(***************************************************************************)
EXTENDS ReviewRequest

CONSTANTS
  FixTypes,      \* the values of fix_type that callers pass
  MaxCycles,     \* max_cycles
  Threads, Agents, Reviewer, MaxComments    \* of ReviewThreads

ASSUME CycleParameters ==
  /\ FixTypes \subseteq {"logic", "spec_change", "trivial", "none"}
  /\ MaxCycles \in Nat \ {0}
  /\ Threads # {} /\ IsFiniteSet(Threads)
  /\ MaxComments \in Nat \ {0}
  /\ Reviewer \notin Agents

VARIABLES
  thread, work, answer,     \* of ReviewThreads
  checks,                   \* whether every check run of the head commit passes
  cycle,                    \* the cycle handler each Observer is in the middle of
  action                    \* the last recommended action each Observer was given

T == INSTANCE ReviewThreads

requestVars == <<now, pr, log, call>>
threadVars  == <<thread, work, answer>>
cycleVars   == <<now, pr, log, call, thread, work, answer, checks, cycle, action>>

Recommendations == {"WAIT", "REPLY_RESOLVE", "REQUEST_REREVIEW", "READY_TO_MERGE", "ESCALATE"}

CyclePc == {"idle", "checks", "threads", "reviews"}
NoCycle == [pc |-> "idle", fixType |-> "none", escalate |-> FALSE, ok |-> FALSE,
            unresolved |-> 0, allReplied |-> TRUE]

CycleTypeOK ==
  /\ TypeOK
  /\ T!ThreadTypeOK
  /\ checks \in BOOLEAN
  /\ cycle \in [Observers -> [pc: CyclePc, fixType: FixTypes \union {"none"}, escalate: BOOLEAN,
                            ok: BOOLEAN, unresolved: 0..Cardinality(Threads),
                            allReplied: BOOLEAN]]
  /\ action \in [Observers -> Recommendations \union {Nil}]
  /\ \A c \in Observers : cycle[c].pc # "reviews" => At(c, "idle")

ASSUME NilIsNoRecommendation == Nil \notin Recommendations

(***************************************************************************)
(* The decision.                                                           *)
(***************************************************************************)
RereviewRequired(fixType) == fixType \in {"logic", "spec_change"}

\* terminateCond1 and terminateCond2; quiet: Copilot commented nothing for
\* NO_COMMENT_THRESHOLD_MIN minutes.
Terminates(read, quiet) == read.ok /\ (read.unresolved = 0 \/ quiet)

\* Faulty variant, for the mutation of the next definition: a review that was
\* not requested, or is not there, does not make the agent wait.
RecommendedUnguarded(status, read, quiet) ==
  CASE status \in {"PENDING", "IN_PROGRESS"} -> "WAIT"
    [] status \notin {"PENDING", "IN_PROGRESS"} /\ read.unresolved > 0 -> "REPLY_RESOLVE"
    [] OTHER -> IF Terminates(read, quiet) THEN "READY_TO_MERGE" ELSE "WAIT"

Recommended(status, read, quiet) ==
  CASE status \notin Done ->
         "WAIT"
    [] status \in Done /\ read.unresolved > 0 ->
         "REPLY_RESOLVE"
    [] status \in Done /\ read.unresolved = 0 /\ RereviewRequired(read.fixType) ->
         IF read.allReplied THEN "REQUEST_REREVIEW" ELSE "REPLY_RESOLVE"
    [] OTHER ->
         IF Terminates(read, quiet) THEN "READY_TO_MERGE" ELSE "WAIT"

(***************************************************************************)
(* The handler.                                                            *)
(***************************************************************************)
CycleAt(c, pc) == cycle[c].pc = pc

CycleCall(c, fixType, cyclesDone) ==
  /\ CycleAt(c, "idle")
  /\ cycle' = [cycle EXCEPT ![c] = [NoCycle EXCEPT !.pc = "checks", !.fixType = fixType,
                                                   !.escalate = cyclesDone >= MaxCycles]]
  /\ action' = [action EXCEPT ![c] = Nil]
  /\ UNCHANGED <<requestVars, threadVars, checks>>

\* GetCIStatus.
ReadChecks(c) ==
  /\ CycleAt(c, "checks")
  /\ cycle' = [cycle EXCEPT ![c].pc = "threads", ![c].ok = checks]
  /\ UNCHANGED <<requestVars, threadVars, checks, action>>

\* GetReviewThreads; with the cycles spent that is all there is to read.
ReadThreads(c) ==
  /\ CycleAt(c, "threads")
  /\ IF cycle[c].escalate
     THEN /\ cycle' = [cycle EXCEPT ![c] = NoCycle]
          /\ action' = [action EXCEPT ![c] = "ESCALATE"]
          /\ UNCHANGED call
     ELSE /\ cycle' = [cycle EXCEPT ![c].pc = "reviews",
                                    ![c].unresolved = Cardinality(T!Unresolved),
                                    ![c].allReplied = (T!Unreplied = {})]
          /\ Begins(c, Len(log), Len(pr.reviews))
          /\ UNCHANGED action
  /\ UNCHANGED <<now, pr, log, threadVars, checks>>

\* GetReviewData is the reading steps of ReviewRequest; then GetLatest and the
\* decision.  Unlike get_copilot_review_status it completes no row.
Decide(c) ==
  /\ CycleAt(c, "reviews")
  /\ At(c, "decide")
  /\ \E quiet \in BOOLEAN :
       action' = [action EXCEPT ![c] =
         Recommended(StatusOf(call[c].data, GetLatest), cycle[c], quiet)]
  /\ cycle' = [cycle EXCEPT ![c] = NoCycle]
  /\ Returns(c)
  /\ UNCHANGED <<now, pr, log, threadVars, checks>>

\* Faulty variant, for the mutation of the next definition: the review data of
\* the failed handler stays behind.
CycleFailsHalf(c) ==
  /\ ~CycleAt(c, "idle")
  /\ cycle' = [cycle EXCEPT ![c] = NoCycle]
  /\ UNCHANGED <<requestVars, threadVars, checks, action>>

\* A read fails, or the rate limit is low: the handler returns an error.
CycleFails(c) ==
  /\ ~CycleAt(c, "idle")
  /\ cycle' = [cycle EXCEPT ![c] = NoCycle]
  /\ IF At(c, "idle") THEN UNCHANGED call ELSE Returns(c)
  /\ UNCHANGED <<now, pr, log, threadVars, checks, action>>

CycleStep(c) ==
  \/ \E fixType \in FixTypes, cyclesDone \in 0..MaxCycles : CycleCall(c, fixType, cyclesDone)
  \/ ReadChecks(c) \/ ReadThreads(c) \/ Decide(c) \/ CycleFails(c)

(***************************************************************************)
(* The other components.                                                   *)
(***************************************************************************)
\* ReviewRequest, but for the review and for the status calls: here Observers
\* call get_pr_review_cycle_status, and CancelWatch, which completes a row at
\* any time, stands for whoever else completes rows.
RequestPart ==
  /\ \/ \E c \in Requesters : RequestStep(c) \/ Fails(c)
     \/ \E c \in Callers : ReadStep(c)
     \/ \E i \in DOMAIN log : CancelWatch(i)
     \/ Tick \/ AutomaticRequest \/ StartWork \/ Withdraw
  /\ UNCHANGED <<threadVars, checks, cycle, action>>

\* Copilot's review, with the threads it opens.
ReviewPart ==
  /\ \E s \in States : SubmitReview(s)
  /\ \E ts \in SUBSET {t \in Threads : ~T!Open(t)} : T!Opened(ts)
  /\ UNCHANGED <<work, answer, checks, cycle, action>>

\* The agent replies to the threads and resolves them, and so do people.
ThreadPart ==
  /\ \/ \E a \in Agents, t \in Threads : T!Call(a, "both", t, TRUE)
     \/ \E a \in Agents : T!AgentStep(a)
     \/ \E t \in Threads : T!UserSets(t, TRUE)
  /\ UNCHANGED <<requestVars, checks, cycle, action>>

\* A commit is pushed, a check run ends.
ChecksPart ==
  /\ checks' = ~checks
  /\ UNCHANGED <<requestVars, threadVars, cycle, action>>

CycleInit ==
  /\ Init
  /\ T!ThreadInit
  /\ checks = FALSE
  /\ cycle = [c \in Observers |-> NoCycle]
  /\ action = [c \in Observers |-> Nil]

CycleNext ==
  \/ \E c \in Observers : CycleStep(c)
  \/ RequestPart \/ ReviewPart \/ ThreadPart \/ ChecksPart

CycleSpec == CycleInit /\ [][CycleNext]_cycleVars

(***************************************************************************)
(* Properties.                                                             *)
(***************************************************************************)
\* "Never mark an unreviewed PR as ready to merge": whatever the handler read
\* while things changed, it sends nobody on (to the threads, to the next review,
\* to the merge) before Copilot answered the newest request, if that was
\* recorded before the handler read the reviews, but for a request whose earlier
\* review passes for the answer (Blurred).
ReviewedBeforeActing ==
  [][\A c \in Observers :
       LET i == GetLatest
       IN /\ At(c, "decide") /\ action'[c] # action[c]
          /\ action'[c] \in {"REPLY_RESOLVE", "REQUEST_REREVIEW", "READY_TO_MERGE"}
          => /\ pr.reviews # <<>>
             /\ 0 < i /\ i <= call[c].mark => Len(pr.reviews) > log[i].base \/ Blurred(i)
    ]_cycleVars
====
