---------------------------- MODULE ReviewThreads ----------------------------
(***************************************************************************)
(* The review threads of a pull request and the tools that write to them:  *)
(* reply_to_review_thread, resolve_review_thread and                       *)
(* reply_and_resolve_review_thread (src/internal/tools/threads.go), over   *)
(* the GitHub calls of src/internal/github/client.go.                      *)
(*                                                                         *)
(* A handler makes up to four GitHub calls; each is an action, and each    *)
(* may fail, the two that write also after they took effect (the answer is *)
(* lost).  Nothing is kept between handlers: an agent that retries calls   *)
(* again.                                                                  *)
(***************************************************************************)
EXTENDS Integers, Sequences, FiniteSets

CONSTANTS
  Threads,      \* the threads reviews may open
  Agents,       \* concurrent callers of the tools, as authors of comments
  Reviewer,     \* the author of the first comment of a thread
  MaxComments   \* bound on the comments of a thread

ASSUME ThreadParameters ==
  /\ Threads # {}
  /\ MaxComments \in Nat \ {0}
  /\ Reviewer \notin Agents

VARIABLES
  thread,   \* GitHub's side: the authors of the comments, in order; resolved
  work,     \* the handler each agent is in the middle of
  answer    \* what the last handler of each agent returned

threadVars == <<thread, work, answer>>

Ops    == {"reply", "resolve", "both"}
Pcs    == {"idle", "check", "find", "post", "mutate", "return"}
\* before and reopened only serve the properties: the comments of the agent when
\* it called; whether someone reopened the thread since the handler knows it
\* resolved.
Work   == [pc: Pcs, op: Ops, on: Threads, resolve: BOOLEAN, replied: BOOLEAN,
           already: BOOLEAN, before: 0..MaxComments, reopened: BOOLEAN]
Answer == [op: Ops \union {"none"}, on: Threads, replied: BOOLEAN, resolved: BOOLEAN,
           already: BOOLEAN, before: 0..MaxComments]

\* The two values of an agent that has called nothing yet.
NoWork   == [pc |-> "idle", op |-> "reply", on |-> CHOOSE t \in Threads : TRUE,
             resolve |-> FALSE, replied |-> FALSE, already |-> FALSE, before |-> 0,
             reopened |-> FALSE]
NoAnswer == [op |-> "none", on |-> CHOOSE t \in Threads : TRUE, replied |-> FALSE,
             resolved |-> FALSE, already |-> FALSE, before |-> 0]

ThreadTypeOK ==
  /\ thread \in [Threads -> [comments: Seq(Agents \union {Reviewer}), resolved: BOOLEAN]]
  /\ \A t \in Threads : Len(thread[t].comments) <= MaxComments
  /\ work \in [Agents -> Work]
  /\ \A a \in Agents : /\ work[a].pc \in {"find", "post"} => work[a].op # "resolve"
                       /\ work[a].pc \in {"mutate", "return"} => work[a].op # "reply"
  /\ answer \in [Agents -> Answer]

Open(t)       == thread[t].comments # <<>>
Authors(t)    == {thread[t].comments[i] : i \in DOMAIN thread[t].comments}
RepliesOf(a, t) == Cardinality({i \in DOMAIN thread[t].comments : thread[t].comments[i] = a})

\* What GetReviewThreads returns, as far as its readers tell it apart: the
\* threads that are not resolved, and those of them without a second author.
Unresolved == {t \in Threads : Open(t) /\ ~thread[t].resolved}
Unreplied  == {t \in Unresolved : Cardinality(Authors(t)) < 2}

(***************************************************************************)
(* The GitHub calls of the handlers.                                       *)
(***************************************************************************)
In(a, pc)   == work[a].pc = pc
On(a)       == work[a].on
Proceed(a, pc) == work' = [work EXCEPT ![a].pc = pc]

\* The handler returns: what it did, as it knows it.
Answers(a, replied, resolved, already) ==
  /\ work' = [work EXCEPT ![a] = NoWork]
  /\ answer' = [answer EXCEPT ![a] =
       [op |-> work[a].op, on |-> On(a), replied |-> replied, resolved |-> resolved,
        already |-> already, before |-> work[a].before]]

(***************************************************************************)
(* Faulty variants, for the mutation of the definitions below: a reply     *)
(* whose answer is lost is posted again within the handler; a failed reply *)
(* does not keep the thread from being resolved; a failed resolve is taken *)
(* for a success.                                                          *)
(***************************************************************************)
ReplyLostRetries(a) ==
  /\ In(a, "post")
  /\ Len(thread[On(a)].comments) < MaxComments
  /\ thread' = [thread EXCEPT ![On(a)].comments = Append(@, a)]
  /\ UNCHANGED <<work, answer>>

CallFailsThrough(a) ==
  /\ work[a].pc \notin {"idle", "return"}
  /\ IF In(a, "post") /\ work[a].op = "both"
     THEN Proceed(a, "check") /\ UNCHANGED answer
     ELSE Answers(a, work[a].replied, FALSE, FALSE)
  /\ UNCHANGED thread

CallFailsIgnored(a) ==
  /\ work[a].pc \notin {"idle", "return"}
  /\ Answers(a, work[a].replied, In(a, "mutate"), FALSE)
  /\ UNCHANGED thread

Call(a, op, t, resolve) ==
  /\ In(a, "idle")
  /\ Open(t)
  /\ resolve => op = "both"
  /\ work' = [work EXCEPT ![a] = [pc |-> IF op = "both" THEN "find" ELSE "check", op |-> op,
                                  on |-> t, resolve |-> resolve, replied |-> FALSE,
                                  already |-> FALSE, before |-> RepliesOf(a, t),
                                  reopened |-> FALSE]]
  /\ answer' = [answer EXCEPT ![a] = NoAnswer]
  /\ UNCHANGED thread

\* IsThreadResolved: for the warning of a reply, or to leave a resolved thread alone.
CheckResolved(a) ==
  /\ In(a, "check")
  /\ LET resolved == thread[On(a)].resolved
         next == IF work[a].op = "reply" THEN "find"
                 ELSE IF resolved THEN "return" ELSE "mutate"
     IN work' = [work EXCEPT ![a].pc = next, ![a].already = resolved]
  /\ UNCHANGED <<thread, answer>>

\* The first comment of the thread, to which REST replies.
FindComment(a) ==
  /\ In(a, "find")
  /\ Open(On(a))
  /\ Proceed(a, "post")
  /\ UNCHANGED <<thread, answer>>

Comment(a) ==
  /\ Len(thread[On(a)].comments) < MaxComments
  /\ thread' = [thread EXCEPT ![On(a)].comments = Append(@, a)]

PostReply(a) ==
  /\ In(a, "post")
  /\ Comment(a)
  /\ IF work[a].op = "both" /\ work[a].resolve
     THEN work' = [work EXCEPT ![a].pc = "check", ![a].replied = TRUE] /\ UNCHANGED answer
     ELSE Answers(a, TRUE, FALSE, work[a].already)

Resolve(a) ==
  /\ In(a, "mutate")
  /\ thread' = [thread EXCEPT ![On(a)].resolved = TRUE]
  /\ Proceed(a, "return")
  /\ UNCHANGED answer

\* The handler found the thread resolved or resolved it; it looks no more.
Return(a) ==
  /\ In(a, "return")
  /\ Answers(a, work[a].replied, TRUE, work[a].already)
  /\ UNCHANGED thread

\* A GitHub call of the handler fails: reply_and_resolve returns what it did
\* before, with the error; the other two return the error.
CallFails(a) ==
  /\ work[a].pc \notin {"idle", "return"}
  /\ Answers(a, work[a].replied, FALSE, FALSE)
  /\ UNCHANGED thread

\* The answer of a call that took effect is lost: to the handler it failed.
ReplyLost(a) ==
  /\ In(a, "post")
  /\ Comment(a)
  /\ Answers(a, FALSE, FALSE, FALSE)

ResolveLost(a) ==
  /\ In(a, "mutate")
  /\ thread' = [thread EXCEPT ![On(a)].resolved = TRUE]
  /\ Answers(a, work[a].replied, FALSE, FALSE)

AgentStep(a) ==
  CheckResolved(a) \/ FindComment(a) \/ PostReply(a) \/ Resolve(a) \/ Return(a)
  \/ CallFails(a) \/ ReplyLost(a) \/ ResolveLost(a)

(***************************************************************************)
(* GitHub's users: a reviewer opens threads; someone resolves or reopens.  *)
(***************************************************************************)
Opened(ts) ==
  thread' = [t \in Threads |-> IF t \in ts THEN [thread[t] EXCEPT !.comments = <<Reviewer>>]
                               ELSE thread[t]]

OpenThread(t) ==
  /\ ~Open(t)
  /\ Opened({t})
  /\ UNCHANGED <<work, answer>>

UserSets(t, resolved) ==
  /\ Open(t)
  /\ thread[t].resolved # resolved
  /\ thread' = [thread EXCEPT ![t].resolved = resolved]
  /\ work' = [a \in Agents |-> IF ~resolved /\ In(a, "return") /\ On(a) = t
                               THEN [work[a] EXCEPT !.reopened = TRUE] ELSE work[a]]
  /\ UNCHANGED answer

ThreadInit ==
  /\ thread = [t \in Threads |-> [comments |-> <<>>, resolved |-> FALSE]]
  /\ work = [a \in Agents |-> NoWork]
  /\ answer = [a \in Agents |-> NoAnswer]

ThreadNext ==
  \/ \E a \in Agents, t \in Threads, op \in Ops, resolve \in BOOLEAN : Call(a, op, t, resolve)
  \/ \E a \in Agents : AgentStep(a)
  \/ \E t \in Threads : OpenThread(t)
  \/ \E t \in Threads, resolved \in BOOLEAN : UserSets(t, resolved)

ThreadSpec == ThreadInit /\ [][ThreadNext]_threadVars

(***************************************************************************)
(* Properties.                                                             *)
(***************************************************************************)
\* A handler posts its reply at most once, however it ends, and a handler that
\* says it replied did: replied is never true of a reply that is not there.
RepliedOnce ==
  \A a \in Agents :
    /\ answer[a].op # "none" =>
         /\ RepliesOf(a, answer[a].on) <= answer[a].before + 1
         /\ answer[a].replied => RepliesOf(a, answer[a].on) = answer[a].before + 1
    /\ work[a].pc # "idle" => RepliesOf(a, On(a)) <= work[a].before + 1

\* reply_and_resolve resolves nothing it did not reply to ("返信失敗時は Resolve
\* を実行しない"): its reply is there when it comes to resolve the thread.
RepliedBeforeResolving ==
  \A a \in Agents :
    work[a].op = "both" /\ work[a].pc \in {"check", "mutate"} =>
      RepliesOf(a, On(a)) > work[a].before

\* resolved is answered only of a thread that is resolved when it is answered, or
\* that someone reopened after the handler read it resolved or resolved it: of
\* what others do before that, between the read and the mutation too, nothing
\* makes the answer wrong.
ResolvedWhenAnswered ==
  [][\A a \in Agents :
       work[a].pc # "idle" /\ work'[a].pc = "idle" /\ answer'[a].resolved
         => thread'[On(a)].resolved \/ work[a].reopened]_threadVars
====
