-------------------------- MODULE GatewayTokenProofs --------------------------
(***************************************************************************)
(* Theorems about GatewayToken, for any life of a token, any threshold and *)
(* any number of clients.                                                  *)
(***************************************************************************)
EXTENDS GatewayToken, TLAPS

(***************************************************************************)
(* The inductive invariant.                                                *)
(***************************************************************************)

\* Every token a client keeps has an expiry.
CacheIsDated == \A c \in Clients : cache[c] # Nil => cache[c].dated

\* A call that is about to go out has a token, and the token has not run out, or
\* had when the gateway handed it out: between the look at its expiry and the
\* call no time passes that counts.
Usable(t) == t.left > 0 \/ t.late
SentIsValid == At("send") => cache[poll.client] # Nil /\ Usable(cache[poll.client])

\* A poll that failed has an error, and one that runs a call number.
PollIsConsistent ==
  /\ At("failed") => poll.err \in Errors
  /\ ~At("idle") => poll.call > 0

\* The poll under way is of a client that Start has replaced meanwhile.
StalePoll == ~At("idle") /\ poll.client # client

\* The failures counted for a client are its own, but for one of the client
\* before: that of the poll that was under way when it was replaced.
BudgetIsOwn ==
  /\ Live => fails < Threshold
  /\ StalePoll => fails <= own
  /\ fails <= own + 1

GatewayInv ==
  /\ GatewayTypeOK
  /\ CacheIsDated
  /\ SentIsValid
  /\ PollIsConsistent
  /\ Live => BudgetIsOwn

\* The poll variable is a record of its type.
Poll == [pc: {"idle", "token", "send", "done", "failed"}, client: Clients,
         call: 0..3, err: Errors \union {Nil}]

LEMMA InitGatewayInv == GatewayInit => GatewayInv
<1> SUFFICES ASSUME GatewayInit PROVE GatewayInv
  OBVIOUS
<1>1. Life \in Nat \ {0} /\ Threshold \in Nat \ {0} /\ 1 \in Clients
  BY GatewayParameters DEF Clients
<1>2. New \in Token
  BY <1>1 DEF New, Token
<1>3. poll = [pc |-> "idle", client |-> 1, call |-> 0, err |-> Nil]
  BY DEF GatewayInit, Idle
<1>4. GatewayTypeOK
  BY <1>1, <1>2, <1>3 DEF GatewayInit, GatewayTypeOK
<1> QED BY <1>1, <1>3, <1>4 DEF GatewayInit, GatewayInv, CacheIsDated, SentIsValid,
         PollIsConsistent, BudgetIsOwn, StalePoll, Live, At

(***************************************************************************)
(* What a step leaves of the tokens.                                       *)
(***************************************************************************)

\* A token that is kept is a record, not Nil.
LEMMA CachedIsRecord ==
  ASSUME NEW t \in Cached
  PROVE  t # Nil /\ t.left \in 0..Life
<1>1. t # Nil
  BY NilIsNoValue
<1> QED BY <1>1 DEF Cached

LEMMA LessLeft ==
  ASSUME NEW n \in 0..Life
  PROVE  Less(n) \in 0..Life
BY GatewayParameters DEF Less

LEMMA HeldIsToken ==
  ASSUME GatewayTypeOK, NEW late \in BOOLEAN
  PROVE  /\ Held(late) \in Token /\ Held(late).left \in 0..Life /\ Held(late).good \in BOOLEAN
         /\ Held(late).left > 0 \/ late
<1>1. New \in Token /\ New.left > 0
  BY GatewayParameters DEF New, Token
<1>2. token \in Token /\ (token.left > 0 \/ ~(token.left > 0))
  BY DEF GatewayTypeOK
<1> QED BY <1>1, <1>2 DEF Held, Token

(***************************************************************************)
(* A step of the gateway, GitHub or time.                                  *)
(***************************************************************************)

\* A cache whose tokens were only edited is as good as before.
CacheEdited ==
  \A c \in Clients :
    /\ cache[c] = Nil => cache'[c] = Nil
    /\ cache[c] # Nil => /\ cache'[c] \in Cached
                         /\ cache'[c].dated = cache[c].dated
                         /\ At("send") => /\ cache'[c].left = cache[c].left
                                          /\ cache'[c].late = cache[c].late

LEMMA EditedCacheInv ==
  ASSUME GatewayInv, CacheEdited, cache' = [c \in Clients |-> cache'[c]],
         up' \in BOOLEAN, record' \in {"held", "refused", "gone"}, token' \in Token,
         UNCHANGED <<client, poll, fails, watch, own>>
  PROVE  GatewayInv'
<1>1. cache' \in [Clients -> Cached \union {Nil}]
  <2>1. ASSUME NEW c \in Clients PROVE cache'[c] \in Cached \union {Nil}
    BY DEF CacheEdited
  <2> QED BY <2>1
<1>2. GatewayTypeOK'
  BY <1>1 DEF GatewayInv, GatewayTypeOK
<1>3. CacheIsDated'
  BY DEF GatewayInv, CacheEdited, CacheIsDated
<1>4. SentIsValid'
  <2>1. poll.client \in Clients
    BY DEF GatewayInv, GatewayTypeOK
  <2>2. ASSUME At("send") PROVE cache'[poll.client] # Nil /\ Usable(cache'[poll.client])
    <3>1. cache[poll.client] # Nil /\ Usable(cache[poll.client])
      BY <2>2 DEF GatewayInv, SentIsValid
    <3>2. /\ cache'[poll.client] \in Cached
          /\ cache'[poll.client].left = cache[poll.client].left
          /\ cache'[poll.client].late = cache[poll.client].late
      BY <2>1, <2>2, <3>1 DEF CacheEdited
    <3>3. Usable(cache'[poll.client])
      BY <3>1, <3>2 DEF Usable
    <3> QED BY <3>2, <3>3, CachedIsRecord
  <2> QED BY <2>2 DEF SentIsValid, At
<1>5. PollIsConsistent' /\ (Live => BudgetIsOwn)'
  BY DEF GatewayInv, PollIsConsistent, BudgetIsOwn, StalePoll, Live, At
<1> QED BY <1>2, <1>3, <1>4, <1>5 DEF GatewayInv

LEMMA EnvironmentInv ==
  ASSUME GatewayInv, Environment
  PROVE  GatewayInv'
<1> USE DEF Environment
<1>1. /\ cache \in [Clients -> Cached \union {Nil}]
      /\ up \in BOOLEAN /\ record \in {"held", "refused", "gone"} /\ token \in Token
  BY DEF GatewayInv, GatewayTypeOK
<1>2. New \in Token
  BY GatewayParameters DEF New, Token
<1>3. ASSUME NEW dead \in BOOLEAN, Superseded(dead)
      PROVE  CacheEdited /\ cache' = [c \in Clients |-> cache'[c]]
  <2>1. ASSUME NEW c \in Clients, cache[c] # Nil
        PROVE  /\ cache'[c] \in Cached /\ cache'[c].dated = cache[c].dated
               /\ cache'[c].left = cache[c].left /\ cache'[c].late = cache[c].late
    <3> DEFINE t == cache[c]
               u == [t EXCEPT !.current = FALSE, !.good = @ /\ ~dead]
    <3>1. t \in Cached
      BY <1>1, <2>1
    <3>2. cache'[c] = u
      BY <1>3, <2>1 DEF Superseded
    <3> HIDE DEF t
    <3>3. u \in Cached /\ u.dated = t.dated /\ u.left = t.left /\ u.late = t.late
      BY <3>1 DEF Cached
    <3> QED BY <3>2, <3>3 DEF t
  <2> DEFINE new(c) == IF cache[c] = Nil THEN Nil
                       ELSE [cache[c] EXCEPT !.current = FALSE, !.good = @ /\ ~dead]
  <2>2. cache' = [c \in Clients |-> new(c)] /\ \A c \in Clients : cache[c] = Nil => new(c) = Nil
    BY <1>3 DEF Superseded
  <2> HIDE DEF new
  <2> QED BY <2>1, <2>2 DEF CacheEdited
<1>4. CASE Rotate
  BY <1>1, <1>2, <1>3, <1>4, EditedCacheInv DEF Rotate
<1>5. CASE SignIn
  BY <1>1, <1>2, <1>3, <1>5, EditedCacheInv DEF SignIn
<1>6. CASE Spoil \/ Outage
  <2>1. CacheEdited /\ cache' = [c \in Clients |-> cache'[c]]
    BY <1>1, <1>6 DEF Spoil, Outage, CacheEdited
  <2> QED BY <1>1, <1>6, <2>1, EditedCacheInv DEF Spoil, Outage
<1>7. CASE Revoke
  <2>1. ASSUME NEW c \in Clients, cache[c] # Nil
        PROVE  /\ cache'[c] \in Cached /\ cache'[c].dated = cache[c].dated
               /\ cache'[c].left = cache[c].left /\ cache'[c].late = cache[c].late
    <3> DEFINE t == cache[c]
               u == [t EXCEPT !.good = FALSE]
    <3>1. t \in Cached /\ cache'[c] = u
      BY <1>1, <1>7, <2>1 DEF Revoke
    <3> HIDE DEF t
    <3>2. u \in Cached /\ u.dated = t.dated /\ u.left = t.left /\ u.late = t.late
      BY <3>1 DEF Cached
    <3> QED BY <3>1, <3>2 DEF t
  <2> DEFINE new(c) == IF cache[c] = Nil THEN Nil ELSE [cache[c] EXCEPT !.good = FALSE]
  <2>2. cache' = [c \in Clients |-> new(c)] /\ \A c \in Clients : cache[c] = Nil => new(c) = Nil
    BY <1>7 DEF Revoke
  <2> HIDE DEF new
  <2>3. CacheEdited /\ cache' = [c \in Clients |-> cache'[c]]
    BY <2>1, <2>2 DEF CacheEdited
  <2>4. token' \in Token
    BY <1>1, <1>7 DEF Revoke, Token
  <2> QED BY <1>1, <1>7, <2>3, <2>4, EditedCacheInv DEF Revoke
<1>8. CASE Tick
  <2>1. ASSUME NEW c \in Clients, cache[c] # Nil
        PROVE  cache'[c] \in Cached /\ cache'[c].dated = cache[c].dated
    <3> DEFINE t == cache[c]
               l == Less(t.left)
               u == [t EXCEPT !.left = l]
    <3>1. t \in Cached
      BY <1>1, <2>1
    <3>2. l \in 0..Life
      BY <3>1, CachedIsRecord, LessLeft
    <3>3. cache'[c] = u
      BY <1>8, <2>1 DEF Tick
    <3> HIDE DEF t, l
    <3>4. u \in Cached /\ u.dated = t.dated
      BY <3>1, <3>2 DEF Cached
    <3> QED BY <3>3, <3>4 DEF t
  <2> DEFINE new(c) == IF cache[c] = Nil THEN Nil ELSE [cache[c] EXCEPT !.left = Less(@)]
  <2>2. cache' = [c \in Clients |-> new(c)] /\ \A c \in Clients : cache[c] = Nil => new(c) = Nil
    BY <1>8 DEF Tick
  <2>3. ~At("send")
    BY <1>8 DEF Tick, At
  <2> HIDE DEF new
  <2>4. CacheEdited /\ cache' = [c \in Clients |-> cache'[c]]
    BY <2>1, <2>2, <2>3 DEF CacheEdited
  <2>5. token' \in Token
    <3> DEFINE l == Less(token.left)
    <3>1. token' = [token EXCEPT !.left = l] /\ l \in 0..Life
      BY <1>1, <1>8, LessLeft DEF Tick, Token
    <3> HIDE DEF l
    <3> QED BY <1>1, <3>1 DEF Token
  <2> QED BY <1>1, <1>8, <2>4, <2>5, EditedCacheInv DEF Tick
<1> QED BY <1>4, <1>5, <1>6, <1>7, <1>8

(***************************************************************************)
(* The steps of a poll and of Start.                                       *)
(***************************************************************************)

\* The poll goes on with the tokens, the counts and the watch as they are.
LEMMA PollInv ==
  ASSUME GatewayInv, UNCHANGED <<gateway, cache, client, fails, watch, own>>, poll' \in Poll,
         PollIsConsistent', SentIsValid', StalePoll' => StalePoll
  PROVE  GatewayInv'
<1>1. GatewayTypeOK'
  BY DEF GatewayInv, GatewayTypeOK, gateway, Poll
<1>2. CacheIsDated'
  BY DEF GatewayInv, CacheIsDated
<1>3. (Live => BudgetIsOwn)'
  BY DEF GatewayInv, BudgetIsOwn, Live
<1> QED BY <1>1, <1>2, <1>3 DEF GatewayInv

LEMMA IdleInv ==
  ASSUME GatewayInv, poll' = Idle,
         UNCHANGED <<gateway, cache, client>>,
         fails' \in 0..Threshold, own' \in 0..Threshold,
         watch' \in {"WATCHING", "AUTH_EXPIRED", "RATE_LIMITED", "GITHUB_ERROR", "OTHER"},
         Live' => fails' < Threshold /\ fails' <= own' + 1
  PROVE  GatewayInv'
<1>1. poll' \in Poll /\ poll'.pc = "idle"
  BY DEF GatewayInv, GatewayTypeOK, Idle, Poll
<1>2. GatewayTypeOK'
  BY <1>1 DEF GatewayInv, GatewayTypeOK, gateway, Poll
<1>3. CacheIsDated'
  BY DEF GatewayInv, CacheIsDated
<1>4. SentIsValid' /\ PollIsConsistent' /\ ~StalePoll'
  BY <1>1 DEF SentIsValid, PollIsConsistent, StalePoll, At
<1> QED BY <1>2, <1>3, <1>4 DEF GatewayInv, BudgetIsOwn

\* A call that failed leaves an error, or, the third, a poll that is done.
LEMMA FailedPoll ==
  ASSUME NEW e \in Errors, GatewayInv, Failed(e), ~At("idle")
  PROVE  /\ poll' \in Poll /\ poll'.pc \in {"done", "failed"} /\ poll'.client = poll.client
         /\ poll'.pc = "failed" => poll'.err \in Errors
         /\ poll'.call = poll.call
BY DEF GatewayInv, GatewayTypeOK, Failed, Poll

LEMMA PollCallInv ==
  ASSUME GatewayInv, PollCall
  PROVE  GatewayInv'
<1>1. poll' \in Poll /\ poll'.pc = "token" /\ poll'.client = client' /\ poll'.call = 1
  BY DEF PollCall, Poll, GatewayInv, GatewayTypeOK
<1>2. PollIsConsistent' /\ SentIsValid' /\ ~StalePoll'
  BY <1>1 DEF PollIsConsistent, SentIsValid, StalePoll, At
<1> QED BY <1>1, <1>2, PollInv DEF PollCall

LEMMA UseCachedInv ==
  ASSUME GatewayInv, UseCached
  PROVE  GatewayInv'
<1>1. /\ poll \in Poll /\ poll.pc = "token" /\ cache[poll.client] # Nil
      /\ Usable(cache[poll.client]) /\ poll.client \in Clients
  BY DEF GatewayInv, GatewayTypeOK, Poll, UseCached, CacheIsDated, Valid, Usable, At
<1>2. /\ poll' \in Poll /\ poll'.pc = "send" /\ poll'.client = poll.client
      /\ poll'.call = poll.call
  BY <1>1 DEF UseCached, Poll
<1>3. PollIsConsistent' /\ SentIsValid' /\ (StalePoll' => StalePoll)
  BY <1>1, <1>2 DEF GatewayInv, UseCached, PollIsConsistent, SentIsValid, StalePoll, At
<1> QED BY <1>2, <1>3, PollInv DEF UseCached

\* The token source keeps what the gateway gave it.
LEMMA StoreInv ==
  ASSUME NEW late \in BOOLEAN, GatewayInv, At("token"), Store(TRUE, late),
         UNCHANGED <<client, fails, watch, own>>
  PROVE  GatewayInv'
<1> DEFINE kept == [left |-> Held(late).left, good |-> Held(late).good, current |-> TRUE,
                    dated |-> TRUE, late |-> late]
           other(c) == IF Held(late) # token /\ cache[c] # Nil THEN [cache[c] EXCEPT !.current = FALSE]
                       ELSE cache[c]
<1>1. poll \in Poll /\ poll.client \in Clients /\ poll.pc = "token"
  BY DEF GatewayInv, GatewayTypeOK, Poll, At
<1>2. kept \in Cached /\ Usable(kept) /\ kept.dated = TRUE /\ kept # Nil
  <2> DEFINE left == Held(late).left
             good == Held(late).good
  <2>1. left \in 0..Life /\ (left > 0 \/ late) /\ good \in BOOLEAN
    BY HeldIsToken DEF GatewayInv
  <2> HIDE DEF left, good
  <2> DEFINE k == [left |-> left, good |-> good, current |-> TRUE, dated |-> TRUE,
                   late |-> late]
  <2>2. k \in Cached /\ Usable(k) /\ k.dated = TRUE
    BY <2>1 DEF Cached, Usable
  <2>3. k # Nil
    BY <2>2, NilIsNoValue
  <2> QED BY <2>2, <2>3 DEF left, good
<1>3. ASSUME NEW c \in Clients
      PROVE  other(c) \in Cached \union {Nil} /\ (other(c) # Nil => other(c).dated)
  <2>1. cache[c] \in Cached \union {Nil} /\ (cache[c] # Nil => cache[c].dated)
    BY DEF GatewayInv, GatewayTypeOK, CacheIsDated
  <2>2. CASE cache[c] = Nil
    BY <2>2
  <2>3. CASE cache[c] # Nil
    <3> DEFINE t == cache[c]
               u == [t EXCEPT !.current = FALSE]
    <3>1. t \in Cached /\ t.dated
      BY <2>1, <2>3
    <3> HIDE DEF t
    <3>2. u \in Cached /\ u.dated
      BY <3>1 DEF Cached
    <3>3. other(c) \in {t, u}
      BY DEF t
    <3> QED BY <3>1, <3>2, <3>3
  <2> QED BY <2>2, <2>3
<1>4. cache' = [c \in Clients |-> IF c = poll.client THEN kept ELSE other(c)]
  BY DEF Store
<1>5. poll' \in Poll /\ poll'.pc = "send" /\ poll'.client = poll.client /\ poll'.call = poll.call
  BY <1>1 DEF Store, Poll
<1>6. token' \in Token /\ up' = up /\ record' = record
  BY HeldIsToken DEF Store, GatewayInv
<1> HIDE DEF kept, other
<1>7. cache' \in [Clients -> Cached \union {Nil}] /\ CacheIsDated'
  BY <1>2, <1>3, <1>4 DEF CacheIsDated
<1>8. SentIsValid'
  BY <1>1, <1>2, <1>4, <1>5 DEF SentIsValid
<1>9. PollIsConsistent' /\ (StalePoll' => StalePoll)
  BY <1>1, <1>5 DEF GatewayInv, PollIsConsistent, StalePoll, At
<1>10. GatewayTypeOK'
  BY <1>5, <1>6, <1>7 DEF GatewayInv, GatewayTypeOK, Poll
<1>11. (Live => BudgetIsOwn)'
  BY <1>9 DEF GatewayInv, BudgetIsOwn, Live
<1> QED BY <1>7, <1>8, <1>9, <1>10, <1>11 DEF GatewayInv

LEMMA TokenAskedInv ==
  ASSUME GatewayInv, TokenAsked
  PROVE  GatewayInv'
<1>1. PICK answer \in Whoami :
        \/ answer \in {"token", "late"} /\ Store(TRUE, answer = "late")
        \/ /\ answer \notin {"token", "late"}
           /\ Failed(IF answer = "undated" THEN "InvalidExpiry" ELSE answer)
           /\ UNCHANGED <<gateway, cache>>
  BY DEF TokenAsked
<1>2. At("token") /\ poll.pc = "token" /\ UNCHANGED <<client, fails, watch, own>>
  BY DEF TokenAsked, At
<1>3. CASE answer \in {"token", "late"} /\ Store(TRUE, answer = "late")
  <2>1. (answer = "late") \in BOOLEAN
    OBVIOUS
  <2> QED BY <1>2, <1>3, <2>1, StoreInv
<1>4. CASE answer \notin {"token", "late"}
  <2> DEFINE e == IF answer = "undated" THEN "InvalidExpiry" ELSE answer
  <2>1. e \in Errors
    BY <1>4 DEF Whoami, Errors, WhoamiErrors, Misuse
  <2>2. Failed(e) /\ UNCHANGED <<gateway, cache>>
    BY <1>1, <1>4
  <2> HIDE DEF e
  <2>3. /\ poll' \in Poll /\ poll'.pc \in {"done", "failed"} /\ poll'.client = poll.client
        /\ poll'.pc = "failed" => poll'.err \in Errors
        /\ poll'.call = poll.call
    BY <1>2, <2>1, <2>2, FailedPoll DEF At
  <2>4. PollIsConsistent' /\ SentIsValid' /\ (StalePoll' => StalePoll)
    BY <1>2, <2>3 DEF GatewayInv, PollIsConsistent, SentIsValid, StalePoll, At
  <2> QED BY <1>2, <2>2, <2>3, <2>4, PollInv
<1> QED BY <1>1, <1>3, <1>4

LEMMA SendInv ==
  ASSUME GatewayInv, Send
  PROVE  GatewayInv'
<1>1. poll \in Poll /\ poll.pc = "send" /\ poll.call > 0
  BY DEF GatewayInv, GatewayTypeOK, PollIsConsistent, Poll, Send, At
<1>2. poll' \in Poll /\ poll'.client = poll.client /\ PollIsConsistent' /\ poll'.pc # "send"
  <2>1. ASSUME NEW e \in GitHubErrors, Failed(e)
        PROVE  poll' \in Poll /\ poll'.client = poll.client /\ PollIsConsistent' /\ poll'.pc # "send"
    <3>1. e \in Errors
      BY DEF Errors
    <3> QED BY <1>1, <2>1, <3>1, FailedPoll DEF PollIsConsistent, At
  <2>2. CASE poll.call < 3 /\ poll' = [poll EXCEPT !.pc = "token", !.call = @ + 1]
    <3> DEFINE n == poll.call + 1
    <3>1. n \in 0..3 /\ n > 0 /\ poll' = [poll EXCEPT !.pc = "token", !.call = n]
      BY <1>1, <2>2 DEF Poll
    <3> HIDE DEF n
    <3> QED BY <1>1, <3>1 DEF Poll, PollIsConsistent, At
  <2>3. CASE poll' = [poll EXCEPT !.pc = "done"]
    BY <1>1, <2>3 DEF Poll, PollIsConsistent, At
  <2>4. "401" \in GitHubErrors
    BY DEF GitHubErrors
  <2> QED BY <2>1, <2>2, <2>3, <2>4 DEF Send
<1>3. SentIsValid' /\ (StalePoll' => StalePoll)
  BY <1>1, <1>2 DEF Send, SentIsValid, StalePoll, At
<1> QED BY <1>2, <1>3, PollInv DEF Send

LEMMA PollEndsInv ==
  ASSUME GatewayInv, PollDone \/ HandleUpstreamFailure \/ PollFailure \/ PollLate
  PROVE  GatewayInv'
<1>1. /\ fails \in 0..Threshold /\ own \in 0..Threshold /\ Threshold \in Nat \ {0}
      /\ watch \in {"WATCHING", "AUTH_EXPIRED", "RATE_LIMITED", "GITHUB_ERROR", "OTHER"}
  BY GatewayParameters DEF GatewayInv, GatewayTypeOK
<1>2. CASE PollDone
  BY <1>1, <1>2, IdleInv DEF PollDone
<1>3. CASE HandleUpstreamFailure
  <2>1. fails < Threshold /\ (poll.client # client => fails <= own) /\ fails <= own + 1
    BY <1>3 DEF HandleUpstreamFailure, GatewayInv, BudgetIsOwn, StalePoll, At
  <2>2. own' = IF poll.client = client /\ own < Threshold THEN own + 1 ELSE own
    BY <1>3 DEF HandleUpstreamFailure, Counted
  <2>3. own' \in 0..Threshold /\ fails' = fails + 1 /\ fails' \in 0..Threshold
    BY <1>1, <1>3, <2>1, <2>2 DEF HandleUpstreamFailure
  <2>4. Live' => fails' < Threshold
    BY <1>1, <1>3, <2>3 DEF HandleUpstreamFailure, Live
  <2>5. fails' <= own' + 1
    BY <1>1, <2>1, <2>2, <2>3
  <2>6. watch' \in {"WATCHING", "AUTH_EXPIRED", "RATE_LIMITED", "GITHUB_ERROR", "OTHER"}
    BY <1>1, <1>3 DEF HandleUpstreamFailure
  <2> QED BY <1>3, <2>3, <2>4, <2>5, <2>6, IdleInv DEF HandleUpstreamFailure
<1>4. CASE PollFailure
  <2>1. watch' \in {"RATE_LIMITED", "AUTH_EXPIRED", "GITHUB_ERROR"}
    BY <1>4 DEF PollFailure
  <2> QED BY <1>1, <1>4, <2>1, IdleInv DEF PollFailure, Live
<1>5. CASE PollLate
  BY <1>1, <1>5, IdleInv DEF PollLate, Live
<1> QED BY <1>2, <1>3, <1>4, <1>5

LEMMA NewClientInv ==
  ASSUME GatewayInv, NewClient \/ EndsOtherwise
  PROVE  GatewayInv'
<1>1. GatewayTypeOK'
  BY GatewayParameters DEF GatewayInv, GatewayTypeOK, NewClient, EndsOtherwise, gateway, Clients
<1>2. CacheIsDated' /\ SentIsValid' /\ PollIsConsistent'
  BY DEF GatewayInv, NewClient, EndsOtherwise, CacheIsDated, SentIsValid, PollIsConsistent, At
<1>3. (Live => BudgetIsOwn)'
  BY GatewayParameters DEF NewClient, EndsOtherwise, BudgetIsOwn, Live
<1> QED BY <1>1, <1>2, <1>3 DEF GatewayInv

LEMMA GatewayInvIsInductive ==
  GatewayInv /\ [GatewayNext]_gatewayVars => GatewayInv'
<1>1. CASE UNCHANGED gatewayVars
  BY <1>1 DEF gatewayVars, GatewayInv, GatewayTypeOK, CacheIsDated, SentIsValid,
     PollIsConsistent, BudgetIsOwn, StalePoll, Live, At
<1> QED BY <1>1, EnvironmentInv, PollCallInv, UseCachedInv, TokenAskedInv, SendInv,
         PollEndsInv, NewClientInv DEF GatewayNext, PollStep

(***************************************************************************)
(* The theorems.                                                           *)
(***************************************************************************)

\* Every variable of the gateway model keeps its type (the state of
\* gatewayTokenSource, ReuseTokenSource and the watch entry).
THEOREM GatewayTypeCorrect == GatewaySpec => []GatewayTypeOK
<1>1. GatewayInv => GatewayTypeOK
  BY DEF GatewayInv
<1> QED BY <1>1, InitGatewayInv, GatewayInvIsInductive, PTL DEF GatewaySpec

\* No call of a poll goes to GitHub with a token that ran out while its client
\* kept it: Token keeps only tokens with an expiry, and ReuseTokenSource looks at
\* it before each call.  A token that comes run out is used once.
THEOREM NoExpiredToken == GatewaySpec => []NoExpiredTokenIsSent
<1>1. GatewayInv => NoExpiredTokenIsSent
  BY DEF GatewayInv, SentIsValid, Usable, NoExpiredTokenIsSent
<1> QED BY <1>1, InitGatewayInv, GatewayInvIsInductive, PTL DEF GatewaySpec

\* The watch that handleUpstreamFailure ends has had its budget: with its present
\* client all failures of the threshold but at most one, that of a poll which was
\* under way when Start replaced the client.
THEOREM OutageBudget == GatewaySpec => OutageGetsItsBudget
<1> DEFINE A == watch' = "AUTH_EXPIRED" /\ Live /\ poll.err = "UpstreamFailure"
                  => own' >= Threshold - 1
<1>1. ASSUME GatewayInv, [GatewayNext]_gatewayVars PROVE A
  <2>1. SUFFICES ASSUME watch' = "AUTH_EXPIRED", Live, poll.err = "UpstreamFailure"
                 PROVE  own' >= Threshold - 1
    OBVIOUS
  <2>2. watch' # watch /\ poll.err # Nil
    BY <2>1, NilIsNoValue DEF Live, Errors, WhoamiErrors
  <2>3. HandleUpstreamFailure
    BY <1>1, <2>1, <2>2 DEF GatewayNext, PollStep, PollCall, UseCached, TokenAsked, Send, PollDone,
       PollFailure, PollLate, NewClient, EndsOtherwise, Environment, gatewayVars
  <2>4. /\ fails \in 0..Threshold /\ own \in 0..Threshold /\ Threshold \in Nat
        /\ (poll.client # client => fails <= own) /\ fails <= own + 1
    BY <1>1, <2>3, GatewayParameters
    DEF HandleUpstreamFailure, GatewayInv, GatewayTypeOK, BudgetIsOwn, StalePoll, At
  <2>5. fails + 1 >= Threshold
    BY <2>1, <2>3 DEF HandleUpstreamFailure, Live
  <2>6. own' = IF poll.client = client /\ own < Threshold THEN own + 1 ELSE own
    BY <2>3 DEF HandleUpstreamFailure, Counted
  <2> QED BY <2>4, <2>5, <2>6
<1> HIDE DEF A
<1>2. GatewaySpec => [][A]_gatewayVars
  BY <1>1, InitGatewayInv, GatewayInvIsInductive, PTL DEF GatewaySpec
<1> QED BY <1>2 DEF A, OutageGetsItsBudget

\* The status HandleUpstreamFailure, handleAuthFailure and the poll loop leave the
\* watch with recommends, for every error, what ClassifyGitHubError makes the tools
\* say of it, but for the four disagreements SameAdvice names, and there exactly
\* what it says.
THEOREM AdviceIsTheSame == GatewaySpec => SameAdvice
<1> DEFINE e == poll.err
           told == CASE e \in GivenUp                                   -> "give up"
                     [] e = "UpstreamFailure" /\ fails + 1 >= Threshold -> "sign in"
                     [] e = "AbuseLimit"                                -> "wait"
                     [] OTHER                                           -> ToolAdvice(e)
           A == At("failed") /\ Live /\ poll' = Idle => WatchAdvice(watch') = told
<1>1. ASSUME GatewayInv, [GatewayNext]_gatewayVars PROVE A
  <2>1. SUFFICES ASSUME At("failed"), Live, poll' = Idle PROVE WatchAdvice(watch') = told
    OBVIOUS
  <2>2. poll.pc = "failed" /\ poll'.pc = "idle" /\ e \in Errors
    BY <1>1, <2>1 DEF At, Idle, GatewayInv, PollIsConsistent
  <2>3. HandleUpstreamFailure \/ PollFailure
    BY <1>1, <2>1, <2>2 DEF GatewayNext, PollStep, PollCall, UseCached, TokenAsked, Send, PollDone,
       PollLate, NewClient, EndsOtherwise, Environment, gatewayVars, At
  <2>4. CASE HandleUpstreamFailure
    <3>1. e = "UpstreamFailure" /\ watch = "WATCHING" /\ fails' = fails + 1
          /\ watch' = IF fails' >= Threshold THEN "AUTH_EXPIRED" ELSE watch
      BY <2>1, <2>4 DEF HandleUpstreamFailure, Live
    <3>2. CASE fails + 1 >= Threshold
      <4>1. watch' = "AUTH_EXPIRED" /\ told = "sign in"
        BY <3>1, <3>2 DEF GivenUp
      <4> QED BY <4>1 DEF WatchAdvice
    <3>3. CASE ~(fails + 1 >= Threshold)
      <4>1. watch' = "WATCHING" /\ told = ToolAdvice(e)
        BY <3>1, <3>3 DEF GivenUp
      <4>2. ClassifyGitHubError(e) = "TRANSIENT_UPSTREAM_ERROR"
        BY <3>1 DEF ClassifyGitHubError, RateLimits
      <4>3. ToolAdvice(e) = "retry"
        BY <3>1, <4>2 DEF ToolAdvice
      <4> QED BY <4>1, <4>3 DEF WatchAdvice
    <3> QED BY <3>2, <3>3
  <2>5. CASE PollFailure
    <3>1. /\ e # "UpstreamFailure"
          /\ watch' = CASE e \in RateLimits   -> "RATE_LIMITED"
                        [] IsAuthFailure(e)   -> "AUTH_EXPIRED"
                        [] OTHER              -> "GITHUB_ERROR"
      BY <2>5 DEF PollFailure
    <3>2. CASE e \in RateLimits
      <4>1. watch' = "RATE_LIMITED"
        BY <3>1, <3>2 DEF RateLimits, IsAuthFailure
      <4>2. ClassifyGitHubError(e) = "RATE_LIMITED"
        BY <3>2 DEF ClassifyGitHubError, RateLimits
      <4>3. e = "PrimaryLimit" => ToolAdvice(e) = "wait"
        BY <4>2 DEF ToolAdvice
      <4>4. told = "wait"
        BY <3>2, <4>3 DEF RateLimits, GivenUp
      <4> QED BY <4>1, <4>4 DEF WatchAdvice
    <3>3. CASE IsAuthFailure(e)
      <4>1. watch' = "AUTH_EXPIRED"
        BY <3>1, <3>3 DEF RateLimits, IsAuthFailure
      <4>2. ClassifyGitHubError(e) \in {"REAUTH_REQUIRED", "TOKEN_REFRESH_FAILED"}
        BY <3>3 DEF ClassifyGitHubError, RateLimits, IsAuthFailure
      <4>3. ToolAdvice(e) = "sign in"
        BY <3>3, <4>2 DEF ToolAdvice, IsAuthFailure
      <4>4. told = "sign in"
        BY <3>3, <4>3 DEF IsAuthFailure, GivenUp
      <4> QED BY <4>1, <4>4 DEF WatchAdvice
    <3>4. CASE e \notin RateLimits /\ ~IsAuthFailure(e)
      <4>1. watch' = "GITHUB_ERROR"
        BY <3>1, <3>4
      <4>2. told = "give up"
        <5>1. CASE e \in GivenUp
          <6>1. e # "UpstreamFailure" /\ e # "AbuseLimit"
            BY <5>1 DEF GivenUp
          <6> QED BY <5>1, <6>1
        <5>2. CASE e \notin GivenUp
          <6>1. e \in {"BadRequest", "WhoamiFailed", "403", "404", "422", "CallFailed"}
            BY <2>2, <3>1, <3>4, <5>2 DEF Errors, WhoamiErrors, Misuse, GitHubErrors, RateLimits,
               IsAuthFailure, GivenUp
          <6>2. ClassifyGitHubError(e) \in {"VALIDATION_ERROR", "PERMISSION_DENIED",
                                            "NOT_FOUND", Nil}
            BY <6>1 DEF ClassifyGitHubError, RateLimits
          <6>3. ToolAdvice(e) = "give up"
            BY <6>1, <6>2, NilIsNoValue DEF ToolAdvice
          <6>4. told = ToolAdvice(e)
            BY <6>1 DEF GivenUp
          <6> QED BY <6>3, <6>4
        <5> QED BY <5>1, <5>2
      <4> QED BY <4>1, <4>2 DEF WatchAdvice
    <3> QED BY <3>2, <3>3, <3>4
  <2> QED BY <2>3, <2>4, <2>5
<1> HIDE DEF A
<1>2. GatewaySpec => [][A]_gatewayVars
  BY <1>1, InitGatewayInv, GatewayInvIsInductive, PTL DEF GatewaySpec
<1> QED BY <1>2 DEF A, SameAdvice

====
