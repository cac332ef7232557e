----------------------------- MODULE GatewayToken -----------------------------
(***************************************************************************)
(* The credentials of one watch behind mcp-gateway: the token source that  *)
(* asks the gateway (src/internal/github/gateway_token_source.go), the     *)
(* oauth2.ReuseTokenSource around it (src/cmd/server/main.go), and what    *)
(* the poll of the watch makes of a failure (src/internal/watch/manager.go *)
(* and client.go).  WatchManager takes the outcome of a call as an input;  *)
(* here it comes from the gateway and from GitHub.                         *)
(*                                                                         *)
(* Time is what is left of a token, in ticks of the margin oauth2 leaves   *)
(* before an expiry.  What else ends a watch is one action, EndsOtherwise. *)
(***************************************************************************)
EXTENDS Naturals

CONSTANTS
  Life,        \* ticks a new token lives
  Threshold,   \* upstreamFailureThreshold
  MaxClients,  \* bound on the clients Start gives the watch
  Nil

ASSUME GatewayParameters ==
  Life \in Nat \ {0} /\ Threshold \in Nat \ {0} /\ MaxClients \in Nat \ {0}

VARIABLES
  up,      \* the gateway reaches the OAuth provider
  record,  \* what the gateway has for the login: "held", "refused" or "gone"
  token,   \* the token it holds: [left, good]; a token not good was revoked
  cache,   \* per client the token it reuses, or Nil
  client,  \* the client of the watch: each Start with a new token makes another
  poll,    \* [pc, client, call, err]
  fails,   \* upstreamFailureCount
  watch,   \* "WATCHING", or how the watch ended
  own      \* polls of the client in a row that met an outage; only a property reads it

gateway == <<up, record, token>>
gatewayVars == <<up, record, token, cache, client, poll, fails, watch, own>>

Token   == [left: 0..Life, good: BOOLEAN]
\* late: it had run out when the gateway handed it out; only a property reads it.
Cached  == [left: 0..Life, good: BOOLEAN, current: BOOLEAN, dated: BOOLEAN, late: BOOLEAN]
New     == [left |-> Life, good |-> TRUE]
Clients == 1..MaxClients

(***************************************************************************)
(* Errors, and what each side makes of them.                               *)
(***************************************************************************)
\* Any other status or answer of the gateway, or none, is "WhoamiFailed"; any
\* other failure of a call to GitHub, its time limit included, is "CallFailed".
Misuse        == {"Unauthorized", "LoopbackRequired", "BadRequest"}
WhoamiErrors  == Misuse \union {"SubjectGone", "RotationFailed", "UpstreamFailure",
                                "InvalidExpiry", "WhoamiFailed"}
RateLimits    == {"PrimaryLimit", "AbuseLimit"}
GitHubErrors  == RateLimits \union {"401", "403", "404", "422", "5xx", "CallFailed"}
Errors        == WhoamiErrors \union GitHubErrors

ASSUME NilIsNoValue ==
  Nil \notin Cached \union Errors
            \union {"TOKEN_REFRESH_FAILED", "REAUTH_REQUIRED", "TRANSIENT_UPSTREAM_ERROR",
                    "AUTH_REQUIRED", "RATE_LIMITED"}

\* ClassifyGitHubError; Nil is an error without a class.
ClassifyGitHubError(e) ==
  CASE e = "RotationFailed"                               -> "TOKEN_REFRESH_FAILED"
    [] e \in {"SubjectGone", "401"}                       -> "REAUTH_REQUIRED"
    [] e \in {"UpstreamFailure", "InvalidExpiry", "5xx"}  -> "TRANSIENT_UPSTREAM_ERROR"
    [] e \in {"Unauthorized", "LoopbackRequired"}         -> "AUTH_REQUIRED"
    [] e \in {"BadRequest", "422"}                        -> "VALIDATION_ERROR"
    [] e \in RateLimits                                   -> "RATE_LIMITED"
    [] e = "403"                                          -> "PERMISSION_DENIED"
    [] e = "404"                                          -> "NOT_FOUND"
    [] OTHER                                              -> Nil

\* What a tool that met the error tells its caller: the constructors of AuthError.
\* A secondary (abuse) limit is not to be waited for.
ToolAdvice(e) ==
  LET class == ClassifyGitHubError(e)
  IN CASE class \in {"REAUTH_REQUIRED", "TOKEN_REFRESH_FAILED", "AUTH_REQUIRED"} -> "sign in"
       [] e = "PrimaryLimit"                 -> "wait"
       [] class = "TRANSIENT_UPSTREAM_ERROR" -> "retry"
       [] OTHER                              -> "give up"

\* What a lookup of the watch recommends: deriveRecommendedNextAction.
WatchAdvice(status) ==
  CASE status = "AUTH_EXPIRED" -> "sign in"
    [] status = "RATE_LIMITED" -> "wait"
    [] status = "WATCHING"     -> "retry"
    [] OTHER                   -> "give up"

\* Faulty variant: a rejected rotation is taken for one more failure.
IsAuthFailureNotRotation(e) == e \in {"401", "SubjectGone"}

\* IsAuthError or IsGatewayAuthError.
IsAuthFailure(e) == e \in {"401", "SubjectGone", "RotationFailed"}

(***************************************************************************)
(* The gateway, the OAuth provider, GitHub and time.                       *)
(***************************************************************************)
Superseded(dead) ==
  cache' = [c \in Clients |->
    IF cache[c] = Nil THEN Nil
    ELSE [cache[c] EXCEPT !.current = FALSE, !.good = @ /\ ~dead]]

\* The gateway rotates its token, for any of its clients; the provider may
\* revoke the one before.
Rotate ==
  /\ record = "held" /\ up
  /\ token' = New
  /\ \E dead \in BOOLEAN : Superseded(dead)
  /\ UNCHANGED <<up, record>>

\* The user signs in again, through the gateway.
SignIn ==
  /\ up
  /\ record' = "held" /\ token' = New
  /\ \E dead \in BOOLEAN : Superseded(dead)
  /\ UNCHANGED up

\* The record is lost, or its refresh token will be rejected.
Spoil ==
  /\ record' \in {"refused", "gone"}
  /\ UNCHANGED <<up, token, cache>>

Outage == up' = ~up /\ UNCHANGED <<record, token, cache>>

Revoke ==
  /\ token' = [token EXCEPT !.good = FALSE]
  /\ cache' = [c \in Clients |-> IF cache[c] = Nil THEN Nil ELSE [cache[c] EXCEPT !.good = FALSE]]
  /\ UNCHANGED <<up, record>>

\* A request is at GitHub within the margin.
Less(n) == IF n = 0 THEN 0 ELSE n - 1
Tick ==
  /\ poll.pc # "send"
  /\ token' = [token EXCEPT !.left = Less(@)]
  /\ cache' = [c \in Clients |-> IF cache[c] = Nil THEN Nil
                                 ELSE [cache[c] EXCEPT !.left = Less(@)]]
  /\ UNCHANGED <<up, record>>

Environment ==
  /\ Rotate \/ SignIn \/ Spoil \/ Outage \/ Revoke \/ Tick
  /\ UNCHANGED <<client, poll, fails, watch, own>>

\* What whoami answers: a token, perhaps without a usable expires_at, or "late",
\* with one that is past.
Whoami ==
  Misuse \union {"WhoamiFailed"} \union
  IF record = "gone" THEN {"SubjectGone"}
  ELSE (IF token.left > 0 \/ (record = "held" /\ up) THEN {"token", "undated"} ELSE {})
       \union (IF token.left = 0 THEN {"late"} ELSE {})
       \union (IF ~up THEN {"UpstreamFailure"} ELSE {})
       \union (IF up /\ record = "refused" THEN {"RotationFailed"} ELSE {})

\* The token it comes with: rotated first if it has run out, but for a late one.
Held(late) == IF token.left > 0 \/ late THEN token ELSE New

(***************************************************************************)
(* A poll: reviewers, reviews and, not always, the timeline; each call     *)
(* asks the token source first.                                            *)
(***************************************************************************)
Idle == [pc |-> "idle", client |-> client, call |-> 0, err |-> Nil]
At(pc) == poll.pc = pc
Live   == watch = "WATCHING"

PollCall ==
  /\ Live /\ At("idle")
  /\ poll' = [pc |-> "token", client |-> client, call |-> 1, err |-> Nil]
  /\ UNCHANGED <<gateway, cache, client, fails, watch, own>>

\* The timeline is best effort: whatever went wrong with it, the poll is done.
Failed(e) == poll' = IF poll.call = 3 THEN [poll EXCEPT !.pc = "done"]
                     ELSE [poll EXCEPT !.pc = "failed", !.err = e]

\* oauth2: a token without expiry is good for ever.
Valid(t) == t # Nil /\ (t.dated => t.left > 0)

UseCached ==
  /\ At("token") /\ Valid(cache[poll.client])
  /\ poll' = [poll EXCEPT !.pc = "send"]
  /\ UNCHANGED <<gateway, cache, client, fails, watch, own>>

Store(dated, late) ==
  /\ cache' = [c \in Clients |->
       IF c = poll.client THEN [left |-> Held(late).left, good |-> Held(late).good,
                                current |-> TRUE, dated |-> dated, late |-> late]
       ELSE IF Held(late) # token /\ cache[c] # Nil THEN [cache[c] EXCEPT !.current = FALSE]
       ELSE cache[c]]
  /\ token' = Held(late)
  /\ poll' = [poll EXCEPT !.pc = "send"]
  /\ UNCHANGED <<up, record>>

\* Faulty variant: a token without a usable expiry is accepted.
TokenUndated ==
  /\ At("token") /\ ~Valid(cache[poll.client])
  /\ \E answer \in Whoami :
       \/ answer \in {"token", "undated", "late"} /\ Store(answer # "undated", answer = "late")
       \/ /\ answer \notin {"token", "undated", "late"}
          /\ Failed(answer)
          /\ UNCHANGED <<gateway, cache>>
  /\ UNCHANGED <<client, fails, watch, own>>

\* gatewayTokenSource.Token: only a token with an expiry is kept and used; an
\* expiry that is past is not looked at, there or in oauth2.
TokenAsked ==
  /\ At("token") /\ ~Valid(cache[poll.client])
  /\ \E answer \in Whoami :
       \/ answer \in {"token", "late"} /\ Store(TRUE, answer = "late")
       \/ /\ answer \notin {"token", "late"}
          /\ Failed(IF answer = "undated" THEN "InvalidExpiry" ELSE answer)
          /\ UNCHANGED <<gateway, cache>>
  /\ UNCHANGED <<client, fails, watch, own>>

\* The call itself.  GitHub judges the token when the request arrives.
Send ==
  /\ At("send")
  /\ LET t == cache[poll.client]
     IN IF ~t.good \/ t.left = 0 THEN Failed("401")
        ELSE \/ \E e \in GitHubErrors \ {"401"} : Failed(e)
             \/ poll.call < 3 /\ poll' = [poll EXCEPT !.pc = "token", !.call = @ + 1]
             \/ poll.call > 1 /\ poll' = [poll EXCEPT !.pc = "done"]
  /\ UNCHANGED <<gateway, cache, client, fails, watch, own>>

\* The review goes on.
PollDone ==
  /\ At("done") /\ Live
  /\ fails' = 0
  /\ own' = IF poll.client = client THEN 0 ELSE own
  /\ poll' = Idle
  /\ UNCHANGED <<gateway, cache, client, watch>>

Counted(n) == IF poll.client = client /\ own < Threshold THEN n + 1 ELSE n

\* Faulty variants: failures below the threshold are forgotten; the threshold is
\* overstepped by one.
HandleUpstreamFailureForgets ==
  /\ At("failed") /\ Live /\ poll.err = "UpstreamFailure"
  /\ watch' = IF Threshold = 1 THEN "AUTH_EXPIRED" ELSE watch
  /\ own' = Counted(own)
  /\ poll' = Idle
  /\ UNCHANGED <<gateway, cache, client, fails>>

HandleUpstreamFailureLate ==
  /\ At("failed") /\ Live /\ poll.err = "UpstreamFailure"
  /\ fails' = fails + 1
  /\ watch' = IF fails' > Threshold THEN "AUTH_EXPIRED" ELSE watch
  /\ own' = Counted(own)
  /\ poll' = Idle
  /\ UNCHANGED <<gateway, cache, client>>

\* The same watch goes on with fewer failures left, whoever's failure it was.
HandleUpstreamFailure ==
  /\ At("failed") /\ Live /\ poll.err = "UpstreamFailure"
  /\ fails' = fails + 1
  /\ watch' = IF fails' >= Threshold THEN "AUTH_EXPIRED" ELSE watch
  /\ own' = Counted(own)
  /\ poll' = Idle
  /\ UNCHANGED <<gateway, cache, client>>

\* Faulty variant: a gateway that does not answer is asked again and again.
PollFailureRetries ==
  /\ At("failed") /\ Live /\ poll.err # "UpstreamFailure"
  /\ watch' = CASE poll.err = "WhoamiFailed"   -> watch
                [] poll.err \in RateLimits     -> "RATE_LIMITED"
                [] IsAuthFailure(poll.err)     -> "AUTH_EXPIRED"
                [] OTHER                       -> "GITHUB_ERROR"
  /\ poll' = Idle
  /\ UNCHANGED <<gateway, cache, client, fails, own>>

\* Any other error ends the watch.
PollFailure ==
  /\ At("failed") /\ Live /\ poll.err # "UpstreamFailure"
  /\ watch' = CASE poll.err \in RateLimits   -> "RATE_LIMITED"
                [] IsAuthFailure(poll.err)   -> "AUTH_EXPIRED"
                [] OTHER                     -> "GITHUB_ERROR"
  /\ poll' = Idle
  /\ UNCHANGED <<gateway, cache, client, fails, own>>

\* The watch ended meanwhile: its context is done, its outcome stays.
PollLate ==
  /\ ~Live /\ ~At("idle")
  /\ poll' = Idle
  /\ UNCHANGED <<gateway, cache, client, fails, watch, own>>

\* Faulty variant: the count outlives the client.
NewClientKeepsCount ==
  /\ Live /\ client < MaxClients
  /\ client' = client + 1
  /\ own' = 0
  /\ UNCHANGED <<gateway, cache, poll, fails, watch>>

\* Start with another token, also in the middle of a poll: a new token source,
\* with nothing to reuse.
NewClient ==
  /\ Live /\ client < MaxClients
  /\ client' = client + 1
  /\ fails' = 0 /\ own' = 0
  /\ UNCHANGED <<gateway, cache, poll, watch>>

EndsOtherwise ==
  /\ Live
  /\ watch' = "OTHER"
  /\ UNCHANGED <<gateway, cache, client, poll, fails, own>>

PollStep == \/ PollCall \/ UseCached \/ TokenAsked \/ Send \/ PollDone
            \/ HandleUpstreamFailure \/ PollFailure \/ PollLate

GatewayInit ==
  /\ up \in BOOLEAN /\ record \in {"held", "refused", "gone"} /\ token = New
  /\ cache = [c \in Clients |-> Nil]
  /\ client = 1 /\ poll = Idle
  /\ fails = 0 /\ own = 0 /\ watch = "WATCHING"

GatewayNext == PollStep \/ NewClient \/ EndsOtherwise \/ Environment

GatewaySpec == GatewayInit /\ [][GatewayNext]_gatewayVars

\* The ticker fires and calls are answered or time out; between two polls time
\* passes.
FairGatewaySpec ==
  /\ GatewaySpec
  /\ WF_gatewayVars(PollStep)
  /\ SF_gatewayVars(Tick /\ UNCHANGED <<client, poll, fails, watch, own>>)

(***************************************************************************)
(* Properties.                                                             *)
(***************************************************************************)
GatewayTypeOK ==
  /\ up \in BOOLEAN /\ record \in {"held", "refused", "gone"} /\ token \in Token
  /\ cache \in [Clients -> Cached \union {Nil}]
  /\ client \in Clients
  /\ poll \in [pc: {"idle", "token", "send", "done", "failed"}, client: Clients,
               call: 0..3, err: Errors \union {Nil}]
  /\ fails \in 0..Threshold /\ own \in 0..Threshold
  /\ watch \in {"WATCHING", "AUTH_EXPIRED", "RATE_LIMITED", "GITHUB_ERROR", "OTHER"}

\* No call goes out with a token that has run out, however long the watch
\* lives, unless the gateway handed it out so: what else GitHub rejects was
\* revoked.
NoExpiredTokenIsSent == At("send") => cache[poll.client].left > 0 \/ cache[poll.client].late

\* An outage of the gateway ends a watch only after Threshold polls in a row;
\* new credentials start over, but for the poll that was under way.
OutageGetsItsBudget ==
  [][watch' = "AUTH_EXPIRED" /\ Live /\ poll.err = "UpstreamFailure"
       => own' >= Threshold - 1]_gatewayVars

\* For every error the watch recommends what a tool that met the same error does,
\* but for these:
\* - on a 5xx and on an unusable expires_at, transient for the tools, the watch
\*   gives up; so it does when the gateway rejects the process itself, where the
\*   tools ask the user to sign in;
\* - an outage, transient for the tools, makes it ask the user to sign in once it
\*   used up its budget;
\* - after a secondary limit, which the tools say not to retry, it says to wait.
GivenUp == {"5xx", "InvalidExpiry", "Unauthorized", "LoopbackRequired"}

SameAdvice ==
  [][At("failed") /\ Live /\ poll' = Idle =>
       WatchAdvice(watch') =
         CASE poll.err \in GivenUp                                   -> "give up"
           [] poll.err = "UpstreamFailure" /\ fails + 1 >= Threshold -> "sign in"
           [] poll.err = "AbuseLimit"                                -> "wait"
           [] OTHER                                                  -> ToolAdvice(poll.err)
    ]_gatewayVars

\* A watch does not stay with a token the gateway has replaced: it asks again,
\* or ends.
Outdated == cache[client] # Nil /\ ~cache[client].current
RotatedTokenIsUsed == Live /\ Outdated ~> ~Live \/ ~Outdated

\* A gateway that never reaches the provider again ends the watch, however
\* polls, caches and new credentials fall.
OutageIsReported == <>[]~up => <>~Live
====
