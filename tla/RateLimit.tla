------------------------------ MODULE RateLimit ------------------------------
(***************************************************************************)
(* Concurrent HTTP and gRPC calls through their rate limit middlewares.    *)
(* Each asks RedisLimiter.Allow for leave; Allow runs the bucket's script  *)
(* over go-redis, which is external:                                       *)
(*  - Script.Run sends EVALSHA, and EVAL when Redis does not know the      *)
(*    script;                                                              *)
(*  - a command whose connection breaks is sent again, MaxRetries times;   *)
(*    it may have run before, and may still run afterwards;                *)
(*  - a call whose context is done is given up while it waits to be sent.  *)
(* A bucket holds whole tokens here; TokenBucket models the script's       *)
(* arithmetic.                                                             *)
(***************************************************************************)
EXTENDS Integers, FiniteSets

CONSTANTS
  Calls,
  Callers,    \* [proto, user, host, port, forwarded]: who makes a call
  None,       \* no user, or no forwarding header
  Configs,    \* [failOpen, trustProxy]: RATE_LIMIT_FAIL_OPEN,
              \* TRUST_PROXY_HEADERS
  Capacity,
  MaxRetries, \* of go-redis
  MaxRefill   \* bound on the tokens a bucket is refilled with

ASSUME RateLimitAssumption ==
  /\ IsFiniteSet(Calls)
  /\ Capacity \in Nat \ {0} /\ MaxRetries \in Nat /\ MaxRefill \in Nat
  /\ Configs \subseteq [failOpen : BOOLEAN, trustProxy : BOOLEAN]
  /\ \A x \in Callers : x.proto \in {"http", "grpc"}

Attempts == {"evalsha", "eval"} \X (0..MaxRetries)

VARIABLES
  config,
  caller,   \* of each call
  place,    \* of each call: where Allow is
  attempt,  \* of each call: <<command, times it was sent before>>
  reply,    \* of each call: Redis's answer under way
  broken,   \* of each call: attempts whose connection broke
  ghosts,   \* of each call: the broken ones that may still run
  outcome,  \* of each call: what its middleware did
  level,    \* of each key: the tokens in its bucket
  refilled, \* of each key: the tokens it was refilled with
  taken,    \* of each call: the attempts that took a token
  loaded    \* Redis knows the script

calls == <<config, caller, place, attempt, reply, broken, ghosts, outcome>>
redis == <<level, refilled, taken, loaded>>
vars == <<calls, redis>>

-----------------------------------------------------------------------------
(***************************************************************************)
(* Whose bucket a call is charged to.                                      *)
(***************************************************************************)
\* Mutant: the peer's port is left in the key.
GrpcKeyWithPort(x) ==
  IF x.user # None THEN <<"user", x.user>> ELSE <<"ip", <<x.host, x.port>>>>
\* grpcRateLimitKey; the peer of a TCP connection is always known.
GrpcKey(x) == IF x.user # None THEN <<"user", x.user>> ELSE <<"ip", x.host>>

\* clientIP believes X-Forwarded-For and X-Real-IP only behind a trusted proxy.
ClientIP(x) ==
  IF config.trustProxy /\ x.forwarded # None THEN x.forwarded ELSE x.host

\* rateLimitKey.
HttpKey(x) == IF x.user # None THEN <<"user", x.user>> ELSE <<"ip", ClientIP(x)>>

Key(c) ==
  IF caller[c].proto = "http" THEN HttpKey(caller[c]) ELSE GrpcKey(caller[c])

\* What a call may be charged to.
Keys ==
  {GrpcKey(x) : x \in Callers} \cup {HttpKey(x) : x \in Callers}

TypeOK ==
  /\ config \in Configs
  /\ caller \in [Calls -> Callers]
  /\ place \in [Calls -> {"waiting", "sent", "ran", "over"}]
  /\ attempt \in [Calls -> Attempts]
  /\ reply \in [Calls -> {"none", "allowed", "denied", "noscript"}]
  /\ broken \in [Calls -> SUBSET Attempts]
  /\ ghosts \in [Calls -> SUBSET Attempts]
  /\ outcome \in [Calls -> {"none", "admitted", "unchecked", "denied",
                            "unavailable"}]
  /\ level \in [Keys -> 0..Capacity]
  /\ refilled \in [Keys -> 0..MaxRefill]
  /\ taken \in [Calls -> SUBSET Attempts]
  /\ loaded \in BOOLEAN

Init ==
  /\ config \in Configs
  /\ caller \in [Calls -> Callers]
  /\ place = [c \in Calls |-> "waiting"]
  /\ attempt = [c \in Calls |-> <<"evalsha", 0>>]
  /\ reply = [c \in Calls |-> "none"]
  /\ broken = [c \in Calls |-> {}]
  /\ ghosts = [c \in Calls |-> {}]
  /\ outcome = [c \in Calls |-> "none"]
  /\ level = [k \in Keys |-> Capacity]
  /\ refilled = [k \in Keys |-> 0]
  /\ taken = [c \in Calls |-> {}]
  /\ loaded \in BOOLEAN

-----------------------------------------------------------------------------
(***************************************************************************)
(* The middlewares, on what Allow returned.                                *)
(***************************************************************************)
Decide(c, o) ==
  /\ outcome' = [outcome EXCEPT ![c] = o]
  /\ place' = [place EXCEPT ![c] = "over"]

\* Mutant: the error is logged and the call goes on.
FailOutcomeOpen == "unchecked"
\* Allow returned an error.
FailOutcome == IF config.failOpen THEN "unchecked" ELSE "unavailable"

-----------------------------------------------------------------------------
(***************************************************************************)
(* The command's way to Redis and back.                                    *)
(***************************************************************************)
Send(c) ==
  /\ place[c] = "waiting"
  /\ place' = [place EXCEPT ![c] = "sent"]
  /\ UNCHANGED <<config, caller, attempt, reply, broken, ghosts, outcome, redis>>

\* Redis runs an attempt a of c: it takes a token if there is one.
Take(c, a) ==
  LET known == loaded \/ a[1] = "eval" IN
  /\ loaded' = known
  /\ IF known /\ level[Key(c)] >= 1
     THEN /\ level' = [level EXCEPT ![Key(c)] = @ - 1]
          /\ taken' = [taken EXCEPT ![c] = @ \cup {a}]
     ELSE UNCHANGED <<level, taken>>
  /\ refilled' = refilled

\* Mutant: the decision is made on what is left once the token is taken.
AnswerAfterTaking(c, a) ==
  IF ~loaded /\ a[1] = "evalsha" THEN "noscript"
  ELSE IF level[Key(c)] - 1 >= 1 THEN "allowed" ELSE "denied"
Answer(c, a) ==
  IF ~loaded /\ a[1] = "evalsha" THEN "noscript"
  ELSE IF level[Key(c)] >= 1 THEN "allowed" ELSE "denied"

Execute(c) ==
  /\ place[c] = "sent"
  /\ Take(c, attempt[c])
  /\ reply' = [reply EXCEPT ![c] = Answer(c, attempt[c])]
  /\ place' = [place EXCEPT ![c] = "ran"]
  /\ UNCHANGED <<config, caller, attempt, broken, ghosts, outcome>>

\* A broken attempt runs after all; nobody waits for the answer.
GhostExecutes(c) ==
  /\ \E g \in ghosts[c] :
       /\ Take(c, g)
       /\ ghosts' = [ghosts EXCEPT ![c] = @ \ {g}]
  /\ UNCHANGED <<config, caller, place, attempt, reply, broken, outcome>>

\* Script.Run: EVAL follows an EVALSHA that Redis did not know.
Fallback(c) ==
  /\ place[c] = "ran" /\ reply[c] = "noscript"
  /\ attempt' = [attempt EXCEPT ![c] = <<"eval", 0>>]
  /\ place' = [place EXCEPT ![c] = "waiting"]
  /\ reply' = [reply EXCEPT ![c] = "none"]
  /\ UNCHANGED <<config, caller, broken, ghosts, outcome, redis>>

\* Mutant: the decision is read from the tokens that remain.
AllowReturnsRemaining(c) ==
  /\ place[c] = "ran" /\ reply[c] \in {"allowed", "denied"}
  /\ Decide(c, IF level[Key(c)] >= 1 THEN "admitted" ELSE "denied")
  /\ UNCHANGED <<config, caller, attempt, reply, broken, ghosts, redis>>
\* Allow returns the decision that Redis answered with.  The script answers
\* nothing that Allow cannot parse.
AllowReturns(c) ==
  /\ place[c] = "ran" /\ reply[c] \in {"allowed", "denied"}
  /\ Decide(c, IF reply[c] = "allowed" THEN "admitted" ELSE "denied")
  /\ UNCHANGED <<config, caller, attempt, reply, broken, ghosts, redis>>

\* Redis refuses to run the script (it is out of memory, say), and Allow
\* returns its error.
AllowFails(c) ==
  /\ place[c] = "sent"
  /\ Decide(c, FailOutcome)
  /\ UNCHANGED <<config, caller, attempt, reply, broken, ghosts, redis>>

\* The connection breaks under a command that has run, or that may still run;
\* after the last retry Allow returns the error.
Break(c) ==
  /\ place[c] \in {"sent", "ran"}
  /\ \/ UNCHANGED ghosts
     \/ /\ place[c] = "sent"
        /\ ghosts' = [ghosts EXCEPT ![c] = @ \cup {attempt[c]}]
  /\ broken' = [broken EXCEPT ![c] = @ \cup {attempt[c]}]
  /\ reply' = [reply EXCEPT ![c] = "none"]
  /\ IF attempt[c][2] < MaxRetries
     THEN /\ place' = [place EXCEPT ![c] = "waiting"]
          /\ attempt' = [attempt EXCEPT ![c] = <<@[1], @[2] + 1>>]
          /\ UNCHANGED outcome
     ELSE /\ Decide(c, FailOutcome)
          /\ UNCHANGED attempt
  /\ UNCHANGED <<config, caller, redis>>

\* The client leaves; go-redis notices while the command waits to be sent.
Leave(c) ==
  /\ place[c] = "waiting"
  /\ Decide(c, FailOutcome)
  /\ UNCHANGED <<config, caller, attempt, reply, broken, ghosts, redis>>

-----------------------------------------------------------------------------
Refill(k) ==
  /\ level[k] < Capacity /\ refilled[k] < MaxRefill
  /\ level' = [level EXCEPT ![k] = @ + 1]
  /\ refilled' = [refilled EXCEPT ![k] = @ + 1]
  /\ UNCHANGED <<calls, taken, loaded>>

\* A restart or SCRIPT FLUSH.
ForgetScript ==
  /\ loaded /\ loaded' = FALSE
  /\ UNCHANGED <<calls, level, refilled, taken>>

Next ==
  \/ \E c \in Calls :
       \/ Send(c) \/ Execute(c) \/ GhostExecutes(c) \/ Fallback(c)
       \/ AllowReturns(c) \/ AllowFails(c) \/ Break(c) \/ Leave(c)
  \/ \E k \in Keys : Refill(k)
  \/ ForgetScript

Spec == Init /\ [][Next]_vars

-----------------------------------------------------------------------------
(***************************************************************************)
(* Properties.                                                             *)
(***************************************************************************)
\* The user a call was made for or, without one, the host it came from.
Payer(x) == IF x.user # None THEN <<"user", x.user>> ELSE <<"ip", x.host>>

\* A host is nobody's name once forwarding headers are believed.
Payers ==
  {Payer(x) : x \in {y \in Callers : y.user # None \/ ~config.trustProxy}}

\* However its calls are spread over HTTP, gRPC, connections and retries,
\* no user and no anonymous host has more calls admitted than its one bucket
\* held and was refilled with.
RateKept ==
  \A p \in Payers :
    Cardinality({c \in Calls : Payer(caller[c]) = p /\ outcome[c] = "admitted"})
      <= Capacity + refilled[p]

\* A call is forwarded without a token only if the limiter failed and is
\* configured to fail open.
ForwardedPaid ==
  \A c \in Calls :
    outcome[c] \in {"admitted", "unchecked"} /\ taken[c] = {} =>
      outcome[c] = "unchecked" /\ config.failOpen

\* An admitted call pays exactly once and any other call nothing, but for the
\* attempts whose connection broke.
OnlyBreaksOvercharge ==
  \A c \in Calls :
    /\ outcome[c] = "admitted" => taken[c] \ broken[c] = {attempt[c]}
    /\ outcome[c] \in {"denied", "unchecked", "unavailable"} =>
         taken[c] \subseteq broken[c]

\* The tokens of bucket k that calls hold.
Taken(k) == {t \in Calls \X Attempts : Key(t[1]) = k /\ t[2] \in taken[t[1]]}

\* An attempt of c that comes after a.
Before(a, b) == IF a[1] = b[1] THEN a[2] < b[2] ELSE a[1] = "evalsha"

\* An attempt takes at most one token, and what the answer under way says is
\* what the last one did.
AttemptedOf(c) ==
  /\ ghosts[c] \subseteq broken[c] \ taken[c]
  /\ \A a \in broken[c] :
       Before(a, attempt[c]) \/ (a = attempt[c] /\ place[c] = "over")
  /\ IF \/ place[c] = "ran" /\ reply[c] = "allowed"
        \/ outcome[c] = "admitted"
     THEN taken[c] \ broken[c] = {attempt[c]}
     ELSE taken[c] \subseteq broken[c]
  /\ place[c] # "over" => outcome[c] = "none"
  /\ place[c] \in {"waiting", "sent"} => reply[c] = "none"
  /\ place[c] # "ran" /\ outcome[c] # "admitted" => reply[c] # "allowed"
  /\ reply[c] = "noscript" => attempt[c][1] = "evalsha"
Attempted == \A c \in Calls : AttemptedOf(c)

\* What is left in a bucket and what was taken is what it was given.
Conserved ==
  \A k \in Keys : level[k] + Cardinality(Taken(k)) = Capacity + refilled[k]

\* The strengthening of the three that is inductive.
IInv == TypeOK /\ Attempted /\ Conserved /\ ForwardedPaid

-----------------------------------------------------------------------------
(***************************************************************************)
(* Scripts, fallbacks, retries and late commands implement a ledger: the   *)
(* answer of a call is what its own last command did, it is given once,    *)
(* and "denied" only to a call whose bucket was empty.                     *)
(***************************************************************************)
KeyOf == [c \in Calls |-> Key(c)]
Holders == {c \in Calls : taken[c] \ broken[c] # {}}
Refused == {c \in Calls : reply[c] = "denied"}
Wasted == [c \in Calls |-> taken[c] \cap broken[c]]

Ledger == INSTANCE TokenLedger WITH
  Commands <- Attempts, key <- KeyOf, failOpen <- config.failOpen,
  holds <- Holders, refused <- Refused, lost <- broken, wasted <- Wasted

KeepsLedger == Ledger!Spec
=============================================================================
