----------------------------- MODULE TokenBucket -----------------------------
(***************************************************************************)
(* RedisLimiter: the token bucket script that Redis runs atomically, the   *)
(* hash it keeps per key with its expiry, and the clock of the Redis       *)
(* server, which operators and failovers may set back.                     *)
(*                                                                         *)
(* Time is in milliseconds, as in the script.  The script's fractions of a *)
(* token are counted in units: UnitsPerToken make one token and Rate of    *)
(* them are refilled per millisecond, so refill = 1000*Rate/UnitsPerToken  *)
(* tokens per second.  Lua's floating point rounding is not modelled.      *)
(***************************************************************************)
EXTENDS Integers

CONSTANTS
  Keys,            \* the rate limit keys, hashed by redisKey
  Capacity,        \* RATE_LIMIT_CAPACITY, in tokens
  UnitsPerToken,   \* a call costs one token
  Rate,            \* units refilled per millisecond
  MinTtl,          \* the script's least expiry, 1000 ms
  MsPerSecond,     \* 1000; retry-after counts in seconds
  MaxTime,         \* bound: the clock stops here
  MaxBacks,        \* bound: how often the clock is set back
  MaxLosses        \* bound: how often Redis forgets a key

\* NewRedisLimiter refuses a capacity or a refill that is not positive.
ASSUME LimitsAssumption ==
  /\ Capacity \in Nat \ {0} /\ UnitsPerToken \in Nat \ {0}
  /\ Rate \in Nat \ {0} /\ MinTtl \in Nat /\ MsPerSecond \in Nat \ {0}
  /\ MaxTime \in Nat /\ MaxBacks \in Nat /\ MaxLosses \in Nat

VARIABLES
  now,       \* the Redis server's clock
  stored,    \* keys whose hash is in memory, expired or not
  tokens,    \* of each key: the hash field, in units
  ts,        \* of each key: the hash field
  exp,       \* of each key: set by PEXPIRE
  \* What an observer remembers; no action reads these.
  admitted,  \* of each key: calls allowed
  verdict,   \* of each key: the last answer
  hint,      \* of each key: when the last denied call was told to come back
  advanced,  \* milliseconds the clock went forward in all
  backs,     \* times it was set back
  lost       \* of each key: times Redis forgot it

bucket == <<stored, tokens, ts, exp>>
seen   == <<admitted, verdict, hint>>
vars   == <<now, stored, tokens, ts, exp, admitted, verdict, hint, advanced,
            backs, lost>>

NoHint == -1

-----------------------------------------------------------------------------
(***************************************************************************)
(* The arithmetic of the script.                                           *)
(***************************************************************************)
CeilDiv(a, b) == (a + b - 1) \div b

\* ARGV[1] in units: what a bucket starts with and never exceeds.
Full == Capacity * UnitsPerToken

\* Mutant: half the time a bucket takes to fill.
TtlHalf ==
  LET t == CeilDiv(Full, 2 * Rate) IN IF t >= MinTtl THEN t ELSE MinTtl
\* ttl_ms: twice the time an empty bucket takes to fill.
Ttl ==
  LET t == CeilDiv(2 * Full, Rate) IN IF t >= MinTtl THEN t ELSE MinTtl

\* HMGET finds a key that is in memory and has not expired.
Live(k) == k \in stored /\ now <= exp[k]

\* delta: a clock that went back refills nothing.
Elapsed(k) == IF now >= ts[k] THEN now - ts[k] ELSE 0

\* tokens, as the script knows them before it decides.
Level(k) ==
  IF Live(k)
    THEN LET t == tokens[k] + Elapsed(k) * Rate
         IN  IF t >= Full THEN Full ELSE t
    ELSE Full

\* Mutant: rounded down.
RetryFloor(k) == (UnitsPerToken - Level(k)) \div Rate
\* retry_ms of a call that is denied.
Retry(k) == CeilDiv(UnitsPerToken - Level(k), Rate)

\* Mutant: rounded down, but not to nothing.
RetryAfterFloor(ms) ==
  LET s == ms \div MsPerSecond IN IF s >= 1 THEN s ELSE 1
\* The Retry-After header, or metadata, for a RetryAfter of ms.
RetryAfter(ms) ==
  LET s == CeilDiv(ms, MsPerSecond) IN IF s >= 1 THEN s ELSE 1

-----------------------------------------------------------------------------
(***************************************************************************)
(* Type invariant: a stored bucket is never negative and never above the   *)
(* capacity, whatever the clock did.                                       *)
(***************************************************************************)
TypeOK ==
  /\ now \in Nat /\ advanced \in Nat /\ backs \in Nat
  /\ stored \in SUBSET Keys
  /\ tokens \in [Keys -> 0..Full]
  /\ ts \in [Keys -> Nat] /\ exp \in [Keys -> Nat]
  /\ admitted \in [Keys -> Nat] /\ lost \in [Keys -> Nat]
  /\ verdict \in [Keys -> {"none", "allowed", "denied"}]
  /\ hint \in [Keys -> Nat \cup {NoHint}]

Init ==
  /\ now = 0 /\ stored = {}
  /\ tokens = [k \in Keys |-> 0]
  /\ ts = [k \in Keys |-> 0] /\ exp = [k \in Keys |-> 0]
  /\ admitted = [k \in Keys |-> 0] /\ lost = [k \in Keys |-> 0]
  /\ verdict = [k \in Keys |-> "none"]
  /\ hint = [k \in Keys |-> NoHint]
  /\ advanced = 0 /\ backs = 0

-----------------------------------------------------------------------------
\* Mutant: the timestamp is written with the first call only.
StoreOldTs(k, left) ==
  /\ stored' = stored \cup {k}
  /\ tokens' = [tokens EXCEPT ![k] = left]
  /\ ts' = [ts EXCEPT ![k] = IF Live(k) THEN @ ELSE now]
  /\ exp' = [exp EXCEPT ![k] = now + Ttl]
\* HSET and PEXPIRE: on every call, also one that is denied.
Store(k, left) ==
  /\ stored' = stored \cup {k}
  /\ tokens' = [tokens EXCEPT ![k] = left]
  /\ ts' = [ts EXCEPT ![k] = now]
  /\ exp' = [exp EXCEPT ![k] = now + Ttl]

Admit(k) ==
  /\ Level(k) >= UnitsPerToken
  /\ Store(k, Level(k) - UnitsPerToken)
  /\ admitted' = [admitted EXCEPT ![k] = @ + 1]
  /\ verdict' = [verdict EXCEPT ![k] = "allowed"]
  /\ hint' = [hint EXCEPT ![k] = NoHint]
  /\ UNCHANGED <<now, advanced, backs, lost>>

Deny(k) ==
  /\ Level(k) < UnitsPerToken
  /\ Store(k, Level(k))
  /\ verdict' = [verdict EXCEPT ![k] = "denied"]
  /\ hint' = [hint EXCEPT ![k] = now + Retry(k)]
  /\ UNCHANGED <<now, admitted, advanced, backs, lost>>

Allow(k) == Admit(k) \/ Deny(k)

-----------------------------------------------------------------------------
(***************************************************************************)
(* Redis and its clock.                                                    *)
(***************************************************************************)
Tick ==
  /\ now < MaxTime
  /\ now' = now + 1 /\ advanced' = advanced + 1
  /\ UNCHANGED <<bucket, seen, backs, lost>>

\* Redis removes an expired key at some point after it expired.
Evict(k) ==
  /\ k \in stored /\ now > exp[k]
  /\ stored' = stored \ {k}
  /\ UNCHANGED <<now, tokens, ts, exp, seen, advanced, backs, lost>>

\* A restart without persistence, a flush, an eviction under memory pressure.
Lose(k) ==
  /\ k \in stored /\ lost[k] < MaxLosses
  /\ stored' = stored \ {k}
  /\ lost' = [lost EXCEPT ![k] = @ + 1]
  /\ hint' = [hint EXCEPT ![k] = NoHint]
  /\ UNCHANGED <<now, tokens, ts, exp, admitted, verdict, advanced, backs>>

\* The clock is set back, or a replica with a slower one takes over; what
\* denied callers were told counts on the clock and is void.
ClockBack ==
  /\ backs < MaxBacks /\ backs' = backs + 1
  /\ \E t \in 0..(now - 1) : now' = t
  /\ hint' = [k \in Keys |-> NoHint]
  /\ UNCHANGED <<bucket, admitted, verdict, advanced, lost>>

SteadyNext == Tick \/ \E k \in Keys : Allow(k) \/ Evict(k) \/ Lose(k)
Next == SteadyNext \/ ClockBack

Spec       == Init /\ [][Next]_vars
\* With a clock that never goes back.
SteadySpec == Init /\ [][SteadyNext]_vars

-----------------------------------------------------------------------------
(***************************************************************************)
(* No key gets more than its capacity and what the clock refilled since,   *)
(* and a capacity again each time Redis forgot it: not by letting its key  *)
(* expire, nor by a clock that went back and forth over the same time      *)
(* (then that time counts each time).                                      *)
(***************************************************************************)
RateBound ==
  \A k \in Keys :
    UnitsPerToken * admitted[k] + Level(k)
      <= Full * (1 + lost[k]) + Rate * advanced

(***************************************************************************)
(* A denied caller is told the first millisecond at which a call would be  *)
(* admitted: none earlier is, and that one is, however often it is denied  *)
(* and told again in between.  This is exact of fractions; with the floats *)
(* of Lua the answer may be a millisecond early after repeated denials.    *)
(***************************************************************************)
RetryExact ==
  \A k \in Keys :
    hint[k] # NoHint => (now >= hint[k] <=> Level(k) >= UnitsPerToken)

(***************************************************************************)
(* The whole seconds that the middlewares tell a denied caller are enough, *)
(* and one less is not: a caller that obeys is not denied again, nor kept  *)
(* waiting for a second too long.  (A denied call was made at ts.  Floats  *)
(* apart, as in RetryExact.)                                               *)
(***************************************************************************)
HeaderExact ==
  \A k \in Keys : hint[k] # NoHint =>
    LET seconds == RetryAfter(hint[k] - ts[k]) IN
    /\ now >= ts[k] + seconds * MsPerSecond => Level(k) >= UnitsPerToken
    /\ now <= ts[k] + (seconds - 1) * MsPerSecond => Level(k) < UnitsPerToken

-----------------------------------------------------------------------------
\* An expiry is twice the time to fill after the last call.
ExpiresFull == \A k \in stored : exp[k] = ts[k] + Ttl

\* What a denied caller was told stays true until the key is admitted.
HintHolds ==
  \A k \in Keys : hint[k] # NoHint =>
    /\ ts[k] <= now
    /\ UnitsPerToken > tokens[k]
    /\ hint[k] = ts[k] + CeilDiv(UnitsPerToken - tokens[k], Rate)
    /\ k \notin stored => now > ts[k] + Ttl

\* The inductive invariant.
BucketInv == TypeOK /\ ExpiresFull /\ HintHolds /\ RateBound

\* And with a steady clock: no timestamp is in the future.
Past == \A k \in stored : ts[k] <= now

-----------------------------------------------------------------------------
(***************************************************************************)
(* Refilled lazily from a timestamp and dropped when they expire, the      *)
(* buckets are the textbook ones while the clock is steady.                *)
(***************************************************************************)
Ideal == INSTANCE IdealBucket WITH
  Cost <- UnitsPerToken, level <- [k \in Keys |-> Level(k)]

IsIdeal == Ideal!Spec
=============================================================================
