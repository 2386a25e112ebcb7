-------------------------- MODULE TokenBucketProofs --------------------------
(***************************************************************************)
(* Theorems about TokenBucket for every capacity, refill rate and number   *)
(* of keys, and for a clock that is set back at will.                      *)
(***************************************************************************)
EXTENDS TokenBucket, TLAPS

-----------------------------------------------------------------------------
(***************************************************************************)
(* The script's arithmetic.                                                *)
(***************************************************************************)
\* CeilDiv(a, b) is the least n with n*b >= a.
LEMMA CeilDivLeast ==
  ASSUME NEW a \in Nat, NEW b \in Nat \ {0}
  PROVE  /\ CeilDiv(a, b) \in Nat
         /\ \A n \in Nat : n * b >= a <=> n >= CeilDiv(a, b)
<1> DEFINE q == (a + b - 1) \div b
<1>1. a + b - 1 \in Nat
  OBVIOUS
<1>2. q \in Nat /\ a + b - 1 = b * q + ((a + b - 1) % b)
  BY <1>1, Z3
<1>3. (a + b - 1) % b \in 0..(b - 1)
  BY <1>1, Z3
<1>4. ASSUME NEW n \in Nat, n >= q PROVE n * b >= a
  <2>1. n * b >= q * b
    BY <1>2, <1>4
  <2> QED
    BY <1>2, <1>3, <2>1
<1>5. ASSUME NEW n \in Nat, n < q PROVE ~(n * b >= a)
  <2>1. n * b <= (q - 1) * b
    BY <1>2, <1>5
  <2>2. (q - 1) * b = q * b - b
    BY <1>2
  <2> QED
    BY <1>2, <1>3, <2>1, <2>2
<1> QED
  BY <1>2, <1>4, <1>5 DEF CeilDiv

LEMMA FullType == Full \in Nat /\ Full >= UnitsPerToken /\ Full > 0
BY LimitsAssumption DEF Full

\* A bucket is full again before its key expires.
LEMMA TtlFills == Ttl \in Nat /\ Ttl * Rate >= Full
<1> DEFINE c == CeilDiv(2 * Full, Rate)
<1>1. c \in Nat /\ (c * Rate >= 2 * Full)
  BY FullType, CeilDivLeast, LimitsAssumption
<1>2. Ttl \in Nat /\ Ttl >= c
  BY <1>1, LimitsAssumption DEF Ttl
<1>3. Ttl * Rate >= c * Rate
  BY <1>1, <1>2, LimitsAssumption
<1> HIDE DEF c
<1> QED
  BY <1>1, <1>2, <1>3, FullType, LimitsAssumption

LEMMA LevelType ==
  ASSUME TypeOK, NEW k \in Keys
  PROVE  Elapsed(k) \in Nat /\ Elapsed(k) * Rate \in Nat /\ Level(k) \in 0..Full
<1>1. Elapsed(k) \in Nat
  BY DEF TypeOK, Elapsed
<1>2. Elapsed(k) * Rate \in Nat
  BY <1>1, LimitsAssumption
<1>3. tokens[k] \in 0..Full
  BY DEF TypeOK
<1> QED
  BY <1>1, <1>2, <1>3, FullType DEF Level

LEMMA LevelTypeNext ==
  ASSUME TypeOK', NEW k \in Keys
  PROVE  Level(k)' \in 0..Full
<1>1. Elapsed(k)' \in Nat
  BY DEF TypeOK, Elapsed
<1>2. Elapsed(k)' * Rate \in Nat
  BY <1>1, LimitsAssumption
<1>3. tokens'[k] \in 0..Full
  BY DEF TypeOK
<1> QED
  BY <1>1, <1>2, <1>3, FullType DEF Level

\* What a call left in the bucket is its level at once.
LEMMA LevelStored ==
  ASSUME TypeOK, NEW k \in Keys, NEW left \in 0..Full, Store(k, left), now' = now
  PROVE  Level(k)' = left /\ \A j \in Keys \ {k} : Level(j)' = Level(j)
<1>1. Live(k)' /\ tokens'[k] = left /\ ts'[k] = now
  BY TtlFills DEF Live, Store, TypeOK
<1>2. Elapsed(k)' = 0
  BY <1>1 DEF Elapsed, TypeOK
<1>3. Elapsed(k)' * Rate = 0
  BY <1>2, LimitsAssumption
<1>4. Level(k)' = left
  BY <1>1, <1>3, FullType DEF Level
<1>5. \A j \in Keys \ {k} : Level(j)' = Level(j)
  BY DEF Level, Live, Elapsed, Store, TypeOK
<1> QED
  BY <1>4, <1>5

\* One millisecond adds at most Rate, also when the key expires by it;
\* it adds just that, up to Full, when the timestamp is not in the future.
LEMMA LevelTick ==
  ASSUME TypeOK, ExpiresFull, Tick, NEW k \in Keys
  PROVE  /\ Level(k)' <= Level(k) + Rate
         /\ k \in stored /\ ts[k] <= now
              => Level(k)' = IF Level(k) + Rate >= Full THEN Full
                                                        ELSE Level(k) + Rate
<1> USE LimitsAssumption, FullType, LevelType
<1>0. UNCHANGED bucket /\ now' = now + 1 /\ now \in Nat /\ tokens[k] \in 0..Full
      /\ ts[k] \in Nat
  BY DEF Tick, TypeOK
<1>1. CASE ~Live(k)
  BY <1>0, <1>1 DEF Level, Live, bucket, TypeOK
<1>2. CASE Live(k) /\ Live(k)'
  <2>1. Elapsed(k)' \in {Elapsed(k), Elapsed(k) + 1}
    BY <1>0 DEF Elapsed, bucket
  <2>2. ts[k] <= now => Elapsed(k)' = Elapsed(k) + 1
    BY <1>0 DEF Elapsed, bucket
  <2>3. (Elapsed(k) + 1) * Rate = Elapsed(k) * Rate + Rate
    BY DEF TypeOK
  <2>4. tokens'[k] = tokens[k]
    BY <1>0 DEF bucket
  <2> DEFINE e == Elapsed(k) * Rate
             f == Elapsed(k)' * Rate
  <2>5. e \in Nat /\ f \in {e, e + Rate} /\ (ts[k] <= now => f = e + Rate)
    BY <2>1, <2>2, <2>3
  <2>6. Level(k) = IF tokens[k] + e >= Full THEN Full ELSE tokens[k] + e
    BY <1>2 DEF Level
  <2>7. Level(k)' = IF tokens[k] + f >= Full THEN Full ELSE tokens[k] + f
    BY <1>2, <2>4 DEF Level
  <2> HIDE DEF e, f
  <2>8. tokens[k] \in Nat /\ Full \in Nat /\ Rate \in Nat
    BY <1>0
  <2>9. CASE f = e
    BY <2>5, <2>6, <2>7, <2>8, <2>9
  <2>10. CASE f = e + Rate
    BY <2>5, <2>6, <2>7, <2>8, <2>10
  <2> QED
    BY <2>5, <2>9, <2>10
<1>3. CASE Live(k) /\ ~Live(k)'
  <2>1. Level(k)' = Full
    BY <1>3 DEF Level
  <2>2. k \in stored /\ now = ts[k] + Ttl
    <3>1. k \in stored /\ now <= exp[k] /\ now + 1 > exp[k]
      BY <1>0, <1>3 DEF Live, bucket, TypeOK
    <3>2. exp[k] \in Nat /\ exp[k] = ts[k] + Ttl
      BY <3>1 DEF ExpiresFull, TypeOK
    <3> QED
      BY <1>0, <3>1, <3>2, TtlFills
  <2>3. Elapsed(k) = Ttl
    BY <1>0, <2>2, TtlFills DEF Elapsed
  <2>4. tokens[k] + Elapsed(k) * Rate >= Full
    BY <1>0, <2>3, TtlFills
  <2>5. Level(k) = Full
    BY <1>3, <2>4 DEF Level
  <2> QED
    BY <2>1, <2>5
<1> QED
  BY <1>1, <1>2, <1>3

-----------------------------------------------------------------------------
(***************************************************************************)
(* The inductive invariant.                                                *)
(***************************************************************************)
LEMMA InitInv == Init => BucketInv
<1> SUFFICES ASSUME Init PROVE BucketInv
  OBVIOUS
<1> USE LimitsAssumption, FullType
<1>1. TypeOK
  BY DEF Init, TypeOK, NoHint
<1>2. ExpiresFull /\ HintHolds
  BY DEF Init, ExpiresFull, HintHolds
<1>3. RateBound
  <2> SUFFICES ASSUME NEW k \in Keys
               PROVE  UnitsPerToken * admitted[k] + Level(k)
                        <= Full * (1 + lost[k]) + Rate * advanced
    BY DEF RateBound
  <2>1. Level(k) = Full /\ admitted[k] = 0 /\ lost[k] = 0 /\ advanced = 0
    BY DEF Init, Level, Live
  <2> QED
    BY <2>1
<1> QED
  BY <1>1, <1>2, <1>3 DEF BucketInv

\* A call keeps the invariant.
LEMMA AllowInv == ASSUME BucketInv, NEW k \in Keys, Allow(k) PROVE BucketInv'
<1> USE LimitsAssumption, FullType, TtlFills DEF BucketInv
<1>1. Level(k) \in 0..Full /\ now \in Nat /\ advanced \in Nat
  BY LevelType DEF TypeOK
<1>2. CASE Admit(k)
  <2> DEFINE left == Level(k) - UnitsPerToken
  <2>1. left \in 0..Full /\ Store(k, left) /\ now' = now
    BY <1>1, <1>2 DEF Admit
  <2>2. TypeOK'
    BY <1>2, <2>1 DEF Admit, Store, TypeOK, NoHint
  <2>3. ExpiresFull'
    BY <2>1 DEF Store, ExpiresFull, TypeOK
  <2>4. HintHolds'
    BY <1>2, <2>1 DEF Admit, Store, HintHolds, TypeOK
  <2>5. RateBound'
    <3>1. Level(k)' = left /\ \A j \in Keys \ {k} : Level(j)' = Level(j)
      BY <2>1, LevelStored
    <3>2. /\ admitted'[k] = admitted[k] + 1 /\ admitted[k] \in Nat
          /\ \A j \in Keys \ {k} : admitted'[j] = admitted[j]
          /\ UNCHANGED <<lost, advanced>>
      BY <1>2 DEF Admit, TypeOK
    <3>3. UnitsPerToken * (admitted[k] + 1)
            = UnitsPerToken * admitted[k] + UnitsPerToken
      BY <3>2
    <3> SUFFICES ASSUME NEW j \in Keys
                 PROVE  (UnitsPerToken * admitted[j] + Level(j)
                           <= Full * (1 + lost[j]) + Rate * advanced)'
      BY DEF RateBound
    <3>4. UnitsPerToken * admitted[j] + Level(j)
            <= Full * (1 + lost[j]) + Rate * advanced
      BY DEF RateBound
    <3>5. UnitsPerToken * admitted'[j] + Level(j)'
            = UnitsPerToken * admitted[j] + Level(j)
      <4>1. UnitsPerToken * admitted[k] \in Nat
        BY <3>2
      <4> QED
        BY <1>1, <3>1, <3>2, <3>3, <4>1
    <3> QED
      BY <3>2, <3>4, <3>5
  <2> QED
    BY <2>2, <2>3, <2>4, <2>5
<1>3. CASE Deny(k)
  <2>1. Store(k, Level(k)) /\ now' = now /\ Level(k) < UnitsPerToken
    BY <1>3 DEF Deny
  <2>2. Retry(k) \in Nat
    <3>1. UnitsPerToken - Level(k) \in Nat
      BY <1>1, <2>1
    <3> QED
      BY <3>1, CeilDivLeast DEF Retry
  <2>3. TypeOK'
    BY <1>1, <1>3, <2>1, <2>2 DEF Deny, Store, TypeOK
  <2>4. ExpiresFull'
    BY <2>1 DEF Store, ExpiresFull, TypeOK
  <2>5. HintHolds'
    <3> SUFFICES ASSUME NEW j \in Keys, hint'[j] # NoHint
                 PROVE  /\ ts'[j] <= now
                        /\ UnitsPerToken > tokens'[j]
                        /\ hint'[j] = ts'[j]
                              + CeilDiv(UnitsPerToken - tokens'[j], Rate)
                        /\ j \notin stored' => now > ts'[j] + Ttl
      BY <2>1 DEF HintHolds
    <3>1. CASE j = k
      BY <1>1, <1>3, <2>1, <3>1 DEF Deny, Store, Retry, TypeOK
    <3>2. CASE j # k
      BY <1>3, <2>1, <3>2 DEF Deny, Store, HintHolds, TypeOK
    <3> QED
      BY <3>1, <3>2
  <2>6. RateBound'
    <3>1. \A j \in Keys : Level(j)' = Level(j)
      BY <1>1, <2>1, LevelStored
    <3> QED
      BY <1>3, <3>1 DEF Deny, RateBound
  <2> QED
    BY <2>3, <2>4, <2>5, <2>6
<1> QED
  BY <1>2, <1>3 DEF Allow

\* A millisecond keeps the invariant.
LEMMA TickInv == ASSUME BucketInv, Tick PROVE BucketInv'
<1> USE LimitsAssumption, FullType, TtlFills DEF BucketInv
<1>1. TypeOK'
  BY DEF Tick, TypeOK, bucket, seen
<1>2. ExpiresFull'
  BY DEF Tick, ExpiresFull, bucket
<1>3. HintHolds'
  BY DEF Tick, HintHolds, bucket, seen, TypeOK
<1>4. RateBound'
  <2> SUFFICES ASSUME NEW k \in Keys
               PROVE  (UnitsPerToken * admitted[k] + Level(k)
                         <= Full * (1 + lost[k]) + Rate * advanced)'
    BY DEF RateBound
  <2>1. UnitsPerToken * admitted[k] + Level(k)
          <= Full * (1 + lost[k]) + Rate * advanced
    BY DEF RateBound
  <2>2. Level(k)' <= Level(k) + Rate /\ Level(k) \in Nat /\ Level(k)' \in Nat
    BY <1>1, LevelTick, LevelType, LevelTypeNext
  <2>3. Rate * (advanced + 1) = Rate * advanced + Rate
    BY DEF TypeOK
  <2>4. UnitsPerToken * admitted[k] \in Nat /\ Full * (1 + lost[k]) \in Nat
        /\ Rate * advanced \in Nat
    BY DEF TypeOK
  <2>5. UNCHANGED <<admitted, lost>> /\ advanced' = advanced + 1
    BY DEF Tick, seen
  <2> QED
    BY <2>1, <2>2, <2>3, <2>4, <2>5
<1> QED
  BY <1>1, <1>2, <1>3, <1>4

\* A key that is gone is full.
LEMMA GoneIsFull ==
  ASSUME NEW k \in Keys, stored' = stored \ {k},
         UNCHANGED <<now, tokens, ts, exp>>
  PROVE  Level(k)' = Full /\ \A j \in Keys \ {k} : Level(j)' = Level(j)
BY DEF Level, Live, Elapsed

\* Removing an expired key changes nothing.
LEMMA EvictInv == ASSUME BucketInv, NEW k \in Keys, Evict(k)
                  PROVE  BucketInv' /\ \A j \in Keys : Level(j)' = Level(j)
<1> USE LimitsAssumption DEF BucketInv
<1>1. TypeOK' /\ ExpiresFull'
  BY DEF Evict, TypeOK, ExpiresFull, seen
<1>2. HintHolds'
  BY DEF Evict, HintHolds, ExpiresFull, seen
<1>3. \A j \in Keys : Level(j)' = Level(j)
  <2>1. Level(k) = Full
    BY DEF Evict, Level, Live, TypeOK
  <2> QED
    BY <2>1, GoneIsFull DEF Evict
<1>4. RateBound'
  BY <1>3 DEF Evict, RateBound, seen
<1> QED
  BY <1>1, <1>2, <1>3, <1>4

\* Forgetting a key gives it a full bucket, which is counted.
LEMMA LoseInv == ASSUME BucketInv, NEW k \in Keys, Lose(k)
                 PROVE  BucketInv' /\ Level(k)' = Full
                        /\ \A j \in Keys \ {k} : Level(j)' = Level(j)
<1> USE LimitsAssumption, FullType DEF BucketInv
<1>1. TypeOK' /\ ExpiresFull'
  BY DEF Lose, TypeOK, ExpiresFull, NoHint
<1>2. HintHolds'
  BY DEF Lose, HintHolds, TypeOK
<1>3. Level(k)' = Full /\ \A j \in Keys \ {k} : Level(j)' = Level(j)
  BY GoneIsFull DEF Lose
<1>4. RateBound'
  <2> SUFFICES ASSUME NEW j \in Keys
               PROVE  (UnitsPerToken * admitted[j] + Level(j)
                         <= Full * (1 + lost[j]) + Rate * advanced)'
    BY DEF RateBound
  <2>1. UnitsPerToken * admitted[j] + Level(j)
          <= Full * (1 + lost[j]) + Rate * advanced
    BY DEF RateBound
  <2>2. CASE j # k
    BY <1>3, <2>1, <2>2 DEF Lose, TypeOK
  <2>3. CASE j = k
    <3>1. lost'[k] = lost[k] + 1 /\ lost[k] \in Nat /\ UNCHANGED <<admitted, advanced>>
      BY DEF Lose, TypeOK
    <3>2. Full * (1 + (lost[k] + 1)) = Full * (1 + lost[k]) + Full
      BY <3>1
    <3>3. UnitsPerToken * admitted[k] \in Nat /\ Full * (1 + lost[k]) \in Nat
          /\ Rate * advanced \in Nat /\ Level(k) \in Nat
      BY <3>1, LevelType DEF TypeOK
    <3> QED
      BY <1>3, <2>1, <2>3, <3>1, <3>2, <3>3
  <2> QED
    BY <2>2, <2>3
<1> QED
  BY <1>1, <1>2, <1>3, <1>4

\* A clock that goes back takes a refill back, never gives one.
LEMMA BackInv == ASSUME BucketInv, ClockBack PROVE BucketInv'
<1> USE LimitsAssumption, FullType, TtlFills DEF BucketInv
<1>1. now' \in Nat /\ now' < now /\ UNCHANGED bucket
      /\ UNCHANGED <<admitted, lost, advanced>>
  BY DEF ClockBack, TypeOK
<1>2. TypeOK'
  BY <1>1 DEF ClockBack, TypeOK, bucket, NoHint
<1>3. ExpiresFull' /\ HintHolds'
  BY <1>1 DEF ClockBack, ExpiresFull, HintHolds, bucket
<1>4. ASSUME NEW k \in Keys PROVE Level(k)' <= Level(k) /\ Level(k)' \in Nat
  <2>1. Level(k)' \in 0..Full
    BY <1>2, LevelTypeNext
  <2>2. CASE ~Live(k)
    BY <2>1, <2>2 DEF Level
  <2>3. CASE Live(k)
    <3>1. Live(k)'
      BY <1>1, <2>3 DEF Live, bucket, TypeOK
    <3>2. Elapsed(k) \in Nat /\ Elapsed(k)' \in Nat /\ Elapsed(k)' <= Elapsed(k)
      BY <1>1 DEF Elapsed, bucket, TypeOK
    <3>3. Elapsed(k)' * Rate <= Elapsed(k) * Rate
      BY <3>2
    <3>4. tokens[k] \in Nat /\ tokens'[k] = tokens[k]
          /\ Elapsed(k) * Rate \in Nat /\ Elapsed(k)' * Rate \in Nat
      BY <1>1, <3>2 DEF bucket, TypeOK
    <3> QED
      BY <2>1, <2>3, <3>1, <3>3, <3>4 DEF Level
  <2> QED
    BY <2>1, <2>2, <2>3
<1>5. RateBound'
  <2> SUFFICES ASSUME NEW k \in Keys
               PROVE  (UnitsPerToken * admitted[k] + Level(k)
                         <= Full * (1 + lost[k]) + Rate * advanced)'
    BY DEF RateBound
  <2>1. UnitsPerToken * admitted[k] + Level(k)
          <= Full * (1 + lost[k]) + Rate * advanced
    BY DEF RateBound
  <2>2. UnitsPerToken * admitted[k] \in Nat /\ Full * (1 + lost[k]) \in Nat
        /\ Rate * advanced \in Nat /\ Level(k) \in Nat
    BY LevelType DEF TypeOK
  <2> QED
    BY <1>1, <1>4, <2>1, <2>2
<1> QED
  BY <1>2, <1>3, <1>5

LEMMA StepInv == BucketInv /\ [Next]_vars => BucketInv'
<1> SUFFICES ASSUME BucketInv, [Next]_vars PROVE BucketInv'
  OBVIOUS
<1>1. CASE Tick
  BY <1>1, TickInv
<1>2. ASSUME NEW k \in Keys, Allow(k) PROVE BucketInv'
  BY <1>2, AllowInv
<1>3. ASSUME NEW k \in Keys, Evict(k) PROVE BucketInv'
  BY <1>3, EvictInv
<1>4. ASSUME NEW k \in Keys, Lose(k) PROVE BucketInv'
  BY <1>4, LoseInv
<1>5. CASE ClockBack
  BY <1>5, BackInv
<1>6. CASE UNCHANGED vars
  BY <1>6 DEF vars, BucketInv, TypeOK, ExpiresFull, HintHolds, RateBound, Level,
              Live, Elapsed
<1> QED
  BY <1>1, <1>2, <1>3, <1>4, <1>5, <1>6 DEF Next, SteadyNext

\* The inductive invariant holds in every state: an expired bucket would be
\* full anyway, and a denied caller's hint still stands.
THEOREM Invariant == Spec => []BucketInv
<1> QED
  BY InitInv, StepInv, PTL DEF Spec

-----------------------------------------------------------------------------
(***************************************************************************)
(* A stored bucket stays between empty and full, whatever the clock does.  *)
(***************************************************************************)
THEOREM TypeCorrect == Spec => []TypeOK
<1>1. BucketInv => TypeOK
  BY DEF BucketInv
<1> QED
  BY Invariant, <1>1, PTL

(***************************************************************************)
(* No key is ever admitted more than its capacity (once more after each    *)
(* loss) and what the clock refilled while it ran.                         *)
(***************************************************************************)
THEOREM NeverOverRate == Spec => []RateBound
<1>1. BucketInv => RateBound
  BY DEF BucketInv
<1> QED
  BY Invariant, <1>1, PTL

\* A hint is right because it counts from the timestamp it was stored with.
LEMMA HintMeansRetry == BucketInv => RetryExact
<1> USE LimitsAssumption, FullType, TtlFills
<1> SUFFICES ASSUME BucketInv, NEW k \in Keys, hint[k] # NoHint
             PROVE  now >= hint[k] <=> Level(k) >= UnitsPerToken
  BY DEF RetryExact
<1> DEFINE need == UnitsPerToken - tokens[k]
<1>1. /\ TypeOK /\ tokens[k] \in 0..Full /\ now \in Nat /\ ts[k] \in Nat
      /\ ts[k] <= now /\ need \in Nat /\ need <= Full
      /\ hint[k] = ts[k] + CeilDiv(need, Rate)
      /\ k \notin stored => now > ts[k] + Ttl
  BY DEF BucketInv, HintHolds, TypeOK
<1>2. /\ CeilDiv(need, Rate) \in Nat
      /\ \A n \in Nat : n * Rate >= need <=> n >= CeilDiv(need, Rate)
  BY <1>1, CeilDivLeast
<1>3. CASE Live(k)
  <2>1. Elapsed(k) = now - ts[k] /\ Elapsed(k) \in Nat
    BY <1>1 DEF Elapsed
  <2>2. Elapsed(k) * Rate >= need <=> Elapsed(k) >= CeilDiv(need, Rate)
    BY <1>2, <2>1
  <2>3. now >= hint[k] <=> Elapsed(k) >= CeilDiv(need, Rate)
    BY <1>1, <1>2, <2>1
  <2>4. Level(k) >= UnitsPerToken <=> tokens[k] + Elapsed(k) * Rate >= UnitsPerToken
    BY <1>1, <1>3, <2>1 DEF Level
  <2>5. Elapsed(k) * Rate \in Nat
    BY <2>1
  <2> QED
    BY <1>1, <2>2, <2>3, <2>4, <2>5
<1>4. CASE ~Live(k)
  <2>1. now > ts[k] + Ttl
    BY <1>1, <1>4 DEF Live, BucketInv, ExpiresFull
  <2>2. Ttl >= CeilDiv(need, Rate)
    BY <1>1, <1>2
  <2>3. Level(k) = Full
    BY <1>4 DEF Level
  <2> QED
    BY <1>1, <1>2, <2>1, <2>2, <2>3
<1> QED
  BY <1>3, <1>4

(***************************************************************************)
(* Every denied caller is told the first millisecond at which a call is    *)
(* admitted again.                                                         *)
(***************************************************************************)
THEOREM HintIsExact == Spec => []RetryExact
<1> QED
  BY Invariant, HintMeansRetry, PTL

\* The hint lies in the last of the seconds that the header tells.
LEMMA HeaderMeansHint == BucketInv => HeaderExact
<1> USE LimitsAssumption, FullType
<1> SUFFICES ASSUME BucketInv, NEW k \in Keys, hint[k] # NoHint
             PROVE  LET seconds == RetryAfter(hint[k] - ts[k]) IN
                    /\ now >= ts[k] + seconds * MsPerSecond => Level(k) >= UnitsPerToken
                    /\ now <= ts[k] + (seconds - 1) * MsPerSecond => Level(k) < UnitsPerToken
  BY DEF HeaderExact
<1> DEFINE need == UnitsPerToken - tokens[k]
           wait == CeilDiv(need, Rate)
           s    == CeilDiv(wait, MsPerSecond)
<1>1. /\ need \in Nat \ {0} /\ now \in Nat /\ ts[k] \in Nat
      /\ hint[k] = ts[k] + wait
  BY DEF BucketInv, TypeOK, HintHolds
<1>2. wait \in Nat /\ \A n \in Nat : n * Rate >= need <=> n >= wait
  BY <1>1, CeilDivLeast
<1>3. wait >= 1
  <2>1. ~(0 * Rate >= need)
    BY <1>1
  <2> QED
    BY <1>2, <2>1
<1> HIDE DEF need, wait
<1>4. s \in Nat /\ \A n \in Nat : n * MsPerSecond >= wait <=> n >= s
  BY <1>2, CeilDivLeast
<1> HIDE DEF s
<1>5. s * MsPerSecond >= wait
  BY <1>4
<1>6. s >= 1
  <2>1. 0 * MsPerSecond = 0 /\ ~(0 >= wait)
    BY <1>2, <1>3
  <2> QED
    BY <1>4, <2>1
<1>7. (s - 1) * MsPerSecond < wait
  <2>1. s - 1 \in Nat /\ ~(s - 1 >= s)
    BY <1>4, <1>6
  <2>2. ~((s - 1) * MsPerSecond >= wait)
    BY <1>4, <2>1
  <2>3. (s - 1) * MsPerSecond \in Nat
    BY <2>1
  <2> QED
    BY <1>2, <2>2, <2>3
<1>8. RetryAfter(hint[k] - ts[k]) = s
  <2>1. hint[k] - ts[k] = wait
    BY <1>1, <1>2
  <2> QED
    BY <1>6, <2>1 DEF RetryAfter, s
<1>9. now >= hint[k] <=> Level(k) >= UnitsPerToken
  BY HintMeansRetry DEF RetryExact
<1>10. Level(k) \in Int
  BY DEF Level, Elapsed, BucketInv, TypeOK
<1>11. s * MsPerSecond \in Nat /\ (s - 1) * MsPerSecond \in Int
  BY <1>4
<1>12. now >= ts[k] + s * MsPerSecond => Level(k) >= UnitsPerToken
  BY <1>1, <1>2, <1>5, <1>9, <1>11
<1>13. now <= ts[k] + (s - 1) * MsPerSecond => ~(Level(k) >= UnitsPerToken)
  BY <1>1, <1>2, <1>7, <1>9, <1>11
<1> QED
  BY <1>8, <1>10, <1>12, <1>13

\* A caller that waits for the seconds it is told is not denied for nothing.
THEOREM HeaderIsExact == Spec => []HeaderExact
<1> QED
  BY Invariant, HeaderMeansHint, PTL

-----------------------------------------------------------------------------
(***************************************************************************)
(* With a steady clock the buckets are the textbook ones.                  *)
(***************************************************************************)
LEMMA SteadyStepInv == BucketInv /\ Past /\ [SteadyNext]_vars => (BucketInv /\ Past)'
<1> SUFFICES ASSUME BucketInv, Past, [SteadyNext]_vars PROVE (BucketInv /\ Past)'
  OBVIOUS
<1>1. BucketInv'
  BY StepInv DEF Next
<1>2. CASE Tick
  BY <1>1, <1>2 DEF Tick, Past, bucket, BucketInv, TypeOK
<1>3. ASSUME NEW k \in Keys, Admit(k) \/ Deny(k) PROVE Past'
  BY <1>3 DEF Admit, Deny, Store, Past, BucketInv, TypeOK
<1>4. ASSUME NEW k \in Keys, Evict(k) \/ Lose(k) PROVE Past'
  BY <1>4 DEF Evict, Lose, Past
<1>5. CASE UNCHANGED vars
  BY <1>1, <1>5 DEF vars, Past
<1> QED
  BY <1>1, <1>2, <1>3, <1>4, <1>5 DEF SteadyNext, Allow

LEMMA IdealInit == Init => Ideal!Init
BY DEF Init, Ideal!Init, Level, Live

LEMMA IdealStep == BucketInv /\ Past /\ [SteadyNext]_vars => [Ideal!Next]_(Ideal!vars)
<1> SUFFICES ASSUME BucketInv, Past, [SteadyNext]_vars
             PROVE  [Ideal!Next]_(Ideal!vars)
  OBVIOUS
<1> USE LimitsAssumption, FullType, TtlFills DEF BucketInv
<1>1. CASE Tick
  <2>1. ASSUME NEW k \in Keys
        PROVE  Level(k)' = IF Level(k) + Rate >= Full THEN Full ELSE Level(k) + Rate
    <3>1. CASE k \in stored
      BY <1>1, <3>1, LevelTick DEF Past
    <3>2. CASE k \notin stored
      BY <1>1, <3>2 DEF Tick, bucket, Level, Live
    <3> QED
      BY <3>1, <3>2
  <2> QED
    BY <1>1, <2>1 DEF Tick, seen, Ideal!Next, Ideal!Tick
<1>2. ASSUME NEW k \in Keys, Admit(k) PROVE Ideal!Admit(k)
  <2>1. Level(k) \in 0..Full /\ Level(k) >= UnitsPerToken
    BY <1>2, LevelType DEF Admit
  <2>2. /\ Level(k)' = Level(k) - UnitsPerToken
        /\ \A j \in Keys \ {k} : Level(j)' = Level(j)
    BY <1>2, <2>1, LevelStored DEF Admit
  <2> QED
    BY <1>2, <2>1, <2>2 DEF Admit, Ideal!Admit
<1>3. ASSUME NEW k \in Keys, Deny(k) PROVE Ideal!Deny(k)
  <2>1. Level(k) \in 0..Full /\ Level(k) < UnitsPerToken
    BY <1>3, LevelType DEF Deny
  <2>2. \A j \in Keys : Level(j)' = Level(j)
    BY <1>3, <2>1, LevelStored DEF Deny
  <2> QED
    BY <1>3, <2>1, <2>2 DEF Deny, Ideal!Deny
<1>4. ASSUME NEW k \in Keys, Evict(k) PROVE UNCHANGED Ideal!vars
  BY <1>4, EvictInv DEF Evict, seen, Ideal!vars
<1>5. ASSUME NEW k \in Keys, Lose(k) PROVE Ideal!Forget(k)
  BY <1>5, LoseInv DEF Lose, Ideal!Forget
<1>6. CASE UNCHANGED vars
  BY <1>6 DEF vars, Ideal!vars, Level, Live, Elapsed
<1> QED
  BY <1>1, <1>2, <1>3, <1>4, <1>5, <1>6
  DEF SteadyNext, Allow, Ideal!Next

(***************************************************************************)
(* The lazily refilled, expiring buckets of the script implement eager     *)
(* buckets that never expire, answer by answer, while the clock is steady. *)
(***************************************************************************)
THEOREM ImplementsIdeal == SteadySpec => IsIdeal
<1>1. Init => BucketInv /\ Past
  BY InitInv DEF Init, Past
<1> QED
  BY <1>1, SteadyStepInv, IdealInit, IdealStep, PTL
  DEF SteadySpec, IsIdeal, Ideal!Spec
=============================================================================
