--------------------------- MODULE RateLimitProofs ---------------------------
(***************************************************************************)
(* Proofs about RateLimit, for any calls, callers, settings, capacity and  *)
(* number of retries.                                                      *)
(*                                                                         *)
(* A token that left a bucket is held by exactly one attempt of one call   *)
(* (Conserved), an attempt runs at most once (Attempted), and an admitted  *)
(* call holds a token of its own bucket.  So the admitted calls of a payer *)
(* are no more than the tokens its bucket has given.                       *)
(***************************************************************************)
EXTENDS RateLimit, FiniteSetTheorems, TLAPS

LEMMA TypeInit == Init => TypeOK
  <1> SUFFICES ASSUME Init PROVE TypeOK
    OBVIOUS
  <1>1. <<"evalsha", 0>> \in Attempts
    BY RateLimitAssumption DEF Attempts
  <1>2. 0 \in 0..MaxRefill /\ Capacity \in 0..Capacity
    BY RateLimitAssumption
  <1>3. QED
    BY <1>1, <1>2 DEF Init, TypeOK

\* Every call is charged to a bucket.
LEMMA KeyType ==
  ASSUME TypeOK, NEW c \in Calls
  PROVE  Key(c) \in Keys
  BY DEF TypeOK, Key, Keys

\* One run of an attempt keeps the buckets' types.
LEMMA TakeType ==
  ASSUME TypeOK, NEW c \in Calls, NEW a \in Attempts, Take(c, a)
  PROVE  /\ level' \in [Keys -> 0..Capacity]
         /\ taken' \in [Calls -> SUBSET Attempts]
         /\ loaded' \in BOOLEAN
         /\ refilled' = refilled
  <1>1. Key(c) \in Keys
    BY KeyType
  <1>2. level[Key(c)] \in 0..Capacity
    BY <1>1 DEF TypeOK
  <1>3. loaded' \in BOOLEAN
    BY DEF Take, TypeOK
  <1>4. CASE (loaded \/ a[1] = "eval") /\ level[Key(c)] >= 1
    <2>1. level' = [level EXCEPT ![Key(c)] = @ - 1]
      BY <1>4 DEF Take
    <2>2. level[Key(c)] - 1 \in 0..Capacity
      BY <1>2, <1>4, RateLimitAssumption
    <2>3. taken' = [taken EXCEPT ![c] = @ \cup {a}]
      BY <1>4 DEF Take
    <2>4. QED
      BY <1>3, <2>1, <2>2, <2>3 DEF Take, TypeOK
  <1>5. CASE ~((loaded \/ a[1] = "eval") /\ level[Key(c)] >= 1)
    BY <1>3, <1>5 DEF Take, TypeOK
  <1>6. QED
    BY <1>4, <1>5

LEMMA TypeNext == TypeOK /\ [Next]_vars => TypeOK'
  <1> SUFFICES ASSUME TypeOK, [Next]_vars PROVE TypeOK'
    OBVIOUS
  <1> USE DEF calls, redis
  <1>1. Keys' = Keys
    <2>1. config' = config
      BY DEF Next, vars, Send, Execute, GhostExecutes, Fallback, AllowReturns,
             AllowFails, Break, Leave, Refill, ForgetScript
    <2>2. QED
      BY <2>1 DEF Keys, HttpKey, GrpcKey, ClientIP
  <1>2. ASSUME NEW c \in Calls, Send(c) PROVE TypeOK'
    BY <1>1, <1>2 DEF Send, TypeOK
  <1>3. ASSUME NEW c \in Calls, Execute(c) PROVE TypeOK'
    <2>1. attempt[c] \in Attempts
      BY DEF TypeOK
    <2>2. Take(c, attempt[c])
      BY <1>3 DEF Execute
    <2>3. Answer(c, attempt[c]) \in {"none", "allowed", "denied", "noscript"}
      BY DEF Answer
    <2>4. QED
      BY <1>1, <1>3, <2>1, <2>2, <2>3, TakeType DEF Execute, TypeOK
  <1>4. ASSUME NEW c \in Calls, GhostExecutes(c) PROVE TypeOK'
    <2>1. PICK g \in ghosts[c] : Take(c, g) /\ ghosts' = [ghosts EXCEPT ![c] = @ \ {g}]
      BY <1>4 DEF GhostExecutes
    <2>2. g \in Attempts
      BY DEF TypeOK
    <2>3. QED
      BY <1>1, <1>4, <2>1, <2>2, TakeType DEF GhostExecutes, TypeOK
  <1>5. ASSUME NEW c \in Calls, Fallback(c) PROVE TypeOK'
    <2>1. <<"eval", 0>> \in Attempts
      BY RateLimitAssumption DEF Attempts
    <2>2. QED
      BY <1>1, <1>5, <2>1 DEF Fallback, TypeOK
  <1>6. ASSUME NEW c \in Calls, AllowReturns(c) PROVE TypeOK'
    BY <1>1, <1>6 DEF AllowReturns, Decide, TypeOK
  <1>7. ASSUME NEW c \in Calls, AllowFails(c) PROVE TypeOK'
    BY <1>1, <1>7 DEF AllowFails, Decide, FailOutcome, TypeOK
  <1>8. ASSUME NEW c \in Calls, Break(c) PROVE TypeOK'
    <2>1. attempt[c] \in Attempts
      BY DEF TypeOK
    <2>2. ghosts' \in [Calls -> SUBSET Attempts]
      BY <1>8, <2>1 DEF Break, TypeOK
    <2>3. broken' \in [Calls -> SUBSET Attempts]
      BY <1>8, <2>1 DEF Break, TypeOK
    <2>4. CASE attempt[c][2] < MaxRetries
      <3>1. <<attempt[c][1], attempt[c][2] + 1>> \in Attempts
        BY <2>1, <2>4, RateLimitAssumption DEF Attempts
      <3>2. attempt' = [attempt EXCEPT ![c] = <<attempt[c][1], attempt[c][2] + 1>>]
        BY <1>8, <2>4 DEF Break
      <3>3. attempt' \in [Calls -> Attempts]
        BY <3>1, <3>2 DEF TypeOK
      <3>4. QED
        BY <1>1, <1>8, <2>2, <2>3, <2>4, <3>3 DEF Break, TypeOK
    <2>5. CASE ~(attempt[c][2] < MaxRetries)
      BY <1>1, <1>8, <2>2, <2>3, <2>5 DEF Break, Decide, FailOutcome, TypeOK
    <2>6. QED
      BY <2>4, <2>5
  <1>9. ASSUME NEW c \in Calls, Leave(c) PROVE TypeOK'
    BY <1>1, <1>9 DEF Leave, Decide, FailOutcome, TypeOK
  <1>10. ASSUME NEW k \in Keys, Refill(k) PROVE TypeOK'
    <2>1. level[k] + 1 \in 0..Capacity /\ refilled[k] + 1 \in 0..MaxRefill
      BY <1>10, RateLimitAssumption DEF Refill, TypeOK
    <2>2. QED
      BY <1>1, <1>10, <2>1 DEF Refill, TypeOK
  <1>11. CASE ForgetScript
    BY <1>1, <1>11 DEF ForgetScript, TypeOK
  <1>12. CASE UNCHANGED vars
    BY <1>1, <1>12 DEF vars, TypeOK
  <1>13. QED
    BY <1>2, <1>3, <1>4, <1>5, <1>6, <1>7, <1>8, <1>9, <1>10, <1>11, <1>12 DEF Next

\* The types: above all, a bucket is never overdrawn nor overfilled, and the
\* attempts are bounded.
THEOREM TypeCorrect == Spec => []TypeOK
  BY TypeInit, TypeNext, PTL DEF Spec

-----------------------------------------------------------------------------
(***************************************************************************)
(* An attempt takes at most one token.                                     *)
(***************************************************************************)
LEMMA AttemptsFinite == IsFiniteSet(Calls \X Attempts)
  <1>1. IsFiniteSet(0..MaxRetries)
    BY FS_Interval, RateLimitAssumption
  <1>2. IsFiniteSet({"evalsha", "eval"})
    <2>1. {"evalsha", "eval"} = {"evalsha"} \cup {"eval"}
      OBVIOUS
    <2>2. IsFiniteSet({"evalsha"})
      BY FS_Singleton
    <2>3. QED
      BY <2>1, <2>2, FS_AddElement
  <1>3. IsFiniteSet(Attempts)
    BY <1>1, <1>2, FS_Product DEF Attempts
  <1>4. QED
    BY <1>3, FS_Product, RateLimitAssumption

\* A call's part of the invariant depends on that call's variables only.
LEMMA Frame ==
  ASSUME NEW d \in Calls, AttemptedOf(d),
         ghosts'[d] = ghosts[d], broken'[d] = broken[d],
         taken'[d] = taken[d], attempt'[d] = attempt[d],
         place'[d] = place[d], outcome'[d] = outcome[d], reply'[d] = reply[d]
  PROVE  AttemptedOf(d)'
  BY DEF AttemptedOf, Before

\* An attempt under way has not been broken, and it has not taken a token
\* before it has run.
LEMMA UnderWay ==
  ASSUME TypeOK, NEW c \in Calls, AttemptedOf(c), place[c] # "over"
  PROVE  /\ attempt[c] \notin broken[c]
         /\ place[c] # "ran" => attempt[c] \notin taken[c]
  <1>1. attempt[c] \in Attempts
    BY DEF TypeOK
  <1>2. ~Before(attempt[c], attempt[c])
    BY <1>1, RateLimitAssumption DEF Before, Attempts
  <1>3. attempt[c] \notin broken[c]
    BY <1>2 DEF AttemptedOf
  <1>4. QED
    BY <1>3 DEF AttemptedOf

LEMMA AttemptedNext ==
  ASSUME TypeOK, Attempted, [Next]_vars
  PROVE  Attempted'
  <1> USE DEF calls, redis
  <1>0. \A d \in Calls : AttemptedOf(d)
    BY DEF Attempted
  <1> SUFFICES ASSUME NEW d \in Calls PROVE AttemptedOf(d)'
    BY DEF Attempted
  <1>1. ASSUME NEW c \in Calls, Send(c) PROVE AttemptedOf(d)'
    <2>1. CASE d = c
      BY <1>0, <1>1, <2>1 DEF Send, AttemptedOf, Before, TypeOK
    <2>2. CASE d # c
      BY <1>0, <1>1, <2>2, Frame DEF Send, TypeOK
    <2>3. QED
      BY <2>1, <2>2
  <1>2. ASSUME NEW c \in Calls, Execute(c) PROVE AttemptedOf(d)'
    <2>0. Take(c, attempt[c]) /\ reply' = [reply EXCEPT ![c] = Answer(c, attempt[c])]
      BY <1>2 DEF Execute
    <2>1. CASE d = c
      <3>1. attempt[c] \notin broken[c] /\ attempt[c] \notin taken[c]
        BY <1>0, <1>2, UnderWay DEF Execute
      <3>2. /\ place[c] = "sent" /\ place'[c] = "ran"
            /\ UNCHANGED <<broken, ghosts, attempt, outcome>>
        BY <1>2 DEF Execute, TypeOK
      <3>3. outcome[c] = "none" /\ taken[c] \subseteq broken[c]
        BY <1>0, <3>2 DEF AttemptedOf
      <3>4. reply'[c] = Answer(c, attempt[c])
        BY <2>0 DEF TypeOK
      <3>5. CASE Answer(c, attempt[c]) = "allowed"
        <4>1. taken'[c] = taken[c] \cup {attempt[c]}
          BY <2>0, <3>5 DEF Take, Answer, TypeOK, Attempts
        <4>2. QED
          BY <1>0, <2>1, <3>1, <3>2, <3>3, <3>4, <3>5, <4>1 DEF AttemptedOf, Before
      <3>6. CASE Answer(c, attempt[c]) # "allowed"
        <4>1. taken'[c] = taken[c]
          BY <2>0, <3>6 DEF Take, Answer, TypeOK, Attempts
        <4>2. Answer(c, attempt[c]) = "noscript" => attempt[c][1] = "evalsha"
          BY DEF Answer
        <4>3. QED
          BY <1>0, <2>1, <3>1, <3>2, <3>3, <3>4, <3>6, <4>1, <4>2
          DEF AttemptedOf, Before
      <3>7. QED
        BY <3>5, <3>6
    <2>2. CASE d # c
      <3>1. taken'[d] = taken[d]
        BY <2>0, <2>2 DEF Take, TypeOK
      <3>2. QED
        BY <1>0, <1>2, <2>2, <3>1, Frame DEF Execute, TypeOK
    <2>3. QED
      BY <2>1, <2>2
  <1>3. ASSUME NEW c \in Calls, GhostExecutes(c) PROVE AttemptedOf(d)'
    <2>0. PICK g \in ghosts[c] : Take(c, g) /\ ghosts' = [ghosts EXCEPT ![c] = @ \ {g}]
      BY <1>3 DEF GhostExecutes
    <2>1. CASE d = c
      <3>1. taken'[c] = taken[c] \/ taken'[c] = taken[c] \cup {g}
        BY <2>0 DEF Take, TypeOK
      <3>2. ghosts'[c] = ghosts[c] \ {g}
        BY <2>0 DEF TypeOK
      <3>3. UNCHANGED <<broken, attempt, outcome, place, reply>>
        BY <1>3 DEF GhostExecutes
      <3>4. g \in broken[c] /\ g \notin taken[c]
        BY <1>0 DEF AttemptedOf
      <3>5. taken'[c] \ broken[c] = taken[c] \ broken[c]
        BY <3>1, <3>4
      <3>6. ghosts'[c] \subseteq broken[c] \ taken'[c]
        BY <1>0, <3>1, <3>2 DEF AttemptedOf
      <3>7. taken[c] \subseteq broken[c] => taken'[c] \subseteq broken[c]
        BY <3>1, <3>4
      <3>8. QED
        BY <1>0, <2>1, <3>3, <3>5, <3>6, <3>7 DEF AttemptedOf, Before
    <2>2. CASE d # c
      <3>1. taken'[d] = taken[d] /\ ghosts'[d] = ghosts[d]
        BY <2>0, <2>2 DEF Take, TypeOK
      <3>2. QED
        BY <1>0, <1>3, <2>2, <3>1, Frame DEF GhostExecutes, TypeOK
    <2>3. QED
      BY <2>1, <2>2
  <1>4. ASSUME NEW c \in Calls, Fallback(c) PROVE AttemptedOf(d)'
    <2>1. CASE d = c
      <3>1. /\ attempt'[c] = <<"eval", 0>> /\ place'[c] = "waiting" /\ reply'[c] = "none"
            /\ UNCHANGED <<broken, ghosts, outcome, taken>>
        BY <1>4 DEF Fallback, TypeOK
      <3>2. attempt[c][1] = "evalsha" /\ place[c] = "ran" /\ reply[c] = "noscript"
        BY <1>0, <1>4 DEF Fallback, AttemptedOf
      <3>3. \A a \in broken[c] : a[1] = "evalsha"
        BY <1>0, <3>2 DEF AttemptedOf, Before
      <3>4. \A a \in broken'[c] : Before(a, attempt'[c])
        BY <3>1, <3>3 DEF Before
      <3>5. QED
        BY <1>0, <2>1, <3>1, <3>2, <3>4 DEF AttemptedOf, Before
    <2>2. CASE d # c
      BY <1>0, <1>4, <2>2, Frame DEF Fallback, TypeOK
    <2>3. QED
      BY <2>1, <2>2
  <1>5. ASSUME NEW c \in Calls, AllowReturns(c) PROVE AttemptedOf(d)'
    <2>1. CASE d = c
      BY <1>0, <1>5, <2>1 DEF AllowReturns, Decide, AttemptedOf, Before, TypeOK
    <2>2. CASE d # c
      BY <1>0, <1>5, <2>2, Frame DEF AllowReturns, Decide, TypeOK
    <2>3. QED
      BY <2>1, <2>2
  <1>6. ASSUME NEW c \in Calls, AllowFails(c) \/ Leave(c) PROVE AttemptedOf(d)'
    <2>1. CASE d = c
      BY <1>0, <1>6, <2>1
      DEF AllowFails, Leave, FailOutcome, Decide, AttemptedOf, Before, TypeOK
    <2>2. CASE d # c
      BY <1>0, <1>6, <2>2, Frame DEF AllowFails, Leave, Decide, TypeOK
    <2>3. QED
      BY <2>1, <2>2
  <1>7. ASSUME NEW c \in Calls, Break(c) PROVE AttemptedOf(d)'
    <2>1. CASE d = c
      <3>1. attempt[c] \notin broken[c] /\ outcome[c] = "none" /\ place[c] # "over"
        BY <1>0, <1>7, UnderWay DEF Break, AttemptedOf
      <3>2. /\ broken'[c] = broken[c] \cup {attempt[c]} /\ reply'[c] = "none"
            /\ taken' = taken
        BY <1>7 DEF Break, TypeOK
      <3>3. taken'[c] \subseteq broken'[c]
        BY <1>0, <3>2 DEF AttemptedOf
      <3>4. ghosts'[c] \subseteq broken'[c] \ taken'[c]
        <4>1. CASE ghosts' = ghosts
          BY <1>0, <3>2, <4>1 DEF AttemptedOf
        <4>2. CASE place[c] = "sent" /\ ghosts' = [ghosts EXCEPT ![c] = @ \cup {attempt[c]}]
          <5>1. ghosts'[c] = ghosts[c] \cup {attempt[c]}
            BY <4>2 DEF TypeOK
          <5>2. attempt[c] \notin taken[c]
            BY <1>0, <4>2, UnderWay
          <5>3. QED
            BY <1>0, <3>2, <5>1, <5>2 DEF AttemptedOf
        <4>3. QED
          BY <1>7, <4>1, <4>2 DEF Break
      <3>5. \A a \in broken[c] : Before(a, attempt[c])
        BY <1>0, <3>1 DEF AttemptedOf
      <3>6. CASE attempt[c][2] < MaxRetries
        <4>1. /\ place'[c] = "waiting" /\ outcome' = outcome
              /\ attempt'[c] = <<attempt[c][1], attempt[c][2] + 1>>
          BY <1>7, <3>6 DEF Break, TypeOK
        <4>2. attempt[c] \in Attempts /\ \A a \in broken[c] : a \in Attempts
          BY DEF TypeOK
        <4>3. \A a \in broken'[c] : Before(a, attempt'[c])
          BY <3>2, <3>5, <4>1, <4>2, RateLimitAssumption DEF Before, Attempts
        <4>4. QED
          BY <2>1, <3>1, <3>2, <3>3, <3>4, <4>1, <4>3 DEF AttemptedOf
      <3>7. CASE ~(attempt[c][2] < MaxRetries)
        <4>1. /\ place'[c] = "over" /\ attempt' = attempt
              /\ outcome'[c] \in {"unchecked", "unavailable"}
          BY <1>7, <3>7 DEF Break, Decide, FailOutcome, TypeOK
        <4>2. \A a \in broken'[c] : Before(a, attempt'[c]) \/ a = attempt'[c]
          BY <3>2, <3>5, <4>1 DEF Before
        <4>3. QED
          BY <2>1, <3>2, <3>3, <3>4, <4>1, <4>2 DEF AttemptedOf
      <3>8. QED
        BY <3>6, <3>7
    <2>2. CASE d # c
      <3>1. /\ ghosts'[d] = ghosts[d] /\ broken'[d] = broken[d]
            /\ reply'[d] = reply[d] /\ taken' = taken
        BY <1>7, <2>2 DEF Break, TypeOK
      <3>2. attempt'[d] = attempt[d] /\ place'[d] = place[d] /\ outcome'[d] = outcome[d]
        BY <1>7, <2>2 DEF Break, Decide, TypeOK
      <3>3. QED
        BY <1>0, <3>1, <3>2, Frame
    <2>3. QED
      BY <2>1, <2>2
  <1>8. ASSUME NEW k \in Keys, Refill(k) PROVE AttemptedOf(d)'
    BY <1>0, <1>8, Frame DEF Refill
  <1>9. CASE ForgetScript
    BY <1>0, <1>9, Frame DEF ForgetScript
  <1>10. CASE UNCHANGED vars
    BY <1>0, <1>10, Frame DEF vars
  <1>11. QED
    BY <1>1, <1>2, <1>3, <1>4, <1>5, <1>6, <1>7, <1>8, <1>9, <1>10 DEF Next

-----------------------------------------------------------------------------
(***************************************************************************)
(* Tokens are conserved.                                                   *)
(***************************************************************************)
LEMMA TakenFinite ==
  ASSUME NEW k
  PROVE  IsFiniteSet(Taken(k))
  BY AttemptsFinite, FS_Subset DEF Taken

\* A run of an attempt that has no token yet moves at most one from its bucket.
LEMMA TakeConserves ==
  ASSUME TypeOK, Conserved, NEW c \in Calls, NEW a \in Attempts, Take(c, a),
         a \notin taken[c], config' = config, caller' = caller
  PROVE  Conserved'
  <1>1. \A d \in Calls : Key(d)' = Key(d)
    BY DEF Key, HttpKey, GrpcKey, ClientIP
  <1>2. Keys' = Keys
    BY DEF Keys, HttpKey, GrpcKey, ClientIP
  <1> SUFFICES ASSUME NEW k \in Keys
               PROVE  level'[k] + Cardinality(Taken(k)') = Capacity + refilled'[k]
    BY <1>2 DEF Conserved
  <1>3. /\ level[k] \in 0..Capacity /\ refilled[k] \in 0..MaxRefill
        /\ Cardinality(Taken(k)) \in Nat
        /\ level[k] + Cardinality(Taken(k)) = Capacity + refilled[k]
    BY TakenFinite, FS_CardinalityType DEF Conserved, TypeOK
  <1>4. refilled' = refilled
    BY DEF Take
  <1>5. CASE taken' = taken /\ level' = level
    <2>1. Taken(k)' = Taken(k)
      BY <1>1, <1>5 DEF Taken
    <2>2. QED
      BY <1>3, <1>4, <1>5, <2>1
  <1>6. CASE /\ level' = [level EXCEPT ![Key(c)] = @ - 1]
             /\ taken' = [taken EXCEPT ![c] = @ \cup {a}]
    <2>1. CASE k = Key(c)
      <3>1. Taken(k)' = Taken(k) \cup {<<c, a>>}
        BY <1>1, <1>6, <2>1 DEF Taken, TypeOK
      <3>2. <<c, a>> \notin Taken(k)
        BY DEF Taken
      <3>3. Cardinality(Taken(k)') = Cardinality(Taken(k)) + 1
        BY <3>1, <3>2, TakenFinite, FS_AddElement
      <3>4. level'[k] = level[k] - 1
        BY <1>6, <2>1 DEF TypeOK
      <3>5. QED
        BY <1>3, <1>4, <3>3, <3>4, RateLimitAssumption
    <2>2. CASE k # Key(c)
      <3>1. Taken(k)' = Taken(k)
        BY <1>1, <1>6, <2>2 DEF Taken, TypeOK
      <3>2. level'[k] = level[k]
        BY <1>6, <2>2 DEF TypeOK
      <3>3. QED
        BY <1>3, <1>4, <3>1, <3>2
    <2>3. QED
      BY <2>1, <2>2
  <1>7. QED
    BY <1>5, <1>6 DEF Take

LEMMA ConservedNext ==
  ASSUME TypeOK, Attempted, Conserved, [Next]_vars
  PROVE  Conserved'
  <1> USE DEF calls, redis
  <1>0. config' = config /\ caller' = caller
    BY DEF Next, vars, Send, Execute, GhostExecutes, Fallback, AllowReturns,
           AllowFails, Break, Leave, Refill, ForgetScript
  <1>1. \A d \in Calls : Key(d)' = Key(d)
    BY <1>0 DEF Key, HttpKey, GrpcKey, ClientIP
  <1>2. Keys' = Keys
    BY <1>0 DEF Keys, HttpKey, GrpcKey, ClientIP
  <1>3. ASSUME NEW c \in Calls, Execute(c) PROVE Conserved'
    <2>1. attempt[c] \notin taken[c] /\ attempt[c] \in Attempts
      BY <1>3, UnderWay DEF Execute, Attempted, TypeOK
    <2>2. QED
      BY <1>0, <1>3, <2>1, TakeConserves DEF Execute
  <1>4. ASSUME NEW c \in Calls, GhostExecutes(c) PROVE Conserved'
    <2>1. PICK g \in ghosts[c] : Take(c, g)
      BY <1>4 DEF GhostExecutes
    <2>2. g \notin taken[c] /\ g \in Attempts
      BY DEF Attempted, AttemptedOf, TypeOK
    <2>3. QED
      BY <1>0, <2>1, <2>2, TakeConserves
  <1>5. CASE taken' = taken /\ level' = level /\ refilled' = refilled
    <2>1. \A k \in Keys : Taken(k)' = Taken(k)
      BY <1>1, <1>5 DEF Taken
    <2>2. QED
      BY <1>2, <1>5, <2>1 DEF Conserved
  <1>6. ASSUME NEW j \in Keys, Refill(j) PROVE Conserved'
    <2>1. \A k \in Keys : Taken(k)' = Taken(k)
      BY <1>1, <1>6 DEF Taken, Refill
    <2> SUFFICES ASSUME NEW k \in Keys
                 PROVE  level'[k] + Cardinality(Taken(k)) = Capacity + refilled'[k]
      BY <1>2, <2>1 DEF Conserved
    <2>2. /\ level[k] \in Int /\ refilled[k] \in Int /\ Cardinality(Taken(k)) \in Nat
          /\ level[k] + Cardinality(Taken(k)) = Capacity + refilled[k]
      BY TakenFinite, FS_CardinalityType DEF Conserved, TypeOK
    <2>3. \/ level'[k] = level[k] /\ refilled'[k] = refilled[k]
          \/ level'[k] = level[k] + 1 /\ refilled'[k] = refilled[k] + 1
      BY <1>6 DEF Refill, TypeOK
    <2>4. QED
      BY <2>2, <2>3, RateLimitAssumption
  <1>7. QED
    BY <1>3, <1>4, <1>5, <1>6
    DEF Next, vars, Send, Fallback, AllowReturns, AllowFails, Break, Leave, ForgetScript

LEMMA PaidNext ==
  ASSUME TypeOK, Attempted, ForwardedPaid, [Next]_vars
  PROVE  ForwardedPaid'
  <1> USE DEF calls, redis
  <1>1. config' = config
    BY DEF Next, vars, Send, Execute, GhostExecutes, Fallback, AllowReturns,
           AllowFails, Break, Leave, Refill, ForgetScript
  <1> SUFFICES ASSUME NEW d \in Calls,
                      outcome'[d] \in {"admitted", "unchecked"}, taken'[d] = {}
               PROVE  outcome'[d] = "unchecked" /\ config.failOpen
    BY <1>1 DEF ForwardedPaid
  <1>2. taken[d] = {}
    BY DEF Next, vars, Send, Execute, GhostExecutes, Take, Fallback, AllowReturns,
           AllowFails, Break, Leave, Refill, ForgetScript, TypeOK
  <1>3. CASE outcome'[d] = outcome[d]
    BY <1>2, <1>3 DEF ForwardedPaid
  <1>4. ASSUME NEW c \in Calls, AllowReturns(c), outcome'[d] # outcome[d]
        PROVE  FALSE
    <2>1. d = c /\ reply[c] = "allowed" /\ place[c] = "ran"
      BY <1>4 DEF AllowReturns, Decide, TypeOK
    <2>2. attempt[c] \in taken[c]
      BY <2>1 DEF Attempted, AttemptedOf
    <2>3. QED
      BY <1>2, <2>1, <2>2
  <1>5. ASSUME NEW c \in Calls, AllowFails(c) \/ Break(c) \/ Leave(c),
               outcome'[d] # outcome[d]
        PROVE  outcome'[d] = "unchecked" /\ config.failOpen
    BY <1>5 DEF AllowFails, Break, Leave, Decide, FailOutcome, TypeOK
  <1>6. QED
    BY <1>3, <1>4, <1>5
    DEF Next, vars, Send, Execute, GhostExecutes, Fallback, Refill, ForgetScript

-----------------------------------------------------------------------------
LEMMA InvInit == Init => IInv
  <1> SUFFICES ASSUME Init PROVE IInv
    OBVIOUS
  <1>1. Attempted
    BY DEF Init, Attempted, AttemptedOf
  <1>2. Conserved
    <2>1. \A k \in Keys : Taken(k) = {}
      BY DEF Init, Taken
    <2>2. QED
      BY <2>1, FS_EmptySet, RateLimitAssumption DEF Init, Conserved
  <1>3. ForwardedPaid
    BY DEF Init, ForwardedPaid
  <1>4. QED
    BY <1>1, <1>2, <1>3, TypeInit DEF IInv

\* The strengthening holds in every state: a token that left a bucket is held
\* by exactly one attempt, and an attempt runs at most once.
THEOREM Invariance == Spec => []IInv
  <1>1. IInv /\ [Next]_vars => IInv'
    BY TypeNext, AttemptedNext, ConservedNext, PaidNext DEF IInv
  <1>2. QED
    BY InvInit, <1>1, PTL DEF Spec

\* Nothing is forwarded without a token but by failing open.
THEOREM NothingUnpaid == Spec => []ForwardedPaid
  <1>1. IInv => ForwardedPaid
    BY DEF IInv
  <1>2. QED
    BY Invariance, <1>1, PTL

\* Only attempts whose connection broke are charged beside the one answered.
THEOREM OverchargedByBreaks == Spec => []OnlyBreaksOvercharge
  <1>1. IInv => OnlyBreaksOvercharge
    <2> SUFFICES ASSUME IInv, NEW c \in Calls
                 PROVE  /\ outcome[c] = "admitted" => taken[c] \ broken[c] = {attempt[c]}
                        /\ outcome[c] \in {"denied", "unchecked", "unavailable"} =>
                             taken[c] \subseteq broken[c]
      BY DEF OnlyBreaksOvercharge
    <2>1. AttemptedOf(c)
      BY DEF IInv, Attempted
    <2>2. QED
      BY <2>1 DEF AttemptedOf
  <1>2. QED
    BY Invariance, <1>1, PTL

\* The rate is kept: the calls admitted to a payer hold different tokens of the
\* payer's one bucket.
THEOREM RateIsKept == Spec => []RateKept
  <1>1. IInv => RateKept
    <2> SUFFICES ASSUME IInv, NEW p \in Payers
                 PROVE  Cardinality({c \in Calls : Payer(caller[c]) = p
                                                   /\ outcome[c] = "admitted"})
                          <= Capacity + refilled[p]
      BY DEF RateKept
    <2> DEFINE Admitted == {c \in Calls : Payer(caller[c]) = p /\ outcome[c] = "admitted"}
               Held == [c \in Admitted |-> <<c, attempt[c]>>]
    <2>1. PICK y \in Callers : p = Payer(y) /\ (y.user # None \/ ~config.trustProxy)
      BY DEF Payers
    <2>2. p \in Keys
      BY <2>1 DEF Keys, GrpcKey, Payer
    <2>3. ASSUME NEW c \in Admitted PROVE Key(c) = p
      <3>1. Payer(caller[c]) = Payer(y)
        BY <2>1
      <3>2. QED
        BY <2>1, <3>1 DEF Payer, Key, HttpKey, GrpcKey, ClientIP
    <2>4. ASSUME NEW c \in Admitted PROVE attempt[c] \in taken[c] /\ attempt[c] \in Attempts
      BY DEF IInv, Attempted, AttemptedOf, TypeOK
    <2>5. Held \in [Admitted -> Taken(p)]
      BY <2>3, <2>4 DEF Taken
    <2>6. Held \in Injection(Admitted, Taken(p))
      BY <2>5 DEF Injection, IsInjective
    <2>7. Cardinality(Admitted) <= Cardinality(Taken(p)) /\ IsFiniteSet(Admitted)
      <3> HIDE DEF Admitted, Held
      <3>1. QED
        BY <2>6, TakenFinite, FS_Injection
    <2>8. /\ level[p] + Cardinality(Taken(p)) = Capacity + refilled[p]
          /\ level[p] \in Nat /\ refilled[p] \in Nat
          /\ Cardinality(Taken(p)) \in Nat /\ Cardinality(Admitted) \in Nat
      BY <2>2, <2>7, TakenFinite, FS_CardinalityType DEF IInv, Conserved, TypeOK
    <2>9. QED
      BY <2>7, <2>8, RateLimitAssumption
  <1>2. QED
    BY Invariance, <1>1, PTL

-----------------------------------------------------------------------------
(***************************************************************************)
(* RateLimit implements TokenLedger.                                       *)
(***************************************************************************)
LEMMA LedgerInit == Init => Ledger!Init
<1> SUFFICES ASSUME Init PROVE Ledger!Init
  OBVIOUS
<1>1. level = [k \in DOMAIN level |-> Capacity]
  BY DEF Init
<1>2. Holders = {} /\ Refused = {}
  BY DEF Init, Holders, Refused
<1>3. Wasted = [c \in Calls |-> {}]
  BY DEF Init, Wasted
<1> QED
  BY <1>1, <1>2, <1>3 DEF Init, Ledger!Init

\* Settings and callers stay, and so does whose bucket a call is charged to.
LEMMA LedgerTerms ==
  ASSUME UNCHANGED <<config, caller>>
  PROVE  KeyOf' = KeyOf /\ config'.failOpen = config.failOpen
  BY DEF KeyOf, Key, HttpKey, GrpcKey, ClientIP

\* A step that neither takes nor loses a token shows at most in the buckets,
\* the refusals and the answers.
LEMMA NoTokenMoves ==
  ASSUME UNCHANGED <<taken, broken>>
  PROVE  Holders' = Holders /\ Wasted' = Wasted
  BY DEF Holders, Wasted

\* Redis runs the last command of c: c pays, finds nothing, or goes on to EVAL.
LEMMA ExecuteInLedger ==
  ASSUME TypeOK, Attempted, NEW c \in Calls, Execute(c)
  PROVE  [Ledger!Next]_(Ledger!vars)
<1> DEFINE a == attempt[c]
<1>1. /\ place[c] = "sent" /\ outcome[c] = "none" /\ AttemptedOf(c)
      /\ a \notin broken[c] /\ taken[c] \subseteq broken[c]
      /\ reply[c] = "none" /\ a \in Attempts
  BY UnderWay DEF Execute, Attempted, AttemptedOf, TypeOK
<1>2. /\ KeyOf' = KeyOf /\ config'.failOpen = config.failOpen
      /\ UNCHANGED <<broken, outcome>>
  BY LedgerTerms DEF Execute
<1>3. c \notin Holders /\ KeyOf[c] = Key(c) /\ level[Key(c)] \in Nat
  BY <1>1, KeyType DEF Holders, KeyOf, TypeOK
<1>4. Take(c, a) /\ reply' = [reply EXCEPT ![c] = Answer(c, a)]
  BY DEF Execute
<1> HIDE DEF a
<1>5. CASE (loaded \/ a[1] = "eval") /\ level[Key(c)] >= 1
  <2>1. /\ level' = [level EXCEPT ![Key(c)] = @ - 1]
        /\ taken' = [taken EXCEPT ![c] = @ \cup {a}]
    BY <1>4, <1>5 DEF Take
  <2>2. Answer(c, a) = "allowed"
    BY <1>1, <1>5 DEF Answer, Attempts
  <2>3. Holders' = Holders \cup {c}
    BY <1>1, <1>2, <2>1 DEF Holders, TypeOK
  <2>4. Wasted' = Wasted
    BY <1>1, <1>2, <2>1 DEF Wasted, TypeOK
  <2>5. Refused' = Refused
    BY <1>1, <1>4, <2>2 DEF Refused, TypeOK
  <2>6. /\ level[KeyOf[c]] > 0
        /\ level' = [level EXCEPT ![KeyOf[c]] = @ - 1]
    BY <1>3, <1>5, <2>1
  <2>7. Ledger!Pay(c)
    BY <1>1, <1>2, <1>3, <2>3, <2>4, <2>5, <2>6 DEF Ledger!Pay
  <2> QED
    BY <2>7 DEF Ledger!Next
<1>6. CASE ~((loaded \/ a[1] = "eval") /\ level[Key(c)] >= 1)
  <2>1. UNCHANGED <<level, taken>>
    BY <1>4, <1>6 DEF Take
  <2>2. Holders' = Holders /\ Wasted' = Wasted
    BY <1>2, <2>1, NoTokenMoves
  <2>3. CASE Answer(c, a) = "denied"
    <3>1. level[KeyOf[c]] = 0
      BY <1>3, <2>3 DEF Answer
    <3>2. Refused' = Refused \cup {c}
      BY <1>4, <2>3 DEF Refused, TypeOK
    <3> QED
      BY <1>1, <1>2, <1>3, <2>1, <2>2, <3>1, <3>2 DEF Ledger!Next, Ledger!FindNone
  <2>4. CASE Answer(c, a) # "denied"
    <3>1. Refused' = Refused
      BY <1>1, <1>4, <2>4 DEF Refused, TypeOK, AttemptedOf
    <3> QED
      BY <1>2, <2>1, <2>2, <3>1 DEF Ledger!vars
  <2> QED
    BY <2>3, <2>4
<1> QED
  BY <1>5, <1>6

\* A lost command that runs late takes a token for nobody.
LEMMA GhostInLedger ==
  ASSUME TypeOK, Attempted, NEW c \in Calls, GhostExecutes(c)
  PROVE  [Ledger!Next]_(Ledger!vars)
<1>1. PICK g \in ghosts[c] : Take(c, g)
  BY DEF GhostExecutes
<1>2. g \in broken[c] /\ g \notin taken[c]
  BY DEF Attempted, AttemptedOf
<1>3. /\ KeyOf' = KeyOf /\ config'.failOpen = config.failOpen
      /\ UNCHANGED <<broken, outcome, reply>> /\ Refused' = Refused
  BY LedgerTerms DEF GhostExecutes, Refused
<1>4. KeyOf[c] = Key(c) /\ level[Key(c)] \in Nat
  BY KeyType DEF KeyOf, TypeOK
<1>5. CASE UNCHANGED <<level, taken>>
  BY <1>3, <1>5, NoTokenMoves DEF Ledger!vars
<1>6. CASE /\ level[Key(c)] >= 1
           /\ level' = [level EXCEPT ![Key(c)] = @ - 1]
           /\ taken' = [taken EXCEPT ![c] = @ \cup {g}]
  <2>1. Holders' = Holders
    BY <1>2, <1>3, <1>6 DEF Holders, TypeOK
  <2>2. g \in broken[c] \ Wasted[c]
    BY <1>2 DEF Wasted
  <2>3. Wasted' = [Wasted EXCEPT ![c] = @ \cup {g}]
    BY <1>2, <1>3, <1>6 DEF Wasted, TypeOK
  <2>4. /\ level[KeyOf[c]] > 0
        /\ level' = [level EXCEPT ![KeyOf[c]] = @ - 1]
    BY <1>4, <1>6
  <2>5. Ledger!Waste(c)
    BY <1>3, <2>1, <2>2, <2>3, <2>4 DEF Ledger!Waste
  <2> QED
    BY <2>5 DEF Ledger!Next
<1> QED
  BY <1>1, <1>5, <1>6 DEF Take

\* A broken connection loses the command under way, with its token if it had
\* one.
LEMMA BreakInLedger ==
  ASSUME TypeOK, Attempted, NEW c \in Calls, Break(c)
  PROVE  [Ledger!Next]_(Ledger!vars)
<1> DEFINE a == attempt[c]
<1>1. /\ AttemptedOf(c) /\ outcome[c] = "none"
      /\ a \in Attempts /\ a \notin broken[c]
  BY UnderWay DEF Break, Attempted, AttemptedOf, TypeOK
<1>2. /\ KeyOf' = KeyOf /\ config'.failOpen = config.failOpen
      /\ UNCHANGED <<level, taken>>
      /\ broken' = [broken EXCEPT ![c] = @ \cup {a}]
      /\ reply' = [reply EXCEPT ![c] = "none"]
  BY LedgerTerms DEF Break, redis
<1>3. outcome' = outcome \/ Ledger!Failed(c)
  BY DEF Break, Decide, FailOutcome, Ledger!Failed
<1>4. Refused' = Refused \ {c}
  BY <1>2 DEF Refused, TypeOK
<1>5. taken[c] \subseteq broken[c] \/ taken[c] \ broken[c] = {a}
  BY <1>1 DEF AttemptedOf
<1> HIDE DEF a
<1>6. Holders' = Holders \ {c}
  BY <1>2, <1>5 DEF Holders, TypeOK
<1>7. Wasted' = IF c \in Holders THEN [Wasted EXCEPT ![c] = @ \cup {a}] ELSE Wasted
  <2>1. \A d \in Calls : d # c => broken'[d] = broken[d]
    BY <1>2 DEF TypeOK
  <2>2. broken'[c] = broken[c] \cup {a}
    BY <1>2 DEF TypeOK
  <2>3. CASE c \in Holders
    <3>1. taken[c] \cap broken'[c] = Wasted[c] \cup {a}
      BY <1>5, <2>2, <2>3 DEF Holders, Wasted
    <3> QED
      BY <1>2, <2>1, <2>3, <3>1 DEF Wasted
  <2>4. CASE c \notin Holders
    <3>1. taken[c] \cap broken'[c] = taken[c] \cap broken[c]
      BY <2>2, <2>4 DEF Holders
    <3> QED
      BY <1>2, <2>1, <2>4, <3>1 DEF Wasted
  <2> QED
    BY <2>3, <2>4
<1>8. Ledger!Lose(c)
  BY <1>1, <1>2, <1>3, <1>4, <1>6, <1>7 DEF Ledger!Lose
<1> QED
  BY <1>8 DEF Ledger!Next

\* Allow's answer is what the call's own last command did.
LEMMA AnswerInLedger ==
  ASSUME TypeOK, Attempted, NEW c \in Calls,
         AllowReturns(c) \/ AllowFails(c) \/ Leave(c)
  PROVE  [Ledger!Next]_(Ledger!vars)
<1>1. AttemptedOf(c) /\ outcome[c] = "none"
  BY DEF Attempted, AttemptedOf, AllowReturns, AllowFails, Leave
<1>2. /\ KeyOf' = KeyOf /\ config'.failOpen = config.failOpen
      /\ UNCHANGED <<level, taken, broken, reply>>
  BY LedgerTerms DEF AllowReturns, AllowFails, Leave, redis
<1>3. Holders' = Holders /\ Wasted' = Wasted /\ Refused' = Refused
  BY <1>2, NoTokenMoves DEF Refused
<1>4. \/ c \in Holders /\ outcome' = [outcome EXCEPT ![c] = "admitted"]
      \/ c \in Refused /\ outcome' = [outcome EXCEPT ![c] = "denied"]
      \/ c \notin Holders \cup Refused /\ Ledger!Failed(c)
  <2>1. CASE AllowReturns(c)
    BY <1>1, <2>1 DEF AllowReturns, Decide, AttemptedOf, Holders, Refused
  <2>2. CASE AllowFails(c) \/ Leave(c)
    BY <1>1, <2>2 DEF AllowFails, Leave, Decide, FailOutcome, AttemptedOf, Holders,
       Refused, Ledger!Failed
  <2> QED
    BY <2>1, <2>2
<1> QED
  BY <1>1, <1>2, <1>3, <1>4 DEF Ledger!Next, Ledger!Answer

LEMMA LedgerStep == TypeOK /\ Attempted /\ [Next]_vars => [Ledger!Next]_(Ledger!vars)
<1> SUFFICES ASSUME TypeOK, Attempted, [Next]_vars PROVE [Ledger!Next]_(Ledger!vars)
  OBVIOUS
<1>1. ASSUME NEW c \in Calls, Execute(c) PROVE [Ledger!Next]_(Ledger!vars)
  BY <1>1, ExecuteInLedger
<1>2. ASSUME NEW c \in Calls, GhostExecutes(c) PROVE [Ledger!Next]_(Ledger!vars)
  BY <1>2, GhostInLedger
<1>3. ASSUME NEW c \in Calls, Break(c) PROVE [Ledger!Next]_(Ledger!vars)
  BY <1>3, BreakInLedger
<1>4. ASSUME NEW c \in Calls, AllowReturns(c) \/ AllowFails(c) \/ Leave(c)
      PROVE  [Ledger!Next]_(Ledger!vars)
  BY <1>4, AnswerInLedger
<1>5. ASSUME NEW c \in Calls, Send(c) \/ Fallback(c)
      PROVE  [Ledger!Next]_(Ledger!vars)
  <2>1. /\ KeyOf' = KeyOf /\ config'.failOpen = config.failOpen
        /\ UNCHANGED <<level, taken, broken, outcome>>
    BY <1>5, LedgerTerms DEF Send, Fallback, redis
  <2>2. Refused' = Refused
    BY <1>5 DEF Send, Fallback, Refused, TypeOK
  <2> QED
    BY <2>1, <2>2, NoTokenMoves DEF Ledger!vars
<1>6. ASSUME NEW k \in Keys, Refill(k) PROVE [Ledger!Next]_(Ledger!vars)
  <2>1. /\ KeyOf' = KeyOf /\ config'.failOpen = config.failOpen
        /\ UNCHANGED <<taken, broken, outcome, reply>> /\ Refused' = Refused
    BY <1>6, LedgerTerms DEF Refill, calls, Refused
  <2>2. k \in DOMAIN level
    BY DEF TypeOK
  <2> QED
    BY <1>6, <2>1, <2>2, NoTokenMoves DEF Refill, Ledger!Next, Ledger!Refill
<1>7. CASE ForgetScript \/ UNCHANGED vars
  <2>1. UNCHANGED <<calls, level, taken>>
    BY <1>7 DEF ForgetScript, vars, redis
  <2>2. KeyOf' = KeyOf /\ config'.failOpen = config.failOpen /\ Refused' = Refused
    BY <2>1, LedgerTerms DEF calls, Refused
  <2> QED
    BY <2>1, <2>2, NoTokenMoves DEF calls, Ledger!vars
<1> QED
  BY <1>1, <1>2, <1>3, <1>4, <1>5, <1>6, <1>7 DEF Next

\* For any calls, callers, retries and refills: each answer is given once and
\* for what the call's own last command did; a call is denied only when it
\* found its bucket empty; a lost command costs at most one token.
THEOREM Implements == Spec => KeepsLedger
<1>1. IInv => TypeOK /\ Attempted
  BY DEF IInv
<1> QED
  BY Invariance, LedgerInit, LedgerStep, <1>1, PTL DEF Spec, KeepsLedger, Ledger!Spec
=============================================================================
