----------------------------- MODULE IdealBucket -----------------------------
(***************************************************************************)
(* The textbook token bucket, one per key: it refills at every tick of the *)
(* clock up to its capacity, a call takes one token when one is there and  *)
(* is denied when none is.  No timestamps, no expiry: TokenBucket          *)
(* implements it lazily in Redis.                                          *)
(***************************************************************************)
EXTENDS Naturals

CONSTANTS
  Keys,   \* the rate limit keys
  Full,   \* level of a full bucket
  Cost,   \* what one call takes
  Rate    \* what one tick adds

VARIABLES
  level,    \* of each key
  admitted, \* calls admitted so far, of each key
  verdict   \* the last answer for each key

vars == <<level, admitted, verdict>>

Init ==
  /\ level = [k \in Keys |-> Full]
  /\ admitted = [k \in Keys |-> 0]
  /\ verdict = [k \in Keys |-> "none"]

Tick ==
  /\ level' = [k \in Keys |->
       IF level[k] + Rate >= Full THEN Full ELSE level[k] + Rate]
  /\ UNCHANGED <<admitted, verdict>>

Admit(k) ==
  /\ level[k] >= Cost
  /\ level' = [level EXCEPT ![k] = @ - Cost]
  /\ admitted' = [admitted EXCEPT ![k] = @ + 1]
  /\ verdict' = [verdict EXCEPT ![k] = "allowed"]

Deny(k) ==
  /\ level[k] < Cost
  /\ verdict' = [verdict EXCEPT ![k] = "denied"]
  /\ UNCHANGED <<level, admitted>>

\* The store forgot the key.
Forget(k) ==
  /\ level' = [level EXCEPT ![k] = Full]
  /\ UNCHANGED <<admitted, verdict>>

Next == Tick \/ \E k \in Keys : Admit(k) \/ Deny(k) \/ Forget(k)

Spec == Init /\ [][Next]_vars
=============================================================================
