----------------------------- MODULE TokenLedger -----------------------------
(***************************************************************************)
(* What rate limiting promises its callers: each call is charged to one    *)
(* bucket, is admitted for a token it took from there, denied only when it *)
(* found none, and answered once.  A command that is lost on its way costs *)
(* at most one token more.  Nothing of scripts, retries and replies is     *)
(* visible here.  RateLimit implements this specification.                 *)
(***************************************************************************)
EXTENDS Naturals

CONSTANTS
  Calls,
  Commands,  \* what a call may send
  Capacity

VARIABLES
  key,       \* of each call: the bucket it is charged to
  failOpen,  \* a call passes when the limiter fails
  level,     \* of each bucket: the tokens in it
  holds,     \* calls that hold a token
  refused,   \* calls that found no token
  lost,      \* of each call: its commands that were lost
  wasted,    \* of each call: those that took a token all the same
  outcome    \* of each call

vars == <<key, failOpen, level, holds, refused, lost, wasted, outcome>>

Init ==
  /\ level = [k \in DOMAIN level |-> Capacity]
  /\ holds = {} /\ refused = {}
  /\ lost = [c \in Calls |-> {}] /\ wasted = [c \in Calls |-> {}]
  /\ outcome = [c \in Calls |-> "none"]

Refill(k) ==
  /\ level[k] < Capacity
  /\ level' = [level EXCEPT ![k] = @ + 1]
  /\ UNCHANGED <<key, failOpen, holds, refused, lost, wasted, outcome>>

\* Only a call without a token, and with no answer yet, takes one.
Pay(c) ==
  /\ outcome[c] = "none" /\ c \notin holds
  /\ level[key[c]] > 0
  /\ level' = [level EXCEPT ![key[c]] = @ - 1]
  /\ holds' = holds \cup {c}
  /\ UNCHANGED <<key, failOpen, refused, lost, wasted, outcome>>

FindNone(c) ==
  /\ outcome[c] = "none" /\ c \notin holds
  /\ level[key[c]] = 0
  /\ refused' = refused \cup {c}
  /\ UNCHANGED <<key, failOpen, level, holds, lost, wasted, outcome>>

Failed(c) ==
  outcome' = [outcome EXCEPT ![c] = IF failOpen THEN "unchecked" ELSE "unavailable"]

\* A lost command takes what it took with it, and the call is where it was
\* before, or fails.
Lose(c) ==
  /\ outcome[c] = "none"
  /\ \E a \in Commands \ lost[c] :
       /\ lost' = [lost EXCEPT ![c] = @ \cup {a}]
       /\ wasted' = IF c \in holds THEN [wasted EXCEPT ![c] = @ \cup {a}] ELSE wasted
  /\ holds' = holds \ {c} /\ refused' = refused \ {c}
  /\ Failed(c) \/ outcome' = outcome
  /\ UNCHANGED <<key, failOpen, level>>

\* A lost command arrives late.
Waste(c) ==
  /\ level[key[c]] > 0
  /\ level' = [level EXCEPT ![key[c]] = @ - 1]
  /\ \E a \in lost[c] \ wasted[c] : wasted' = [wasted EXCEPT ![c] = @ \cup {a}]
  /\ UNCHANGED <<key, failOpen, holds, refused, lost, outcome>>

Answer(c) ==
  /\ outcome[c] = "none"
  /\ \/ c \in holds /\ outcome' = [outcome EXCEPT ![c] = "admitted"]
     \/ c \in refused /\ outcome' = [outcome EXCEPT ![c] = "denied"]
     \/ c \notin holds \cup refused /\ Failed(c)
  /\ UNCHANGED <<key, failOpen, level, holds, refused, lost, wasted>>

Next ==
  \/ \E k \in DOMAIN level : Refill(k)
  \/ \E c \in Calls : Pay(c) \/ FindNone(c) \/ Lose(c) \/ Waste(c) \/ Answer(c)

Spec == Init /\ [][Next]_vars
=============================================================================
