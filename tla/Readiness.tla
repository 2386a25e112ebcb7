------------------------------ MODULE Readiness ------------------------------
(***************************************************************************)
(* GET /readyz: the checker asks every dependency, one after the other,    *)
(* under one context that ends after readinessTimeout or when the client   *)
(* leaves.  The health of the dependencies changes all the while.          *)
(*                                                                         *)
(* External:                                                               *)
(*  - a gRPC health check ends when its context does, and fails at once    *)
(*    while its connection backs off, even if the upstream is well again;  *)
(*  - go-redis does not begin a PING under a context that has ended, but   *)
(*    does not interrupt one that is under way either: it ends by          *)
(*    go-redis's own timeouts;                                             *)
(*  - after as many dial errors as its pool has places, go-redis fails at  *)
(*    once too, until a dial it tries every second succeeds.               *)
(***************************************************************************)
EXTENDS Naturals, Sequences, SequencesExt

CONSTANTS
  Grpc,      \* "grpc:<name>" of each gRPC upstream
  Redis,     \* "redis"
  Checks     \* the order in which the checker asks

Dependencies == Grpc \cup {Redis}

ASSUME ReadinessAssumption == Redis \notin Grpc /\ Checks \in Seq(Dependencies)

VARIABLES
  health,    \* of each dependency
  place,     \* where the probe is
  turn,      \* turns of Check's loop that are behind
  ended,     \* the context has
  errs,      \* dependencies in checkErrors
  \* What an observer saw during the probe; no action reads these.
  served,    \* dependencies that were well at some moment of it
  unwell     \* dependencies that were not

vars == <<health, place, turn, ended, errs, served, unwell>>

\* "recovered": well again, but the gateway's connection still backs off.
Health == {"serving", "failing", "hung", "recovered"}

Well(h) == {d \in Dependencies : h[d] = "serving"}
Asked == Checks[turn + 1]
Probing == place \in {"loop", "asking"}

TypeOK ==
  /\ health \in [Dependencies -> Health]
  /\ place \in {"idle", "loop", "asking", "ready", "not ready"}
  /\ turn \in 0..Len(Checks) /\ ended \in BOOLEAN
  /\ errs \in SUBSET ToSet(Checks)
  /\ served \in SUBSET Dependencies /\ unwell \in SUBSET Dependencies

Init ==
  /\ health = [d \in Dependencies |-> "serving"]
  /\ place = "idle" /\ turn = 0 /\ ended = FALSE /\ errs = {}
  /\ served = {} /\ unwell = {}

-----------------------------------------------------------------------------
\* Mutant: the errors are collected in the checker.
BeginKeepsErrors ==
  /\ ~Probing /\ place' = "loop"
  /\ turn' = 0 /\ ended' = FALSE
  /\ served' = Well(health) /\ unwell' = Dependencies \ Well(health)
  /\ UNCHANGED <<health, errs>>
\* The handler makes a context and calls Check.
Begin ==
  /\ ~Probing /\ place' = "loop"
  /\ turn' = 0 /\ ended' = FALSE /\ errs' = {}
  /\ served' = Well(health) /\ unwell' = Dependencies \ Well(health)
  /\ UNCHANGED health

\* Mutant: the loop ends with the first error.
DoneReturning(failed) ==
  /\ errs' = IF failed THEN errs \cup {Asked} ELSE errs
  /\ turn' = IF failed THEN Len(Checks) ELSE turn + 1
  /\ place' = "loop"
\* Mutant: an error is kept for the last dependency only.
DoneOverwriting(failed) ==
  /\ errs' = IF failed THEN {Asked} ELSE {}
  /\ turn' = turn + 1
  /\ place' = "loop"
\* One turn of the loop ends.
Done(failed) ==
  /\ errs' = IF failed THEN errs \cup {Asked} ELSE errs
  /\ turn' = turn + 1
  /\ place' = "loop"

Ask ==
  /\ place = "loop" /\ turn < Len(Checks)
  /\ IF ended THEN Done(TRUE) ELSE place' = "asking" /\ UNCHANGED <<turn, errs>>
  /\ UNCHANGED <<health, ended, served, unwell>>

\* CheckHealth, or Ping, returns: with an answer, because its context ended,
\* or by go-redis's timeout.
Reply ==
  /\ place = "asking"
  /\ \/ health[Asked] = "serving" /\ Done(FALSE)
     \/ health[Asked] \in {"failing", "recovered"} /\ Done(TRUE)
     \/ Asked \in Grpc /\ ended /\ Done(TRUE)
     \/ Asked = Redis /\ health[Asked] = "hung" /\ Done(TRUE)
  /\ UNCHANGED <<health, ended, served, unwell>>

\* errors.Join of no errors is nil.
Answer ==
  /\ place = "loop" /\ turn = Len(Checks)
  /\ place' = IF errs = {} THEN "ready" ELSE "not ready"
  /\ UNCHANGED <<health, turn, ended, errs, served, unwell>>

\* Mutant: the checks run without the timeout.
EndNever == FALSE
\* The timeout passes, or the client leaves.
End ==
  /\ Probing /\ ~ended
  /\ ended' = TRUE
  /\ UNCHANGED <<health, place, turn, errs, served, unwell>>

\* A dependency fails, hangs or recovers; a connection can back off only
\* after a failure.
Change(d) ==
  /\ \E h \in Health \ {health[d]} :
       /\ h = "recovered" => health[d] # "serving"
       /\ health' = [health EXCEPT ![d] = h]
  /\ served' = IF Probing THEN served \cup Well(health') ELSE served
  /\ unwell' = IF Probing THEN unwell \cup (Dependencies \ Well(health')) ELSE unwell
  /\ UNCHANGED <<place, turn, ended, errs>>

Check == Ask \/ Reply \/ Answer
Next == Begin \/ Check \/ End \/ \E d \in Dependencies : Change(d)

(***************************************************************************)
(* The handler's goroutine and the timer run.  Dependencies may hang, and  *)
(* nobody need ever probe.                                                 *)
(***************************************************************************)
Fairness == WF_vars(Check) /\ WF_vars(End)

Spec == Init /\ [][Next]_vars /\ Fairness

-----------------------------------------------------------------------------
(***************************************************************************)
(* Properties.                                                             *)
(***************************************************************************)
\* "ready" is answered only if every dependency that is asked was well at some
\* moment of this very probe, though not all at the same one; and "not ready"
\* names every one that was not, whatever befell the ones before it.
AnswerJustified ==
  place \in {"ready", "not ready"} =>
    /\ ToSet(Checks) \ served \subseteq errs
    /\ place = "ready" => errs = {}

\* A dependency is blamed only if it was unwell at some moment of this probe,
\* or behind the end of its context: one that took all of the two seconds
\* brings the healthy ones after it down with it.
BlameIsFair == ~ended => errs \subseteq unwell

\* A probe is answered, though every dependency hangs.
ProbeEnds == Probing ~> ~Probing

\* The inductive invariant: what the turns so far have found.
Found ==
  /\ place = "asking" => turn < Len(Checks)
  /\ place \in {"ready", "not ready"} =>
       turn = Len(Checks) /\ (place = "ready" <=> errs = {})
  /\ place # "idle" =>
       \A i \in 1..turn : Checks[i] \in served \cup errs
  /\ Probing => Well(health) \subseteq served /\ Dependencies \ Well(health) \subseteq unwell
IInv == TypeOK /\ Found /\ BlameIsFair
=============================================================================
