--------------------------- MODULE ReadinessProofs ---------------------------
(***************************************************************************)
(* Proofs about Readiness, for any upstreams and any order of asking.      *)
(*                                                                         *)
(* A turn of the loop ends with its dependency blamed or seen well, and it *)
(* can be blamed only while it is unwell or once the context has ended:    *)
(* both are facts of the instant at which the turn ends, that what the     *)
(* observer saw during the probe keeps (Found).                            *)
(***************************************************************************)
EXTENDS Readiness, SequenceTheorems, TLAPS

\* The dependencies that are asked, by their turns.
LEMMA Asking ==
  /\ Len(Checks) \in Nat /\ DOMAIN Checks = 1..Len(Checks)
  /\ \A i \in 1..Len(Checks) : Checks[i] \in Dependencies
  /\ ToSet(Checks) = {Checks[i] : i \in 1..Len(Checks)}
<1>1. Checks \in Seq(Dependencies)
  BY ReadinessAssumption
<1>2. Len(Checks) \in Nat /\ DOMAIN Checks = 1..Len(Checks)
  BY <1>1, LenProperties
<1>3. \A i \in 1..Len(Checks) : Checks[i] \in Dependencies
  BY <1>1, ElementOfSeq
<1> QED
  BY <1>2, <1>3 DEF ToSet

\* The dependency whose turn it is.
LEMMA AskedIs ==
  ASSUME TypeOK, turn < Len(Checks)
  PROVE  /\ Asked \in Dependencies /\ Asked \in ToSet(Checks)
         /\ turn \in Nat /\ turn + 1 \in 1..Len(Checks)
<1>1. turn \in Nat /\ turn + 1 \in 1..Len(Checks)
  <2>1. turn \in 0..Len(Checks)
    BY DEF TypeOK
  <2> QED
    BY <2>1, Asking
<1> QED
  BY <1>1, Asking DEF Asked

-----------------------------------------------------------------------------
LEMMA InitInv == Init => IInv
<1> SUFFICES ASSUME Init PROVE IInv
  OBVIOUS
<1>1. TypeOK
  <2>1. 0 \in 0..Len(Checks)
    BY Asking
  <2> QED
    BY <2>1 DEF Init, TypeOK, Health
<1>2. Found
  BY DEF Init, Found, Probing
<1>3. BlameIsFair
  BY DEF Init, BlameIsFair
<1> QED
  BY <1>1, <1>2, <1>3 DEF IInv

\* A turn that ends keeps the invariant, if its dependency was seen well or is
\* blamed, and is blamed only when unwell or late.
LEMMA DoneKeeps ==
  ASSUME IInv, Probing, turn < Len(Checks),
         UNCHANGED <<health, ended, served, unwell>>,
         NEW failed \in BOOLEAN, Done(failed),
         failed => ended \/ health[Asked] # "serving",
         ~failed => health[Asked] = "serving"
  PROVE  IInv'
<1> USE DEF IInv
<1>1. /\ Asked \in Dependencies /\ Asked \in ToSet(Checks)
      /\ turn \in Nat /\ turn + 1 \in 1..Len(Checks)
  BY AskedIs
<1>2. /\ turn' = turn + 1 /\ place' = "loop"
      /\ errs' = IF failed THEN errs \cup {Asked} ELSE errs
  BY DEF Done
<1>3. Asked \in IF health[Asked] = "serving" THEN served ELSE unwell
  BY <1>1 DEF Found, Well
<1>4. TypeOK'
  <2>1. turn' \in 0..Len(Checks)
    BY <1>1, <1>2, Asking
  <2> QED
    BY <1>1, <1>2, <2>1 DEF TypeOK
<1>5. Found'
  <2>1. \A i \in 1..turn' : Checks[i] \in served \cup errs'
    <3> SUFFICES ASSUME NEW i \in 1..turn' PROVE Checks[i] \in served \cup errs'
      OBVIOUS
    <3>1. CASE i = turn + 1
      BY <1>2, <1>3, <3>1 DEF Asked
    <3>2. CASE i \in 1..turn
      BY <1>2, <3>2 DEF Found, Probing
    <3> QED
      BY <1>1, <1>2, <3>1, <3>2
  <2> QED
    BY <1>2, <2>1 DEF Found, Probing, Well
<1>6. BlameIsFair'
  BY <1>2, <1>3 DEF BlameIsFair
<1> QED
  BY <1>4, <1>5, <1>6

LEMMA StepInv == IInv /\ [Next]_vars => IInv'
<1> SUFFICES ASSUME IInv, [Next]_vars PROVE IInv'
  OBVIOUS
<1> USE DEF IInv
<1>1. CASE Begin
  <2>0. 0 \in 0..Len(Checks)
    BY Asking
  <2>1. TypeOK'
    BY <1>1, <2>0 DEF Begin, TypeOK, Well
  <2>2. Found'
    <3>1. /\ place' = "loop" /\ turn' = 0 /\ health' = health
          /\ served' = Well(health) /\ unwell' = Dependencies \ Well(health)
      BY <1>1 DEF Begin
    <3>2. \A i \in 1..turn' : FALSE
      BY <3>1
    <3> QED
      BY <3>1, <3>2 DEF Found, Probing
  <2>3. BlameIsFair'
    BY <1>1 DEF Begin, BlameIsFair
  <2> QED
    BY <2>1, <2>2, <2>3
<1>2. CASE Ask
  <2>1. /\ place = "loop" /\ turn < Len(Checks)
        /\ UNCHANGED <<health, ended, served, unwell>>
    BY <1>2 DEF Ask
  <2>2. CASE ended
    <3>1. Done(TRUE)
      BY <1>2, <2>2 DEF Ask
    <3> QED
      BY <2>1, <2>2, <3>1, DoneKeeps DEF Probing
  <2>3. CASE ~ended
    <3>1. place' = "asking" /\ UNCHANGED <<turn, errs>>
      BY <1>2, <2>3 DEF Ask
    <3>2. TypeOK'
      BY <2>1, <3>1 DEF TypeOK
    <3>3. Found' /\ BlameIsFair'
      BY <2>1, <3>1 DEF Found, Probing, Well, BlameIsFair
    <3> QED
      BY <3>2, <3>3
  <2> QED
    BY <2>2, <2>3
<1>3. CASE Reply
  <2>1. /\ place = "asking" /\ turn < Len(Checks)
        /\ UNCHANGED <<health, ended, served, unwell>>
    BY <1>3 DEF Reply, Found
  <2>2. PICK failed \in BOOLEAN :
          /\ Done(failed)
          /\ failed => ended \/ health[Asked] # "serving"
          /\ ~failed => health[Asked] = "serving"
    <3>1. CASE health[Asked] = "serving" /\ Done(FALSE)
      BY <3>1
    <3>2. CASE health[Asked] \in {"failing", "recovered"} /\ Done(TRUE)
      BY <3>2
    <3>3. CASE Asked \in Grpc /\ ended /\ Done(TRUE)
      BY <3>3
    <3>4. CASE Asked = Redis /\ health[Asked] = "hung" /\ Done(TRUE)
      BY <3>4
    <3> QED
      BY <1>3, <3>1, <3>2, <3>3, <3>4 DEF Reply
  <2> QED
    BY <2>1, <2>2, DoneKeeps DEF Probing
<1>4. CASE Answer
  <2>1. /\ place = "loop" /\ turn = Len(Checks)
        /\ place' = IF errs = {} THEN "ready" ELSE "not ready"
        /\ UNCHANGED <<health, turn, ended, errs, served, unwell>>
    BY <1>4 DEF Answer
  <2>2. TypeOK'
    BY <2>1 DEF TypeOK
  <2>3. Found' /\ BlameIsFair'
    BY <2>1 DEF Found, Probing, BlameIsFair
  <2> QED
    BY <2>2, <2>3
<1>5. CASE End
  <2>1. TypeOK'
    BY <1>5 DEF End, TypeOK
  <2>2. Found' /\ BlameIsFair'
    BY <1>5 DEF End, Found, Probing, Well, BlameIsFair
  <2> QED
    BY <2>1, <2>2
<1>6. ASSUME NEW d \in Dependencies, Change(d) PROVE IInv'
  <2>1. PICK h \in Health : health' = [health EXCEPT ![d] = h]
    BY <1>6 DEF Change
  <2>2. /\ served' = IF Probing THEN served \cup Well(health') ELSE served
        /\ unwell' = IF Probing THEN unwell \cup (Dependencies \ Well(health'))
                     ELSE unwell
        /\ UNCHANGED <<place, turn, ended, errs>>
    BY <1>6 DEF Change
  <2>3. TypeOK'
    <3>1. health' \in [Dependencies -> Health]
      BY <2>1 DEF TypeOK
    <3>2. served' \in SUBSET Dependencies /\ unwell' \in SUBSET Dependencies
      BY <2>2 DEF TypeOK, Well
    <3> QED
      BY <2>2, <3>1, <3>2 DEF TypeOK
  <2>4. Found'
    BY <2>2 DEF Found, Probing
  <2>5. BlameIsFair'
    BY <2>2 DEF BlameIsFair
  <2> QED
    BY <2>3, <2>4, <2>5
<1>7. CASE UNCHANGED vars
  BY <1>7 DEF vars, TypeOK, Found, Probing, Well, BlameIsFair
<1> QED
  BY <1>1, <1>2, <1>3, <1>4, <1>5, <1>6, <1>7 DEF Next, Check

-----------------------------------------------------------------------------
\* The inductive invariant: every turn that is behind was found well or blamed,
\* and what the observer saw covers the state of the moment.
THEOREM Invariant == Spec => []IInv
  BY InitInv, StepInv, PTL DEF Spec

\* "ready" means that every dependency was well during the probe, "not ready"
\* names every one that was not.
THEOREM AnswersJustified == Spec => []AnswerJustified
<1>1. IInv => AnswerJustified
  <2> SUFFICES ASSUME IInv, place \in {"ready", "not ready"}
               PROVE  /\ ToSet(Checks) \ served \subseteq errs
                      /\ place = "ready" => errs = {}
    BY DEF AnswerJustified
  <2>1. /\ turn = Len(Checks) /\ (place = "ready" <=> errs = {})
        /\ \A i \in 1..turn : Checks[i] \in served \cup errs
    BY DEF IInv, Found
  <2> QED
    BY <2>1, Asking
<1> QED
  BY <1>1, Invariant, PTL

\* Before the end of the time, nobody is blamed for another's silence.
THEOREM BlamesFairly == Spec => []BlameIsFair
<1>1. IInv => BlameIsFair
  BY DEF IInv
<1> QED
  BY <1>1, Invariant, PTL
=============================================================================
