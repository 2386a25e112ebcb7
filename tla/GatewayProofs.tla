---------------------------- MODULE GatewayProofs ---------------------------
(***************************************************************************)
(* Proofs about the process: the servers (Lifecycle), the resources that   *)
(* run opens and closes around them (Startup), and the two together with   *)
(* the handlers that outlive the shutdown (Gateway).  They hold for any    *)
(* calls, upstreams, routes and environments, with and without a gRPC      *)
(* server.                                                                 *)
(***************************************************************************)
EXTENDS Gateway, SequenceTheorems, TLAPS

LEMMA InitInv == Init => LifecycleInv
<1> SUFFICES ASSUME Init PROVE LifecycleInv
  OBVIOUS
<1> USE DEF Init
<1>1. TypeOK
  <2>1. results \in Seq(Result) /\ Len(results) = 0
    BY EmptySeq
  <2>2. run \in [Servers -> {"starting", "serving", "broken", "ended"}]
    OBVIOUS
  <2>3. call \in [Calls -> {"none", "active", "upgraded", "cancelled", "done",
                           "aborted"}]
    OBVIOUS
  <2>4. Len(results) <= 2
    BY <2>1
  <2> QED
    BY <2>1, <2>2, <2>3, <2>4 DEF TypeOK
<1>2. ResultsTrue
  BY DEF ResultsTrue
<1>3. Progress
  BY ServersAssumption DEF Progress, Of
<1> QED
  BY <1>1, <1>2, <1>3 DEF LifecycleInv

-----------------------------------------------------------------------------
(***************************************************************************)
(* The results channel.                                                    *)
(***************************************************************************)
\* A Run goroutine reports its own end once, so there is room for it.
LEMMA ReportKeeps ==
  ASSUME TypeOK, ResultsTrue, NEW s \in Servers, NEW broke \in BOOLEAN,
         run[s] \in {"starting", "serving"}, Report(s, broke),
         run' = [run EXCEPT ![s] = IF broke THEN "broken" ELSE "ended"],
         UNCHANGED <<received, errs>>
  PROVE  /\ results' \in Seq(Result) /\ Len(results') <= 2
         /\ ResultsTrue'
<1> DEFINE r == [name |-> s, failed |-> broke]
           n == Len(results)
<1>1. results \in Seq(Result) /\ n \in Nat /\ r \in Result
  BY LenProperties DEF TypeOK, Result
<1>2. results' = Append(results, r)
  BY DEF Report
<1>3. /\ results' \in Seq(Result) /\ Len(results') = n + 1
      /\ results'[n + 1] = r
      /\ \A i \in 1..n : results'[i] = results[i]
  BY <1>1, <1>2, AppendProperties
<1>4. \A i \in 1..n : results[i] \in Result /\ results[i].name # s
  <2>1. \A i \in 1..n : results[i] \in Result
    BY <1>1, ElementOfSeq
  <2>2. \A i \in 1..n : run[results[i].name] \in {"broken", "ended"}
    BY DEF ResultsTrue
  <2> QED
    BY <2>1, <2>2
<1>5. ResultsTrue'
  <2>1. \A i \in 1..Len(results') :
          run'[results'[i].name] = IF results'[i].failed THEN "broken" ELSE "ended"
    <3> SUFFICES ASSUME NEW i \in 1..(n + 1)
                 PROVE  run'[results'[i].name]
                          = IF results'[i].failed THEN "broken" ELSE "ended"
      BY <1>3
    <3>1. CASE i = n + 1
      <4>1. results'[i].name = s /\ results'[i].failed = broke
        BY <1>3, <3>1
      <4>2. run'[s] = IF broke THEN "broken" ELSE "ended"
        BY DEF TypeOK
      <4> QED
        BY <4>1, <4>2
    <3>2. CASE i \in 1..n
      <4>1. results'[i] = results[i] /\ results[i].name \in Servers \ {s}
        BY <1>3, <1>4, <3>2 DEF Result
      <4>2. run'[results[i].name] = run[results[i].name]
        BY <4>1 DEF TypeOK
      <4> QED
        BY <3>2, <4>1, <4>2 DEF ResultsTrue
    <3> QED
      BY <1>1, <3>1, <3>2
  <2>2. \A i \in 1..Len(results') : "wait" \notin errs => results'[i].name \notin received
    BY <1>1, <1>3, <1>4 DEF ResultsTrue
  <2>3. \A i, j \in 1..Len(results') : results'[i].name = results'[j].name => i = j
    BY <1>1, <1>3, <1>4 DEF ResultsTrue
  <2>4. \A x \in received : \/ run'[x] = "ended"
                            \/ run'[x] = "broken" /\ errs # {}
                            \/ "wait" \in errs
    BY DEF ResultsTrue, TypeOK
  <2> QED
    BY <2>1, <2>2, <2>3, <2>4 DEF ResultsTrue
<1>6. n <= 1
  <2> SUFFICES ASSUME n >= 2 PROVE FALSE
    BY <1>1
  <2>1. 1 \in 1..n /\ 2 \in 1..n
    BY <1>1
  <2>2. results[1].name # results[2].name
    BY <2>1 DEF ResultsTrue
  <2>3. {results[1].name, results[2].name, s} \subseteq {"http", "grpc"}
    BY <1>1, <1>4, <2>1, ServersAssumption DEF Result
  <2> QED
    BY <1>4, <2>1, <2>2, <2>3
<1> QED
  BY <1>1, <1>3, <1>5, <1>6

\* Receiving leaves the rest of the channel, and notes a failure.
LEMMA ReceiveKeeps ==
  ASSUME TypeOK, ResultsTrue, results # <<>>, results' = Tail(results),
         received' = received \cup {Head(results).name},
         errs \subseteq errs', "wait" \in errs' => "wait" \in errs,
         Head(results).failed => errs' # {}, UNCHANGED run
  PROVE  /\ results' \in Seq(Result) /\ Len(results') <= 2
         /\ received' \in SUBSET Servers /\ Head(results) \in Result
         /\ ResultsTrue'
<1> DEFINE n == Len(results)
<1>1. results \in Seq(Result) /\ n \in Nat /\ n >= 1 /\ n <= 2
  <2>1. results \in Seq(Result) /\ n <= 2
    BY DEF TypeOK
  <2>2. n \in Nat \ {0}
    BY <2>1, EmptySeq
  <2> QED
    BY <2>1, <2>2
<1>2. /\ Head(results) = results[1] /\ Head(results) \in Result
      /\ results' \in Seq(Result) /\ Len(results') = n - 1
      /\ \A i \in 1..(n - 1) : results'[i] = results[i + 1]
  BY <1>1, HeadTailProperties
<1>3. \A i \in 1..(n - 1) : i + 1 \in 1..n /\ i + 1 # 1
  BY <1>1
<1>4. 1 \in 1..n
  BY <1>1
<1>5. \A i \in 1..Len(results') :
        /\ run'[results'[i].name] = IF results'[i].failed THEN "broken" ELSE "ended"
        /\ results'[i].name # results[1].name
        /\ "wait" \notin errs => results'[i].name \notin received
  BY <1>1, <1>2, <1>3, <1>4 DEF ResultsTrue
<1>6. \A i, j \in 1..Len(results') : results'[i].name = results'[j].name => i = j
  BY <1>1, <1>2, <1>3 DEF ResultsTrue
<1>7. \A x \in received' : \/ run'[x] = "ended"
                           \/ run'[x] = "broken" /\ errs' # {}
                           \/ "wait" \in errs'
  BY <1>2, <1>4 DEF ResultsTrue
<1>8. /\ results' \in Seq(Result) /\ Len(results') <= 2
      /\ received' \in SUBSET Servers /\ Head(results) \in Result
  <2>1. Head(results).name \in Servers
    BY <1>2 DEF Result
  <2>2. received' \in SUBSET Servers
    BY <2>1 DEF TypeOK
  <2> QED
    BY <1>1, <1>2, <2>2
<1>9. \A i \in 1..Len(results') : "wait" \notin errs' => results'[i].name \notin received'
  BY <1>2, <1>5
<1>10. ResultsTrue'
  BY <1>5, <1>6, <1>7, <1>9 DEF ResultsTrue
<1> QED
  BY <1>8, <1>10

LEMMA ResultsKeep ==
  ASSUME ResultsTrue, UNCHANGED <<run, results, received, errs>>
  PROVE  ResultsTrue'
BY DEF ResultsTrue

-----------------------------------------------------------------------------
(***************************************************************************)
(* Every action keeps the inductive invariant.                             *)
(***************************************************************************)
LEMMA StepInv == LifecycleInv /\ [Next]_vars => LifecycleInv'
<1> SUFFICES ASSUME LifecycleInv, [Next]_vars PROVE LifecycleInv'
  OBVIOUS
<1> USE ServersAssumption DEF LifecycleInv
<1>1. CASE Signal
  BY <1>1, ResultsKeep DEF Signal, TypeOK, Progress, servers
<1>2. CASE Expire
  BY <1>2, ResultsKeep DEF Expire, TypeOK, Progress, servers
<1>3. CASE GracefulStopReturns
  BY <1>3, ResultsKeep DEF GracefulStopReturns, TypeOK, Progress
<1>4. CASE OnSignal
  BY <1>4, ResultsKeep DEF OnSignal, StartShutdown, TypeOK, Progress
<1>5. CASE OnResult
  <2>1. errs' # {} /\ errs \subseteq errs'
    BY <1>5 DEF OnResult
  <2>0. Head(results) \in Result
    BY <1>5, HeadTailProperties DEF OnResult, TypeOK
  <2>2. errs' \subseteq errs \cup Servers \cup {"unexpected"}
    BY <1>5, <2>0 DEF OnResult, Result
  <2>3. /\ results' \in Seq(Result) /\ Len(results') <= 2
        /\ received' \in SUBSET Servers /\ Head(results) \in Result
        /\ ResultsTrue'
    BY <1>5, <2>1, <2>2, ReceiveKeeps DEF OnResult
  <2>4. TypeOK'
    BY <1>5, <2>3 DEF OnResult, StartShutdown, TypeOK, Errors, Result
  <2>5. Progress'
    BY <1>5, <2>1, <2>2 DEF OnResult, StartShutdown, Progress
  <2> QED
    BY <2>3, <2>4, <2>5
<1>6. CASE HttpDrained
  BY <1>6, ResultsKeep DEF HttpDrained, NextShutdown, TypeOK, Progress
<1>7. CASE HttpGivesUp
  <2>1. /\ phase = "http shutdown" /\ expired
        /\ phase' \in {"grpc shutdown", "wait"}
        /\ phase' = "grpc shutdown" <=> "grpc" \in Servers
        /\ closing' \subseteq Servers /\ errs' = errs \cup {"http shutdown"}
        /\ UNCHANGED <<signalled, expired, run, closed, stopped, results,
                       received, call>>
    BY <1>7 DEF HttpGivesUp, NextShutdown, TypeOK
  <2>2. TypeOK'
    BY <2>1 DEF TypeOK, Errors
  <2>3. ResultsTrue'
    BY <2>1 DEF ResultsTrue
  <2>4. Progress'
    BY <2>1 DEF Progress
  <2> QED
    BY <2>2, <2>3, <2>4
<1>8. CASE GrpcDrained
  BY <1>8, ResultsKeep DEF GrpcDrained, TypeOK, Progress, servers
<1>9. CASE GrpcStop
  BY <1>9, ResultsKeep DEF GrpcStop, TypeOK, Progress, Of
<1>10. CASE GrpcStopped
  BY <1>10 DEF GrpcStopped, TypeOK, Progress, ResultsTrue, Errors, servers
<1>11. CASE Collect
  <2>1. Head(results) \in Result
    BY <1>11, HeadTailProperties DEF Collect, TypeOK
  <2>2. /\ errs \subseteq errs' /\ errs' \subseteq errs \cup Servers
        /\ Head(results).failed => errs' # {}
    BY <1>11, <2>1 DEF Collect, Result
  <2>3. /\ results' \in Seq(Result) /\ Len(results') <= 2
        /\ received' \in SUBSET Servers /\ ResultsTrue'
    BY <1>11, <2>2, ReceiveKeeps DEF Collect, servers
  <2>4. TypeOK'
    BY <1>11, <2>2, <2>3 DEF Collect, TypeOK, Errors, servers
  <2>5. Progress'
    BY <1>11, <2>2 DEF Collect, Progress, servers
  <2> QED
    BY <2>3, <2>4, <2>5
<1>12. CASE CollectGivesUp
  BY <1>12 DEF CollectGivesUp, TypeOK, Progress, ResultsTrue, Errors, servers
<1>13. CASE Exit
  BY <1>13, ResultsKeep DEF Exit, TypeOK, Progress, servers
<1>14. ASSUME NEW s \in Servers, Listen(s) PROVE LifecycleInv'
  <2>1. run' = [run EXCEPT ![s] = "serving"] /\ run[s] = "starting"
        /\ UNCHANGED <<phase, signalled, expired, closing, closed, stopped,
                       results, received, errs, call>>
    BY <1>14 DEF Listen
  <2>2. TypeOK' /\ Progress'
    BY <2>1 DEF TypeOK, Progress
  <2>3. \A i \in 1..Len(results) : results[i].name # s
    BY <2>1 DEF ResultsTrue
  <2>4. ResultsTrue'
    <3>1. \A x \in Servers \ {s} : run'[x] = run[x]
      BY <2>1 DEF TypeOK
    <3>2. \A i \in 1..Len(results) : results[i].name \in Servers
      <4>1. results \in Seq(Result)
        BY DEF TypeOK
      <4>2. \A i \in 1..Len(results) : results[i] \in Result
        BY <4>1, ElementOfSeq
      <4> QED
        BY <4>2 DEF Result
    <3>3. s \in received => "wait" \in errs
      BY <2>1 DEF ResultsTrue
    <3> QED
      BY <2>1, <2>3, <3>1, <3>2, <3>3 DEF ResultsTrue, TypeOK
  <2> QED
    BY <2>2, <2>4
<1>15. ASSUME NEW s \in Servers, ListenFails(s) PROVE LifecycleInv'
  <2>1. /\ results' \in Seq(Result) /\ Len(results') <= 2 /\ ResultsTrue'
    BY <1>15, ReportKeeps DEF ListenFails
  <2> QED
    BY <1>15, <2>1 DEF ListenFails, TypeOK, Progress
<1>16. ASSUME NEW s \in Servers, ServeReturns(s) PROVE LifecycleInv'
  <2>1. /\ results' \in Seq(Result) /\ Len(results') <= 2 /\ ResultsTrue'
    BY <1>16, ReportKeeps DEF ServeReturns
  <2> QED
    BY <1>16, <2>1 DEF ServeReturns, TypeOK, Progress
<1>17. ASSUME NEW s \in Servers, ServeFails(s) PROVE LifecycleInv'
  <2>1. /\ results' \in Seq(Result) /\ Len(results') <= 2 /\ ResultsTrue'
    BY <1>17, ReportKeeps DEF ServeFails
  <2> QED
    BY <1>17, <2>1 DEF ServeFails, TypeOK, Progress
<1>18. ASSUME NEW c \in Calls, Begin(c) PROVE LifecycleInv'
  BY <1>18, ResultsKeep DEF Begin, TypeOK, Progress, Of, servers
<1>19. ASSUME NEW c \in Calls, Upgrade(c) PROVE LifecycleInv'
  BY <1>19, ResultsKeep DEF Upgrade, TypeOK, Progress, Of, servers
<1>20. ASSUME NEW c \in Calls, Finish(c) PROVE LifecycleInv'
  BY <1>20, ResultsKeep DEF Finish, TypeOK, Progress, Of, servers
<1>21. ASSUME NEW c \in Calls, Abort(c) PROVE LifecycleInv'
  BY <1>21, ResultsKeep DEF Abort, TypeOK, Progress, Of, servers
<1>22. CASE UNCHANGED vars
  BY <1>22, ResultsKeep DEF vars, TypeOK, Progress
<1> QED
  BY <1>1, <1>2, <1>3, <1>4, <1>5, <1>6, <1>7, <1>8, <1>9, <1>10, <1>11,
     <1>12, <1>13, <1>14, <1>15, <1>16, <1>17, <1>18, <1>19, <1>20, <1>21,
     <1>22 DEF Next, Main, Run

\* The inductive invariant holds in every state: each server's one result is
\* accounted for, and each step of the shutdown that is behind was complete.
THEOREM Invariant == Spec => []LifecycleInv
<1> QED
  BY InitInv, StepInv, PTL DEF Spec

-----------------------------------------------------------------------------
(***************************************************************************)
(* Every variable keeps its type, and the channel its capacity of two.     *)
(***************************************************************************)
THEOREM TypeCorrect == Spec => []TypeOK
<1>1. LifecycleInv => TypeOK
  BY DEF LifecycleInv
<1> QED
  BY Invariant, <1>1, PTL

\* What LifecycleInv says of the moment of the exit.
LEMMA Graceful == LifecycleInv => GracefulExit
<1> SUFFICES ASSUME LifecycleInv, phase = "exited", errs = {}
             PROVE  /\ signalled
                    /\ \A s \in Servers : run[s] = "ended"
                    /\ \A c \in Calls : call[c] \in {"none", "done", "upgraded"}
  BY DEF GracefulExit
<1>1. signalled /\ \A s \in Servers : run[s] = "ended"
  BY DEF LifecycleInv, Progress, ResultsTrue
<1>2. ASSUME NEW c \in Calls PROVE call[c] # "active"
  <2>1. CASE ServerOf[c] = "http"
    BY <2>1 DEF LifecycleInv, Progress, Of
  <2>2. CASE ServerOf[c] = "grpc"
    BY <2>2, ServersAssumption DEF LifecycleInv, Progress, Of
  <2> QED
    BY <2>1, <2>2, ServersAssumption
<1>3. \A c \in Calls : call[c] \notin {"cancelled", "aborted"}
  BY DEF LifecycleInv, Progress
<1> QED
  BY <1>1, <1>2, <1>3 DEF LifecycleInv, TypeOK

LEMMA Ended == LifecycleInv => HandlersBeforeRegistry
  BY ServersAssumption DEF LifecycleInv, Progress, HandlersBeforeRegistry, Of

LEMMA Grace == LifecycleInv => GraceUntilDeadline
  BY ServersAssumption DEF LifecycleInv, Progress, GraceUntilDeadline, Of

(***************************************************************************)
(* The process says it stopped gracefully only when it did, for any calls. *)
(***************************************************************************)
THEOREM GracefulIsTrue == Spec => []GracefulExit
  BY Invariant, Graceful, PTL

(***************************************************************************)
(* No gRPC handler is left when the upstream connections are closed.       *)
(***************************************************************************)
THEOREM HandlersEndFirst == Spec => []HandlersBeforeRegistry
  BY Invariant, Ended, PTL

(***************************************************************************)
(* No call is cut before the deadline, upgraded connections excepted.      *)
(***************************************************************************)
THEOREM GraceIsGiven == Spec => []GraceUntilDeadline
  BY Invariant, Grace, PTL

-----------------------------------------------------------------------------
(***************************************************************************)
(* Startup.  Nothing leaks because what is open always has an owner        *)
(* (Owned): the loop of upstream.New, or a deferred call that has not run. *)
(* Routes lead somewhere because every step leaves the next one what it    *)
(* needs (Prepared), from validate on.                                     *)
(***************************************************************************)
(***************************************************************************)
(* The stack of deferred calls.                                            *)
(***************************************************************************)
LEMMA InAppend ==
  ASSUME NEW S, NEW s \in Seq(S), NEW x \in S, NEW y
  PROVE  In(y, Append(s, x)) <=> In(y, s) \/ y = x
  <1>1. /\ DOMAIN Append(s, x) = 1..(Len(s) + 1) /\ DOMAIN s = 1..Len(s)
        /\ \A i \in 1..Len(s) : Append(s, x)[i] = s[i]
        /\ Append(s, x)[Len(s) + 1] = x /\ Len(s) \in Nat
    OBVIOUS
  <1>2. QED
    BY <1>1 DEF In

LEMMA InFront ==
  ASSUME NEW S, NEW s \in Seq(S), s # <<>>
  PROVE  /\ SubSeq(s, 1, Len(s) - 1) \in Seq(S)
         /\ \A y : In(y, s) /\ y # s[Len(s)] => In(y, SubSeq(s, 1, Len(s) - 1))
  <1> DEFINE front == SubSeq(s, 1, Len(s) - 1)
  <1>1. Len(s) \in Nat \ {0} /\ DOMAIN s = 1..Len(s)
    BY EmptySeq
  <1>2. /\ front \in Seq(S)
        /\ DOMAIN front = 1..(Len(s) - 1)
        /\ \A i \in 1..(Len(s) - 1) : front[i] = s[i]
    BY <1>1
  <1> HIDE DEF front
  <1>3. ASSUME NEW y, NEW i \in DOMAIN s, s[i] = y, y # s[Len(s)]
        PROVE  i \in DOMAIN front /\ front[i] = y
    BY <1>1, <1>2, <1>3
  <1>4. \A y : In(y, s) /\ y # s[Len(s)] => In(y, front)
    BY <1>3 DEF In
  <1>5. QED
    BY <1>2, <1>4 DEF front

-----------------------------------------------------------------------------
LEMMA StartupInitInv == StartupInit => StartupInv
  <1> SUFFICES ASSUME StartupInit PROVE StartupInv
    OBVIOUS
  <1>1. StartupTypeOK
    <2>1. <<>> \in Seq({"registry", "idle", "redis"})
      OBVIOUS
    <2>2. [u \in Upstreams |-> "none"] \in [Upstreams -> {"none", "open", "closed"}]
      OBVIOUS
    <2>3. QED
      BY <2>1, <2>2 DEF StartupInit, StartupTypeOK
  <1>2. Owned
    BY DEF StartupInit, Owned
  <1>3. Prepared
    BY DEF StartupInit, Prepared
  <1>4. QED
    BY <1>1, <1>2, <1>3 DEF StartupInv

\* The upstreams of a configuration are upstreams.
LEMMA ConfigType ==
  ASSUME StartupTypeOK
  PROVE  /\ config.grpc \in Seq(Upstreams) /\ config.http \in Seq(Upstreams)
         /\ \A i \in 1..Len(config.grpc) : config.grpc[i] \in Upstreams
         /\ \A i \in DOMAIN config.grpc : config.grpc[i] \in Upstreams
         /\ \A i \in DOMAIN config.http : config.http[i] \in Upstreams
  <1>1. config \in Config
    BY StartupAssumption DEF StartupTypeOK
  <1>2. config.grpc \in Seq(Upstreams) /\ config.http \in Seq(Upstreams)
    BY <1>1 DEF Config
  <1>3. QED
    BY <1>2

LEMMA StartupStepInv == StartupInv /\ [StartupNext]_startup => StartupInv'
  <1> SUFFICES ASSUME StartupInv, [StartupNext]_startup PROVE StartupInv'
    OBVIOUS
  <1> USE DEF StartupInv
  <1>1. CASE Load
    <2>1. StartupTypeOK'
      BY <1>1 DEF Load, Fail, Goto, StartupTypeOK
    <2>2. Owned'
      BY <1>1 DEF Load, Fail, Goto, Owned
    <2>3. Prepared'
      BY <1>1 DEF Load, Fail, Goto, Prepared, StartupTypeOK
    <2>4. QED
      BY <2>1, <2>2, <2>3
  <1>2. CASE Connect
    <2> DEFINE name == config.grpc[turn + 1]
    <2>0. /\ step = "connect" /\ turn \in Nat /\ turn < Len(config.grpc)
          /\ turn' = turn + 1 /\ Len(config.grpc) \in Nat
          /\ UNCHANGED <<config, handlers, redis, checks, defers>>
      BY <1>2, ConfigType DEF Connect, StartupTypeOK
    <2>1. name \in Upstreams
      BY <2>0, ConfigType
    <2>2. CASE name \in registry \/ name \in config.refused
      <3>1. conn' = Closed(registry) /\ registry' = {} /\ step' = "returning" /\ failed' = TRUE
        BY <1>2, <2>2 DEF Connect, Fail
      <3>2. StartupTypeOK'
        BY <2>0, <3>1 DEF StartupTypeOK, Closed
      <3>3. Owned'
        BY <2>0, <3>1 DEF Owned, Closed, StartupTypeOK, In
      <3>4. QED
        BY <3>1, <3>2, <3>3 DEF Prepared
    <2>3. CASE ~(name \in registry \/ name \in config.refused)
      <3>1. /\ conn' = [conn EXCEPT ![name] = "open"] /\ registry' = registry \cup {name}
            /\ UNCHANGED <<step, failed>>
        BY <1>2, <2>3 DEF Connect
      <3>2. StartupTypeOK'
        BY <2>0, <2>1, <3>1 DEF StartupTypeOK
      <3>3. Owned'
        BY <2>0, <2>1, <3>1 DEF Owned, StartupTypeOK, In
      <3>4. \A i \in 1..turn' : config.grpc[i] \in registry'
        BY <2>0, <3>1 DEF Prepared
      <3>5. Prepared'
        BY <2>0, <3>1, <3>4 DEF Prepared
      <3>6. QED
        BY <3>2, <3>3, <3>5
    <2>4. QED
      BY <2>2, <2>3
  <1>3. CASE Connected
    <2>0. /\ step' = "http" /\ defers' = Append(defers, "registry") /\ turn = Len(config.grpc)
          /\ UNCHANGED <<config, turn, conn, registry, handlers, redis, checks, failed>>
      BY <1>3 DEF Connected, Goto
    <2>1. StartupTypeOK'
      BY <2>0 DEF StartupTypeOK
    <2>2. \A y : In(y, defers) => In(y, defers')
      BY <2>0, InAppend DEF StartupTypeOK
    <2>3. In("registry", defers')
      BY <2>0, InAppend DEF StartupTypeOK
    <2>4. Owned'
      BY <2>0, <2>2, <2>3 DEF Owned
    <2>5. Prepared'
      BY <1>3, <2>0, ConfigType DEF Connected, Prepared
    <2>6. QED
      BY <2>1, <2>4, <2>5
  <1>4. CASE NewHTTP
    <2>1. CASE \E u \in config.malformed : In(u, config.http)
      <3>0. step' = "returning" /\ UNCHANGED <<config, turn, conn, registry, handlers, redis, checks, defers>>
            /\ failed' = TRUE /\ step = "http"
        BY <1>4, <2>1 DEF NewHTTP, Fail
      <3>1. StartupTypeOK'
        BY <3>0 DEF StartupTypeOK
      <3>2. Owned' /\ Prepared'
        BY <3>0 DEF Owned, Prepared, In
      <3>3. QED
        BY <3>1, <3>2
    <2>2. CASE ~\E u \in config.malformed : In(u, config.http)
      <3>0. /\ step = "http" /\ step' = "httpTable" /\ defers' = Append(defers, "idle")
            /\ handlers' = {u \in Upstreams : In(u, config.http)}
            /\ UNCHANGED <<config, turn, conn, registry, redis, checks, failed>>
        BY <1>4, <2>2 DEF NewHTTP, Goto
      <3>1. StartupTypeOK'
        BY <3>0 DEF StartupTypeOK
      <3>2. \A y : In(y, defers) => In(y, defers')
        BY <3>0, InAppend DEF StartupTypeOK
      <3>3. Owned'
        BY <3>0, <3>2 DEF Owned
      <3>4. \A i \in DOMAIN config.http : config.http[i] \in handlers'
        BY <3>0, ConfigType DEF In
      <3>5. Prepared'
        BY <3>0, <3>4 DEF Prepared
      <3>6. QED
        BY <3>1, <3>3, <3>5
    <2>3. QED
      BY <2>1, <2>2
  <1>5. CASE HttpTable \/ GrpcTable
    BY <1>5 DEF HttpTable, GrpcTable, Fail, Goto, StartupTypeOK, Owned, Prepared, In
  <1>6. CASE NewLimiter
    <2>0. /\ step = "limiter"
          /\ UNCHANGED <<config, turn, conn, registry, handlers, checks>>
      BY <1>6 DEF NewLimiter
    <2>1. CASE ~config.limiter
      <3>1. UNCHANGED <<redis, defers>> /\ step' = "readiness" /\ failed' = failed
        BY <1>6, <2>1 DEF NewLimiter, Goto
      <3>2. StartupTypeOK'
        BY <2>0, <3>1 DEF StartupTypeOK
      <3>3. Owned' /\ Prepared'
        BY <2>0, <2>1, <3>1 DEF Owned, Prepared, In
      <3>4. QED
        BY <3>2, <3>3
    <2>2. CASE config.limiter
      <3>0. ~RefillRefused(config)
        BY <2>0, <2>2 DEF Prepared, Valid
      <3>1. /\ redis' = "open" /\ defers' = Append(defers, "redis")
            /\ step' = "readiness" /\ failed' = failed
        BY <1>6, <2>2, <3>0 DEF NewLimiter, Goto
      <3>2. StartupTypeOK'
        BY <2>0, <3>1 DEF StartupTypeOK
      <3>3. (\A y : In(y, defers) => In(y, defers')) /\ In("redis", defers')
        BY <3>1, InAppend DEF StartupTypeOK
      <3>4. Owned' /\ Prepared'
        BY <2>0, <3>1, <3>3 DEF Owned, Prepared
      <3>5. QED
        BY <3>2, <3>4
    <2>3. QED
      BY <2>1, <2>2
  <1>7. CASE NewReadiness
    <2>0. /\ step = "readiness" /\ step' \in {"serving", "returning"}
          /\ checks' = {u \in Upstreams : In(u, config.grpc)}
                       \cup (IF redis = "open" THEN {"redis"} ELSE {})
          /\ UNCHANGED <<config, turn, conn, registry, handlers, redis, defers>>
      BY <1>7 DEF NewReadiness, Goto, Fail
    <2>1. StartupTypeOK'
      BY <1>7, <2>0 DEF NewReadiness, Goto, Fail, StartupTypeOK
    <2>2. Owned'
      BY <2>0 DEF Owned, In
    <2>3. \A i \in DOMAIN config.grpc : config.grpc[i] \in checks'
      BY <2>0, ConfigType DEF In
    <2>4. Prepared'
      BY <2>0, <2>3 DEF Prepared
    <2>5. QED
      BY <2>1, <2>2, <2>4
  <1>8. CASE ServersReturn
    BY <1>8 DEF ServersReturn, StartupTypeOK, Owned, Prepared, In
  <1>9. CASE Deferred
    <2> DEFINE last == defers[Len(defers)]
    <2>0. /\ step = "returning" /\ defers # <<>> /\ defers \in Seq({"registry", "idle", "redis"})
          /\ defers' = SubSeq(defers, 1, Len(defers) - 1)
          /\ UNCHANGED <<config, step, turn, handlers, checks, failed>>
          /\ redis' = IF last = "redis" THEN "closed" ELSE redis
          /\ IF last = "registry"
             THEN conn' = Closed(registry) /\ registry' = {}
             ELSE UNCHANGED <<conn, registry>>
      BY <1>9 DEF Deferred, StartupTypeOK
    <2> HIDE DEF last
    <2>1. defers' \in Seq({"registry", "idle", "redis"})
      BY <2>0, InFront
    <2>2. \A y : In(y, defers) /\ y # last => In(y, defers')
      BY <2>0, InFront DEF last
    <2>3. StartupTypeOK'
      BY <2>0, <2>1 DEF StartupTypeOK, Closed
    <2>4. Owned'
      <3>1. CASE last = "registry"
        BY <2>0, <2>2, <3>1 DEF Owned, Closed, StartupTypeOK
      <3>2. CASE last # "registry"
        BY <2>0, <2>2, <3>2 DEF Owned
      <3>3. QED
        BY <3>1, <3>2
    <2>5. Prepared'
      BY <2>0 DEF Prepared
    <2>6. QED
      BY <2>3, <2>4, <2>5
  <1>10. CASE Leave
    BY <1>10 DEF Leave, StartupTypeOK, Owned, Prepared, In
  <1>11. CASE UNCHANGED startup
    BY <1>11 DEF startup, StartupTypeOK, Owned, Prepared, In
  <1>12. QED
    BY <1>1, <1>2, <1>3, <1>4, <1>5, <1>6, <1>7, <1>8, <1>9, <1>10, <1>11 DEF StartupNext

\* The strengthening holds in every state: what is open has an owner, and each
\* step of run finds what it needs.
THEOREM StartupInvariant == StartupSpec => []StartupInv
  BY StartupInitInv, StartupStepInv, PTL DEF StartupSpec

\* Whichever step fails, run leaves nothing open.
THEOREM LeavesNothingOpen == StartupSpec => []NothingLeaks
  <1>1. StartupInv => NothingLeaks
    BY DEF StartupInv, Owned, NothingLeaks, In
  <1>2. QED
    BY StartupInvariant, <1>1, PTL

\* While the servers run, every route leads to an upstream that is there.
THEOREM EveryRouteLeads == StartupSpec => []RoutesLead
  <1>1. StartupInv => RoutesLead
    <2> SUFFICES ASSUME StartupInv, step = "serving" PROVE RoutesLead
      BY DEF RoutesLead
    <2>1. Valid(config) /\ Owned /\ Prepared
      BY DEF StartupInv, Prepared
    <2>2. ASSUME NEW i \in DOMAIN config.httpRoutes
          PROVE  config.httpRoutes[i].upstream \in handlers
      BY <2>1 DEF Valid, In, Prepared
    <2>3. ASSUME NEW i \in DOMAIN config.grpcRoutes
          PROVE  config.grpcRoutes[i].upstream \in registry \cap checks
      BY <2>1 DEF Valid, In, Prepared
    <2>4. registry \subseteq Upstreams
      BY DEF StartupInv, StartupTypeOK
    <2>5. QED
      BY <2>1, <2>2, <2>3, <2>4 DEF RoutesLead, Owned, Prepared
  <1>2. QED
    BY StartupInvariant, <1>1, PTL

-----------------------------------------------------------------------------
(***************************************************************************)
(* The two parts together.                                                 *)
(***************************************************************************)
\* Whatever the process does is a step of Startup, or none.
LEMMA StartupRefined == [GatewayNext]_allVars => [StartupNext]_startup
<1> SUFFICES ASSUME [GatewayNext]_allVars PROVE [StartupNext]_startup
  OBVIOUS
<1>1. CASE Build
  BY <1>1 DEF Build, StartupNext
<1>2. CASE Serve(Next)
  BY <1>2 DEF Serve
<1>3. CASE Return
  BY <1>3 DEF Return, StartupNext
<1>4. CASE Close
  BY <1>4 DEF Close, StartupNext
<1>5. ASSUME NEW c \in Calls, Outlive(c) \/ Use(c) PROVE UNCHANGED startup
  BY <1>5 DEF Outlive, Use
<1>6. CASE UNCHANGED allVars
  BY <1>6 DEF allVars
<1> QED
  BY <1>1, <1>2, <1>3, <1>4, <1>5, <1>6 DEF GatewayNext

\* A handler that outlives the shutdown, or begins behind it on a connection
\* that the shutdown gave up on, breaks nothing that Lifecycle knows.
LEMMA OutliveKeeps ==
  ASSUME LifecycleInv, NEW c \in Calls, Outlive(c)
  PROVE  LifecycleInv'
<1>1. /\ phase = "exited"
      /\ UNCHANGED <<phase, signalled, expired, run, closing, closed, stopped,
                     results, received, errs>>
      /\ \/ OpenTo(c) /\ call' = [call EXCEPT ![c] = "active"]
         \/ call[c] \in {"active", "upgraded"} /\ call' = [call EXCEPT ![c] = "done"]
  BY DEF Outlive
<1>2. TypeOK'
  BY <1>1 DEF LifecycleInv, TypeOK
<1>3. ResultsTrue'
  BY <1>1, ResultsKeep DEF LifecycleInv
<1>4. Progress'
  <2>1. CASE OpenTo(c) /\ call' = [call EXCEPT ![c] = "active"]
    BY <1>1, <2>1, ServersAssumption DEF OpenTo, LifecycleInv, TypeOK, Progress, Of
  <2>2. CASE call[c] \in {"active", "upgraded"} /\ call' = [call EXCEPT ![c] = "done"]
    BY <1>1, <2>2, ServersAssumption DEF LifecycleInv, TypeOK, Progress, Of
  <2> QED
    BY <1>1, <2>1, <2>2
<1> QED
  BY <1>2, <1>3, <1>4 DEF LifecycleInv

LEMMA LifecycleKept == LifecycleInv /\ [GatewayNext]_allVars => LifecycleInv'
<1> SUFFICES ASSUME LifecycleInv, [GatewayNext]_allVars PROVE LifecycleInv'
  OBVIOUS
<1>1. CASE Build \/ Return \/ Close \/ \E c \in Calls : Use(c)
  <2>1. UNCHANGED vars
    BY <1>1 DEF Build, Return, Close, Use
  <2> QED
    BY <2>1, StepInv
<1>2. CASE Serve(Next)
  BY <1>2, StepInv DEF Serve
<1>3. ASSUME NEW c \in Calls, Outlive(c) PROVE LifecycleInv'
  BY <1>3, OutliveKeeps
<1>4. CASE UNCHANGED allVars
  <2>1. UNCHANGED vars
    BY <1>4 DEF allVars
  <2> QED
    BY <2>1, StepInv
<1> QED
  BY <1>1, <1>2, <1>3, <1>4 DEF GatewayNext

\* Only upstream.New, when it fails, and the deferred calls close anything;
\* NewRedisLimiter refuses nothing that validate has let pass.
LEMMA BuildKeepsOpen ==
  ASSUME StartupInv, Together, Build
  PROVE  step' \notin {"returning", "exited"} =>
           redis' # "closed" /\ \A u \in Upstreams : conn'[u] # "closed"
<1> SUFFICES ASSUME step' \notin {"returning", "exited"}
             PROVE  redis' # "closed" /\ \A u \in Upstreams : conn'[u] # "closed"
  OBVIOUS
<1>1. step \notin {"returning", "exited"}
  BY DEF Build, Load, Connect, Connected, NewHTTP, HttpTable, GrpcTable,
         NewLimiter, NewReadiness
<1>2. redis # "closed" /\ \A u \in Upstreams : conn[u] # "closed"
  BY <1>1 DEF Together
<1>3. CASE Connect
  BY <1>2, <1>3 DEF Connect, Fail, StartupInv, StartupTypeOK
<1>4. CASE NewLimiter
  BY <1>2, <1>4 DEF NewLimiter, Fail
<1>5. CASE Load \/ Connected \/ NewHTTP \/ HttpTable \/ GrpcTable \/ NewReadiness
  BY <1>2, <1>5 DEF Load, Connected, NewHTTP, HttpTable, GrpcTable, NewReadiness
<1> QED
  BY <1>3, <1>4, <1>5 DEF Build

\* The handler of call c meets something closed only behind the servers'
\* return, and then it is one of HTTP that the deadline found running.
LEMMA MeetsOnlyLate ==
  ASSUME StartupInv, LifecycleInv, Together, NEW c \in Calls, Use(c)
  PROVE  /\ phase = "exited" /\ step = "returning"
         /\ ServerOf[c] = "http" /\ "http shutdown" \in errs /\ failed
<1>1. /\ step # "exited" /\ call[c] \in {"active", "cancelled"}
      /\ ClosedTo(c) # {}
  BY DEF Use, Running
<1>2. step = "serving" \/ phase = "exited"
  <2>1. SUFFICES ASSUME Init PROVE FALSE
    BY DEF Together
  <2>2. call[c] = "none"
    BY <2>1 DEF Init
  <2> QED
    BY <1>1, <2>2
<1>3. step = "returning"
  <2>1. SUFFICES ASSUME step = "serving" PROVE FALSE
    BY <1>1, <1>2 DEF Together
  <2>2. redis # "closed" /\ \A u \in Upstreams : conn[u] # "closed"
    BY <2>1 DEF Together
  <2>3. ClosedTo(c) = {}
    BY <2>1, <2>2 DEF ClosedTo
  <2> QED
    BY <1>1, <2>3
<1>4. phase = "exited"
  BY <1>2, <1>3
<1>5. ServerOf[c] = "http"
  <2>1. SUFFICES ASSUME ServerOf[c] = "grpc" PROVE FALSE
    BY ServersAssumption
  <2>2. "grpc" \in Servers
    BY <2>1, ServersAssumption
  <2> QED
    BY <1>1, <1>4, <2>1, <2>2 DEF LifecycleInv, Progress, Of
<1>6. "http shutdown" \in errs
  <2>1. call[c] = "active"
    BY <1>1, <1>5 DEF LifecycleInv, Progress
  <2> QED
    BY <1>4, <1>5, <2>1 DEF LifecycleInv, Progress, Of
<1>7. failed
  BY <1>3, <1>4, <1>6 DEF Together, StartupInv, StartupTypeOK
<1> QED
  BY <1>3, <1>4, <1>5, <1>6, <1>7

LEMMA GatewayInitInv == GatewayInit => GatewayInv
<1> SUFFICES ASSUME GatewayInit PROVE GatewayInv
  OBVIOUS
<1>1. StartupInv /\ LifecycleInv
  BY StartupInitInv, InitInv DEF GatewayInit
<1>2. Together
  BY DEF GatewayInit, StartupInit, Init, Together
<1>3. ClosedUnused
  BY DEF GatewayInit, ClosedUnused
<1> QED
  BY <1>1, <1>2, <1>3 DEF GatewayInv

LEMMA GatewayStepInv == GatewayInv /\ [GatewayNext]_allVars => GatewayInv'
<1> SUFFICES ASSUME GatewayInv, [GatewayNext]_allVars PROVE GatewayInv'
  OBVIOUS
<1> USE DEF GatewayInv
<1>1. StartupInv'
  BY StartupRefined, StartupStepInv
<1>2. LifecycleInv'
  BY LifecycleKept
<1>3. (Together /\ ClosedUnused)'
  <2>1. CASE Build
    <3>1. /\ UNCHANGED <<vars, met>>
          /\ step \notin {"serving", "returning", "exited"} /\ step' # "exited"
      BY <2>1 DEF Build, Load, Connect, Connected, NewHTTP, HttpTable, GrpcTable,
                  NewLimiter, NewReadiness, Fail, Goto
    <3>2. phase # "exited" /\ met = {} /\ Init
      BY <3>1 DEF Together
    <3>3. phase' = phase /\ met' = {} /\ Init'
      BY <3>1, <3>2 DEF vars, Init
    <3>4. ClosedUnused'
      BY <3>3 DEF ClosedUnused
    <3>5. Together'
      BY <2>1, <3>2, <3>3, BuildKeepsOpen DEF Together
    <3> QED
      BY <3>4, <3>5
  <2>2. CASE Serve(Next)
    <3>1. step = "serving" /\ UNCHANGED <<startup, met>> /\ met = {}
      BY <2>2 DEF Serve, Together
    <3>2. UNCHANGED <<step, redis, conn, failed>> /\ met' = {}
      BY <3>1 DEF startup
    <3> QED
      BY <3>1, <3>2 DEF Together, ClosedUnused
  <2>3. CASE Return
    <3>1. /\ phase = "exited" /\ step = "serving" /\ step' = "returning"
          /\ failed' = (errs # {}) /\ UNCHANGED <<vars, met>> /\ met = {}
      BY <2>3 DEF Return, ServersReturn, Together
    <3>2. phase' = "exited" /\ errs' = errs /\ met' = {}
      BY <3>1 DEF vars
    <3>3. ClosedUnused'
      BY <3>2 DEF ClosedUnused
    <3>4. Together'
      BY <3>1, <3>2 DEF Together
    <3> QED
      BY <3>3, <3>4
  <2>4. CASE Close
    <3>1. /\ step = "returning" /\ step' \in {"returning", "exited"}
          /\ failed' = failed /\ UNCHANGED <<vars, met>>
      BY <2>4 DEF Close, Deferred, Leave
    <3>2. UNCHANGED <<phase, errs, met>> /\ (Init => Init')
      BY <3>1 DEF vars, Init
    <3>3. ClosedUnused'
      BY <3>1, <3>2 DEF ClosedUnused
    <3>4. Together'
      BY <3>1, <3>2 DEF Together
    <3> QED
      BY <3>3, <3>4
  <2>5. ASSUME NEW c \in Calls, Outlive(c) PROVE (Together /\ ClosedUnused)'
    <3>1. /\ step = "returning" /\ phase = "exited"
          /\ UNCHANGED <<startup, phase, errs, met>>
      BY <2>5 DEF Outlive
    <3>2. UNCHANGED <<step, redis, conn, failed>>
      BY <3>1 DEF startup
    <3>3. ClosedUnused'
      BY <3>1, <3>2 DEF ClosedUnused
    <3>4. Together'
      BY <3>1, <3>2 DEF Together
    <3> QED
      BY <3>3, <3>4
  <2>6. ASSUME NEW c \in Calls, Use(c) PROVE (Together /\ ClosedUnused)'
    <3>1. /\ phase = "exited" /\ step = "returning"
          /\ ServerOf[c] = "http" /\ "http shutdown" \in errs /\ failed
      BY <2>6, MeetsOnlyLate
    <3>2. /\ met' = met \cup {<<c, r>> : r \in ClosedTo(c)}
          /\ UNCHANGED <<startup, vars>>
      BY <2>6 DEF Use
    <3>3. UNCHANGED <<step, redis, conn, failed, phase, errs>>
      BY <3>2 DEF startup, vars
    <3>4. ASSUME NEW m \in met' PROVE ServerOf[m[1]] = "http"
      <4>1. CASE m \in met
        BY <4>1 DEF ClosedUnused
      <4>2. CASE m \notin met
        <5>1. PICK r \in ClosedTo(c) : m = <<c, r>>
          BY <3>2, <4>2
        <5> QED
          BY <3>1, <5>1
      <4> QED
        BY <4>1, <4>2
    <3>5. ClosedUnused'
      BY <3>1, <3>3, <3>4 DEF ClosedUnused
    <3>6. Together'
      BY <3>1, <3>3 DEF Together
    <3> QED
      BY <3>5, <3>6
  <2>7. CASE UNCHANGED allVars
    <3>1. UNCHANGED <<step, redis, conn, failed, phase, errs, met>> /\ (Init => Init')
      BY <2>7 DEF allVars, startup, vars, Init
    <3>2. ClosedUnused'
      BY <3>1 DEF ClosedUnused
    <3>3. Together'
      BY <3>1 DEF Together
    <3> QED
      BY <3>2, <3>3
  <2> QED
    BY <2>1, <2>2, <2>3, <2>4, <2>5, <2>6, <2>7 DEF GatewayNext
<1> QED
  BY <1>1, <1>2, <1>3

\* The invariants of both parts hold of the whole process, and what is between
\* them: the servers run while run serves, its result is theirs, and nothing
\* is closed before.
THEOREM GatewayInvariant == GatewaySpec => []GatewayInv
  BY GatewayInitInv, GatewayStepInv, PTL DEF GatewaySpec

\* The process, servers and handlers included, is a run of Startup: that
\* treats runServers as one step that may return anything.
THEOREM ImplementsStartup == GatewaySpec => StartupSpec
<1>1. GatewayInit => StartupInit
  BY DEF GatewayInit
<1> QED
  BY <1>1, StartupRefined, PTL DEF GatewaySpec, StartupSpec

\* No gRPC handler meets a closed client, connection or registry, and an HTTP
\* handler does only behind a deadline that the exit status tells of.
THEOREM UsedWhileOpen == GatewaySpec => []ClosedUnused
<1>1. GatewayInv => ClosedUnused
  BY DEF GatewayInv
<1> QED
  BY <1>1, GatewayInvariant, PTL

\* Of the whole process, too: nothing stays open, and every route leads.
THEOREM ResourcesInOrder == GatewaySpec => [](NothingLeaks /\ RoutesLead)
  BY ImplementsStartup, LeavesNothingOpen, EveryRouteLeads, PTL

\* What the servers promise survives in the process, though HTTP handlers go
\* on behind their return, and new ones begin.
THEOREM PromisesSurvive ==
  GatewaySpec => [](GracefulExit /\ HandlersBeforeRegistry /\ GraceUntilDeadline)
<1>1. GatewayInv => GracefulExit /\ HandlersBeforeRegistry /\ GraceUntilDeadline
  BY Graceful, Ended, Grace DEF GatewayInv
<1> QED
  BY <1>1, GatewayInvariant, PTL
=============================================================================
