------------------------------ MODULE Lifecycle ------------------------------
(***************************************************************************)
(* runServers: two servers, each run by a goroutine that reports its end   *)
(* on the results channel, and the main goroutine that waits for a signal  *)
(* or for the first result and then shuts HTTP down, then gRPC, under one  *)
(* deadline.                                                               *)
(*                                                                         *)
(* The insides of http.Server and grpc.Server are external; what the code  *)
(* relies on:                                                              *)
(*  - http.Server.Shutdown closes the listener, so that ListenAndServe     *)
(*    returns at once, and waits for its connections, except those that    *)
(*    were hijacked for an upgrade; at the deadline it returns and leaves  *)
(*    the others running;                                                  *)
(*  - grpc.Server.GracefulStop ends when every handler has returned, also  *)
(*    after Stop, which cancels their contexts; Serve returns only then.   *)
(***************************************************************************)
EXTENDS Naturals, Sequences

CONSTANTS
  Servers,     \* {"http"}, or {"http", "grpc"} when GRPC_ADDR is set
  Calls,       \* the calls that may arrive
  ServerOf     \* the server each call arrives at

ASSUME ServersAssumption ==
  /\ Servers \in {{"http"}, {"http", "grpc"}}
  /\ ServerOf \in [Calls -> Servers]

VARIABLES
  phase,      \* where runServers is
  signalled,  \* signalCtx is done
  expired,    \* shutdownCtx has passed its deadline
  run,        \* of each server: its Run goroutine and listener
  closing,    \* servers told to shut down
  closed,     \* servers without a connection left
  stopped,    \* grpc.Server: GracefulStop has returned
  results,    \* the channel of what Run returned
  received,   \* servers whose result was received
  errs,       \* runErrors and shutdownErrors
  call        \* of each call: its handler

servers == <<run, closing, closed, stopped>>
vars == <<phase, signalled, expired, run, closing, closed, stopped, results,
          received, errs, call>>

Of(s) == {c \in Calls : ServerOf[c] = s}
Result == [name : Servers, failed : BOOLEAN]
Errors == {"http", "grpc", "unexpected", "http shutdown", "grpc shutdown", "wait"}

(***************************************************************************)
(* Type invariant.  The channel has room for two results, and that is      *)
(* enough: no Run goroutine ever blocks on it.                             *)
(***************************************************************************)
TypeOK ==
  /\ phase \in {"serving", "http shutdown", "grpc shutdown", "grpc stop",
                "wait", "exited"}
  /\ signalled \in BOOLEAN /\ expired \in BOOLEAN /\ stopped \in BOOLEAN
  /\ run \in [Servers -> {"starting", "serving", "broken", "ended"}]
  /\ closing \in SUBSET Servers /\ closed \in SUBSET Servers
  /\ results \in Seq(Result) /\ Len(results) <= 2
  /\ received \in SUBSET Servers
  /\ errs \in SUBSET Errors
  /\ call \in [Calls -> {"none", "active", "upgraded", "cancelled", "done",
                         "aborted"}]

Init ==
  /\ phase = "serving" /\ signalled = FALSE /\ expired = FALSE
  /\ run = [s \in Servers |-> "starting"]
  /\ closing = {} /\ closed = {} /\ stopped = FALSE
  /\ results = <<>> /\ received = {} /\ errs = {}
  /\ call = [c \in Calls |-> "none"]

-----------------------------------------------------------------------------
(***************************************************************************)
(* The Run goroutines.                                                     *)
(***************************************************************************)
\* Run's error: ErrServerClosed and ErrServerStopped are none.
Report(s, failed) == results' = Append(results, [name |-> s, failed |-> failed])

Listen(s) ==
  /\ run[s] = "starting" /\ s \notin closing /\ phase # "exited"
  /\ run' = [run EXCEPT ![s] = "serving"]
  /\ UNCHANGED <<phase, signalled, expired, closing, closed, stopped, results,
                 received, errs, call>>

\* The address cannot be listened on: no connection will ever come.
ListenFails(s) ==
  /\ run[s] = "starting" /\ phase # "exited"
  /\ run' = [run EXCEPT ![s] = "broken"]
  /\ closed' = closed \cup {s}
  /\ Report(s, TRUE)
  /\ UNCHANGED <<phase, signalled, expired, closing, stopped, received, errs,
                 call>>

\* Accept fails for good; the connections there are live on.
ServeFails(s) ==
  /\ run[s] = "serving" /\ s \notin closing /\ phase # "exited"
  /\ run' = [run EXCEPT ![s] = "broken"]
  /\ Report(s, TRUE)
  /\ UNCHANGED <<phase, signalled, expired, closing, closed, stopped, received,
                 errs, call>>

\* A server told to shut down returns: one that had not started and the
\* HTTP server at once, the gRPC server when it has stopped.
ServeReturns(s) ==
  /\ s \in closing /\ phase # "exited"
  /\ \/ run[s] = "starting"
     \/ run[s] = "serving" /\ (s = "grpc" => stopped)
  /\ run' = [run EXCEPT ![s] = "ended"]
  /\ closed' = IF run[s] = "starting" THEN closed \cup {s} ELSE closed
  /\ Report(s, FALSE)
  /\ UNCHANGED <<phase, signalled, expired, closing, stopped, received, errs,
                 call>>

Run(s) == Listen(s) \/ ListenFails(s) \/ ServeReturns(s)

-----------------------------------------------------------------------------
(***************************************************************************)
(* Calls.  A connection that is there may bring one until it is closed,    *)
(* also while its server shuts down.                                       *)
(***************************************************************************)
Begin(c) ==
  /\ call[c] = "none" /\ phase # "exited"
  /\ run[ServerOf[c]] # "starting" /\ ServerOf[c] \notin closed
  /\ call' = [call EXCEPT ![c] = "active"]
  /\ UNCHANGED <<phase, signalled, expired, servers, results, received, errs>>

\* ReverseProxy hijacks the connection of an upgrade.
Upgrade(c) ==
  /\ call[c] = "active" /\ ServerOf[c] = "http" /\ phase # "exited"
  /\ call' = [call EXCEPT ![c] = "upgraded"]
  /\ UNCHANGED <<phase, signalled, expired, servers, results, received, errs>>

Finish(c) ==
  /\ call[c] \in {"active", "upgraded"} /\ phase # "exited"
  /\ call' = [call EXCEPT ![c] = "done"]
  /\ UNCHANGED <<phase, signalled, expired, servers, results, received, errs>>

\* A handler whose context was cancelled returns.
Abort(c) ==
  /\ call[c] = "cancelled" /\ phase # "exited"
  /\ call' = [call EXCEPT ![c] = "aborted"]
  /\ UNCHANGED <<phase, signalled, expired, servers, results, received, errs>>

\* GracefulStop returns.
GracefulStopReturns ==
  /\ "grpc" \in closing /\ ~stopped /\ phase # "exited"
  /\ \A c \in Of("grpc") : call[c] \notin {"active", "cancelled"}
  /\ stopped' = TRUE
  /\ closed' = closed \cup {"grpc"}
  /\ UNCHANGED <<phase, signalled, expired, run, closing, results, received,
                 errs, call>>

-----------------------------------------------------------------------------
(***************************************************************************)
(* The main goroutine.                                                     *)
(***************************************************************************)
Signal ==
  /\ ~signalled /\ phase # "exited"
  /\ signalled' = TRUE
  /\ UNCHANGED <<phase, expired, servers, results, received, errs, call>>

\* The ten seconds are over.
Expire ==
  /\ phase \notin {"serving", "exited"} /\ ~expired
  /\ expired' = TRUE
  /\ UNCHANGED <<phase, signalled, servers, results, received, errs, call>>

StartShutdown ==
  /\ phase' = "http shutdown"
  /\ closing' = closing \cup {"http"}

OnSignal ==
  /\ phase = "serving" /\ signalled
  /\ StartShutdown
  /\ UNCHANGED <<signalled, expired, run, closed, stopped, results, received,
                 errs, call>>

\* A server ended, which is an error even if it ended without one.
OnResult ==
  /\ phase = "serving" /\ results # <<>>
  /\ StartShutdown
  /\ results' = Tail(results)
  /\ received' = received \cup {Head(results).name}
  /\ errs' = errs \cup {IF Head(results).failed THEN Head(results).name
                                                ELSE "unexpected"}
  /\ UNCHANGED <<signalled, expired, run, closed, stopped, call>>

\* After HTTP: gRPC, when there is one; its Shutdown starts GracefulStop.
NextShutdown ==
  IF "grpc" \in Servers
    THEN phase' = "grpc shutdown" /\ closing' = closing \cup {"grpc"}
    ELSE phase' = "wait" /\ UNCHANGED closing

HttpDrained ==
  /\ phase = "http shutdown"
  /\ \A c \in Of("http") : call[c] # "active"
  /\ NextShutdown
  /\ closed' = closed \cup {"http"}
  /\ UNCHANGED <<signalled, expired, run, stopped, results, received, errs, call>>

\* Mutant: Shutdown with context.Background().
HttpGivesUpNever == FALSE
\* Mutant: the error of a shutdown cut short is dropped.
HttpGivesUpSilently ==
  /\ phase = "http shutdown" /\ expired
  /\ NextShutdown
  /\ UNCHANGED <<signalled, expired, run, closed, stopped, results, received,
                 errs, call>>
HttpGivesUp ==
  /\ phase = "http shutdown" /\ expired
  /\ NextShutdown
  /\ errs' = errs \cup {"http shutdown"}
  /\ UNCHANGED <<signalled, expired, run, closed, stopped, results, received,
                 call>>

GrpcDrained ==
  /\ phase = "grpc shutdown" /\ stopped
  /\ phase' = "wait"
  /\ UNCHANGED <<signalled, expired, servers, results, received, errs, call>>

\* Mutant: Stop at once, without a grace period.
GrpcStopAtOnce ==
  /\ phase = "grpc shutdown"
  /\ phase' = "grpc stop"
  /\ closed' = closed \cup {"grpc"}
  /\ call' = [c \in Calls |-> IF ServerOf[c] = "grpc" /\ call[c] = "active"
                                THEN "cancelled" ELSE call[c]]
  /\ UNCHANGED <<signalled, expired, run, closing, stopped, results, received,
                 errs>>
\* The deadline passed: Stop cancels every call.
GrpcStop ==
  /\ phase = "grpc shutdown" /\ expired
  /\ phase' = "grpc stop"
  /\ closed' = closed \cup {"grpc"}
  /\ call' = [c \in Calls |-> IF ServerOf[c] = "grpc" /\ call[c] = "active"
                                THEN "cancelled" ELSE call[c]]
  /\ UNCHANGED <<signalled, expired, run, closing, stopped, results, received,
                 errs>>

\* Mutant: without the receive from done.
GrpcStoppedSoon ==
  /\ phase = "grpc stop"
  /\ phase' = "wait" /\ errs' = errs \cup {"grpc shutdown"}
  /\ UNCHANGED <<signalled, expired, servers, results, received, call>>
\* ... and waits for GracefulStop all the same.
GrpcStopped ==
  /\ phase = "grpc stop" /\ stopped
  /\ phase' = "wait" /\ errs' = errs \cup {"grpc shutdown"}
  /\ UNCHANGED <<signalled, expired, servers, results, received, call>>

Collect ==
  /\ phase = "wait" /\ received # Servers /\ results # <<>>
  /\ results' = Tail(results)
  /\ received' = received \cup {Head(results).name}
  /\ errs' = IF Head(results).failed THEN errs \cup {Head(results).name} ELSE errs
  /\ UNCHANGED <<phase, signalled, expired, servers, call>>

CollectGivesUp ==
  /\ phase = "wait" /\ received # Servers /\ expired
  /\ received' = Servers /\ errs' = errs \cup {"wait"}
  /\ UNCHANGED <<phase, signalled, expired, servers, results, call>>

\* runServers returns; run closes the upstream registries and main exits.
Exit ==
  /\ phase = "wait" /\ received = Servers
  /\ phase' = "exited"
  /\ UNCHANGED <<signalled, expired, servers, results, received, errs, call>>

Main == OnSignal \/ OnResult \/ HttpDrained \/ HttpGivesUp \/ GrpcDrained
          \/ GrpcStop \/ GrpcStopped \/ Collect \/ CollectGivesUp \/ Exit

Next ==
  \/ Signal \/ Expire \/ Main \/ GracefulStopReturns
  \/ \E s \in Servers : Run(s) \/ ServeFails(s)
  \/ \E c \in Calls : Begin(c) \/ Upgrade(c) \/ Finish(c) \/ Abort(c)

(***************************************************************************)
(* The goroutines of the program and the timer run; calls end only when    *)
(* they were cancelled, which GrpcProxy shows of a gRPC call.              *)
(***************************************************************************)
Fairness ==
  /\ WF_vars(Main) /\ WF_vars(Expire) /\ WF_vars(GracefulStopReturns)
  /\ \A s \in Servers : WF_vars(Run(s))
  /\ \A c \in Calls : WF_vars(Abort(c))

Spec == Init /\ [][Next]_vars /\ Fairness

-----------------------------------------------------------------------------
(***************************************************************************)
(* "application stopped gracefully" is logged, and the process exits with  *)
(* status 0, only after a signal, when both servers returned without an    *)
(* error, and every call that had begun has ended by itself, but for       *)
(* upgraded connections (GracefulForUpgrades).                             *)
(***************************************************************************)
GracefulExit ==
  phase = "exited" /\ errs = {} =>
    /\ signalled
    /\ \A s \in Servers : run[s] = "ended"
    /\ \A c \in Calls : call[c] \in {"none", "done", "upgraded"}

(***************************************************************************)
(* The same of upgraded connections, whose handlers still relay bytes.     *)
(***************************************************************************)
GracefulForUpgrades ==
  phase = "exited" /\ errs = {} => \A c \in Calls : call[c] # "upgraded"

(***************************************************************************)
(* No gRPC handler runs when the process exits and closes the upstream     *)
(* connections the handler uses, whether or not the deadline had passed.   *)
(***************************************************************************)
HandlersBeforeRegistry ==
  phase = "exited" => \A c \in Of("grpc") : call[c] \notin {"active", "cancelled"}

(***************************************************************************)
(* Up to the deadline no call is cut short, by a signal or by the failure  *)
(* of a server, its own or the other one.  An upgraded connection is no    *)
(* call any more: it is cut when the process exits, however early.         *)
(***************************************************************************)
GraceUntilDeadline ==
  ~expired => \A c \in Calls :
    /\ call[c] \notin {"cancelled", "aborted"}
    /\ phase = "exited" => call[c] # "active"

(***************************************************************************)
(* A signal, or a server that ends, ends the process, however long calls   *)
(* would take.                                                             *)
(***************************************************************************)
ShutdownEnds ==
  (signalled \/ \E s \in Servers : run[s] \in {"broken", "ended"})
    ~> (phase = "exited")

-----------------------------------------------------------------------------
\* What is known of the results under way, of which each server sends one.
ResultsTrue ==
  /\ \A i \in 1..Len(results) :
       /\ run[results[i].name] = IF results[i].failed THEN "broken" ELSE "ended"
       /\ "wait" \notin errs => results[i].name \notin received
       /\ \A j \in 1..Len(results) : results[i].name = results[j].name => i = j
  /\ \A s \in received : \/ run[s] = "ended"
                         \/ run[s] = "broken" /\ errs # {}
                         \/ "wait" \in errs

\* Which steps of the shutdown are behind.
Progress ==
  /\ phase = "serving" => closing = {}
  /\ phase # "serving" => signalled \/ errs # {}
  /\ phase \in {"grpc shutdown", "grpc stop", "wait", "exited"} =>
       "http shutdown" \in errs
         \/ ("http" \in closed /\ \A c \in Of("http") : call[c] # "active")
  /\ phase \in {"grpc shutdown", "grpc stop"} => "grpc" \in Servers
  /\ phase \in {"wait", "exited"} /\ "grpc" \in Servers => stopped
  /\ phase = "exited" => received = Servers
  /\ stopped => /\ "grpc" \in closed
                /\ \A c \in Of("grpc") : call[c] \notin {"active", "cancelled"}
  /\ "http shutdown" \in errs \/ phase = "grpc stop" => expired
  /\ (\E c \in Calls : call[c] \in {"cancelled", "aborted"}) =>
       expired /\ (phase = "grpc stop" \/ "grpc shutdown" \in errs)
  /\ \A c \in Calls : call[c] = "cancelled" => ServerOf[c] = "grpc"

\* The inductive invariant.
LifecycleInv == TypeOK /\ ResultsTrue /\ Progress
=============================================================================
