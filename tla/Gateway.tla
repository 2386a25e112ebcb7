------------------------------- MODULE Gateway -------------------------------
(***************************************************************************)
(* The whole process: run opens its resources (Startup), runServers        *)
(* serves and shuts down (Lifecycle), and the deferred calls close the     *)
(* resources again, while HTTP handlers that outlived the shutdown's       *)
(* deadline still run, until the process exits.                            *)
(***************************************************************************)
EXTENDS Startup, Lifecycle

VARIABLE
  met           \* <<c, r>>: the handler of call c ran into closed resource r

\* Whether there is a gRPC server is decided by GRPC_ADDR.
ASSUME GatewayAssumption ==
  \A c \in Configs : Valid(c) => (c.grpcAddr <=> "grpc" \in Servers)

allVars == <<startup, vars, met>>

GatewayInit == StartupInit /\ Init /\ met = {}

-----------------------------------------------------------------------------
\* run, up to runServers.
Build ==
  /\ \/ Load \/ Connect \/ Connected \/ NewHTTP \/ HttpTable \/ GrpcTable
     \/ NewLimiter \/ NewReadiness
  /\ UNCHANGED <<vars, met>>

\* A step A of runServers.
Serve(A) == step = "serving" /\ A /\ UNCHANGED <<startup, met>>

\* runServers returns the errors it joined, and run returns them.
Return ==
  /\ phase = "exited" /\ ServersReturn /\ failed' = (errs # {})
  /\ UNCHANGED <<vars, met>>

Close == (Deferred \/ Leave) /\ UNCHANGED <<vars, met>>

-----------------------------------------------------------------------------
(***************************************************************************)
(* Handlers, up to the exit of the process.                                *)
(***************************************************************************)
Running(c) == call[c] \in {"active", "cancelled"}
OpenTo(c) == call[c] = "none" /\ ServerOf[c] = "http" /\ "http" \notin closed

\* After runServers has returned: handlers of HTTP connections that Shutdown
\* gave up on go on, and such a connection may bring another request.
Outlive(c) ==
  /\ step = "returning" /\ phase = "exited" /\ run["http"] # "starting"
  /\ \/ OpenTo(c) /\ call' = [call EXCEPT ![c] = "active"]
     \/ call[c] \in {"active", "upgraded"} /\ call' = [call EXCEPT ![c] = "done"]
  /\ UNCHANGED <<startup, phase, signalled, expired, run, closing, closed, stopped,
                 results, received, errs, met>>

\* What a handler of each server uses: the limiter's client; a connection,
\* also to answer /readyz; the registry's map, to find one.
ClosedTo(c) ==
  (IF redis = "closed" THEN {"redis"} ELSE {})
  \cup (IF \E u \in Upstreams : conn[u] = "closed" THEN {"conn"} ELSE {})
  \cup (IF ServerOf[c] = "grpc" /\ step = "returning" /\ registry = {}
           /\ config.grpc # <<>> THEN {"registry"} ELSE {})

Use(c) ==
  /\ Running(c) /\ step # "exited" /\ ClosedTo(c) # {}
  /\ met' = met \cup {<<c, r>> : r \in ClosedTo(c)}
  /\ UNCHANGED <<startup, vars>>

GatewayNext ==
  \/ Build \/ Serve(Next) \/ Return \/ Close
  \/ \E c \in Calls : Outlive(c) \/ Use(c)

GatewaySpec == GatewayInit /\ [][GatewayNext]_allVars

-----------------------------------------------------------------------------
(***************************************************************************)
(* Properties.                                                             *)
(***************************************************************************)
\* No gRPC handler ever meets a closed client, connection or registry, nor the
\* registry's map while Registry.Close writes it without a lock.  An HTTP
\* handler may meet a closed client or connection, but only one that outlived
\* the deadline of the shutdown, and the process then exits with an error.
ClosedUnused ==
  \A m \in met :
    ServerOf[m[1]] = "http" /\ "http shutdown" \in errs /\ failed

-----------------------------------------------------------------------------
\* How the two parts go together: the servers wait for run to serve, and run
\* waits for the servers; what they use is not closed before.
Together ==
  /\ step # "serving" /\ phase # "exited" => Init
  /\ phase = "exited" => step \in {"serving", "returning", "exited"}
  /\ phase = "exited" /\ step # "serving" => (failed <=> errs # {})
  /\ step \notin {"returning", "exited"} =>
       redis # "closed" /\ \A u \in Upstreams : conn[u] # "closed"
  /\ met # {} => phase = "exited" /\ step # "serving"

\* The inductive invariant.
GatewayInv == StartupInv /\ LifecycleInv /\ Together /\ ClosedUnused
=============================================================================
