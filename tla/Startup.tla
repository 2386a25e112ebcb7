------------------------------- MODULE Startup -------------------------------
(***************************************************************************)
(* run, from config.Load to its return: what it opens step by step, the    *)
(* deferred calls that close it again, and every step's way to fail.       *)
(* runServers is one step here; Lifecycle is about its insides.  The       *)
(* transport credentials and the JWT validator refuse nothing that         *)
(* validate has let pass, and hold nothing open.                           *)
(*                                                                         *)
(* The environment is abstracted to what the steps tell apart: names and   *)
(* routes after parsing, and whether a setting is one that they accept.    *)
(***************************************************************************)
EXTENDS Naturals, Sequences

CONSTANTS
  Upstreams,  \* names of upstreams
  Keys,       \* route keys: METHOD PATTERN, or a gRPC prefix
  Configs     \* environments the gateway may be started in

Route == [key : Keys, upstream : Upstreams]
Config ==
  [wellFormed : BOOLEAN,       \* every value parses and is in its range
   grpc : Seq(Upstreams), http : Seq(Upstreams),
   grpcRoutes : Seq(Route), httpRoutes : Seq(Route),
   grpcAddr : BOOLEAN,         \* GRPC_ADDR is set
   limiter : BOOLEAN,          \* RATE_LIMIT_ENABLED
   refill : {"positive", "notPositive", "nan"}, \* a float that parses
   refused : SUBSET Upstreams,   \* gRPC targets that grpc.NewClient refuses
   malformed : SUBSET Upstreams, \* HTTP targets that do not parse
   conflict : BOOLEAN]         \* two HTTP patterns overlap, none wins

ASSUME StartupAssumption == Configs \subseteq Config

VARIABLES
  config,
  step,      \* where run is
  turn,      \* turns that upstream.New's loop has made
  conn,      \* the gRPC connection to each upstream
  registry,  \* keys of the gRPC registry's map
  handlers,  \* keys of the HTTP registry's map
  redis,     \* the Redis client
  checks,    \* what the readiness checker asks: upstreams, and "redis"
  defers,    \* the deferred calls, the last one first to run
  failed     \* run returns an error

startup == <<config, step, turn, conn, registry, handlers, redis, checks,
             defers, failed>>

StartupTypeOK ==
  /\ config \in Configs
  /\ step \in {"load", "connect", "http", "httpTable", "grpcTable", "limiter",
               "readiness", "serving", "returning", "exited"}
  /\ turn \in Nat
  /\ conn \in [Upstreams -> {"none", "open", "closed"}]
  /\ registry \in SUBSET Upstreams /\ handlers \in SUBSET Upstreams
  /\ redis \in {"none", "open", "closed"}
  /\ checks \in SUBSET (Upstreams \cup {"redis"})
  /\ defers \in Seq({"registry", "idle", "redis"})
  /\ failed \in BOOLEAN

StartupInit ==
  /\ config \in Configs
  /\ step = "load" /\ turn = 0 /\ failed = FALSE /\ defers = <<>>
  /\ conn = [u \in Upstreams |-> "none"] /\ redis = "none"
  /\ registry = {} /\ handlers = {} /\ checks = {}

In(x, s) == \E i \in DOMAIN s : s[i] = x
Distinct(s) == \A i, j \in DOMAIN s : s[i] = s[j] => i = j

Fail == step' = "returning" /\ failed' = TRUE
Goto(s) == step' = s /\ failed' = failed

-----------------------------------------------------------------------------
(***************************************************************************)
(* config.Load: the parsers refuse what occurs twice, and validate refuses *)
(* routes to unknown upstreams.                                            *)
(***************************************************************************)
KeysOf(routes) == [i \in DOMAIN routes |-> routes[i].key]
Parses(c) ==
  /\ c.wellFormed
  /\ Distinct(c.grpc) /\ Distinct(c.http)
  /\ Distinct(KeysOf(c.grpcRoutes)) /\ Distinct(KeysOf(c.httpRoutes))

\* "x <= 0" of a float: false of NaN.
RefillRefused(c) == c.refill = "notPositive"

\* Mutant: the routes of both kinds are looked up among all upstreams.
ValidTogether(c) ==
  /\ \A i \in DOMAIN c.httpRoutes :
       In(c.httpRoutes[i].upstream, c.http \o c.grpc)
  /\ \A i \in DOMAIN c.grpcRoutes :
       In(c.grpcRoutes[i].upstream, c.http \o c.grpc)
  /\ c.grpcRoutes # <<>> => c.grpcAddr
  /\ ~(c.limiter /\ RefillRefused(c))
\* validate.
Valid(c) ==
  /\ \A i \in DOMAIN c.httpRoutes : In(c.httpRoutes[i].upstream, c.http)
  /\ \A i \in DOMAIN c.grpcRoutes : In(c.grpcRoutes[i].upstream, c.grpc)
  /\ c.grpcRoutes # <<>> => c.grpcAddr
  /\ ~(c.limiter /\ RefillRefused(c))

Load ==
  /\ step = "load"
  /\ IF Parses(config) /\ Valid(config) THEN Goto("connect") ELSE Fail
  /\ UNCHANGED <<config, turn, conn, registry, handlers, redis, checks, defers>>

-----------------------------------------------------------------------------
(***************************************************************************)
(* The gRPC registry.                                                      *)
(***************************************************************************)
\* Registry.Close, for the keys in reg.
Closed(reg) == [u \in Upstreams |-> IF u \in reg THEN "closed" ELSE conn[u]]

\* Mutant: a failure returns without closing what was opened.
ConnectKeeps ==
  /\ step = "connect" /\ turn < Len(config.grpc)
  /\ LET name == config.grpc[turn + 1] IN
     IF name \in registry \/ name \in config.refused
     THEN Fail /\ UNCHANGED <<conn, registry>>
     ELSE /\ conn' = [conn EXCEPT ![name] = "open"]
          /\ registry' = registry \cup {name}
          /\ UNCHANGED <<step, failed>>
  /\ turn' = turn + 1
  /\ UNCHANGED <<config, handlers, redis, checks, defers>>
\* One turn of upstream.New's loop.
Connect ==
  /\ step = "connect" /\ turn < Len(config.grpc)
  /\ LET name == config.grpc[turn + 1] IN
     IF name \in registry \/ name \in config.refused
     THEN conn' = Closed(registry) /\ registry' = {} /\ Fail
     ELSE /\ conn' = [conn EXCEPT ![name] = "open"]
          /\ registry' = registry \cup {name}
          /\ UNCHANGED <<step, failed>>
  /\ turn' = turn + 1
  /\ UNCHANGED <<config, handlers, redis, checks, defers>>

\* upstream.New returns, and run defers Close.
Connected ==
  /\ step = "connect" /\ turn = Len(config.grpc)
  /\ defers' = Append(defers, "registry")
  /\ Goto("http")
  /\ UNCHANGED <<config, turn, conn, registry, handlers, redis, checks>>

-----------------------------------------------------------------------------
(***************************************************************************)
(* The rest of run.                                                        *)
(***************************************************************************)
\* upstream.NewHTTP.
NewHTTP ==
  /\ step = "http"
  /\ IF \E u \in config.malformed : In(u, config.http)
     THEN Fail /\ UNCHANGED <<handlers, defers>>
     ELSE /\ handlers' = {u \in Upstreams : In(u, config.http)}
          /\ defers' = Append(defers, "idle")
          /\ Goto("httpTable")
  /\ UNCHANGED <<config, turn, conn, registry, redis, checks>>

\* routing.New: ServeMux panics over patterns that conflict.
HttpTable ==
  /\ step = "httpTable"
  /\ IF config.conflict \/ ~Distinct(KeysOf(config.httpRoutes))
     THEN Fail ELSE Goto("grpcTable")
  /\ UNCHANGED <<config, turn, conn, registry, handlers, redis, checks, defers>>

\* grpcrouting.New.
GrpcTable ==
  /\ step = "grpcTable"
  /\ IF ~Distinct(KeysOf(config.grpcRoutes)) THEN Fail ELSE Goto("limiter")
  /\ UNCHANGED <<config, turn, conn, registry, handlers, redis, checks, defers>>

\* newRateLimiter, and run's deferred Close; NewRedisLimiter compares again.
NewLimiter ==
  /\ step = "limiter"
  /\ IF ~config.limiter
     THEN UNCHANGED <<redis, defers>> /\ Goto("readiness")
     ELSE IF RefillRefused(config)
     THEN redis' = "closed" /\ UNCHANGED defers /\ Fail
     ELSE redis' = "open" /\ defers' = Append(defers, "redis") /\ Goto("readiness")
  /\ UNCHANGED <<config, turn, conn, registry, handlers, checks>>

\* newReadinessChecker; every configured upstream is looked up.
NewReadiness ==
  /\ step = "readiness"
  /\ checks' = {u \in Upstreams : In(u, config.grpc)}
               \cup (IF redis = "open" THEN {"redis"} ELSE {})
  /\ IF checks' \ {"redis"} \subseteq registry THEN Goto("serving") ELSE Fail
  /\ UNCHANGED <<config, turn, conn, registry, handlers, redis, defers>>

\* runServers returns, well or not.
ServersReturn ==
  /\ step = "serving"
  /\ step' = "returning" /\ failed' \in BOOLEAN
  /\ UNCHANGED <<config, turn, conn, registry, handlers, redis, checks, defers>>

\* run returns: the deferred calls run, the last one first.
Deferred ==
  /\ step = "returning" /\ defers # <<>>
  /\ LET last == defers[Len(defers)] IN
     /\ IF last = "registry"
        THEN conn' = Closed(registry) /\ registry' = {}
        ELSE UNCHANGED <<conn, registry>>
     /\ redis' = IF last = "redis" THEN "closed" ELSE redis
  /\ defers' = SubSeq(defers, 1, Len(defers) - 1)
  /\ UNCHANGED <<config, step, turn, handlers, checks, failed>>

Leave ==
  /\ step = "returning" /\ defers = <<>>
  /\ step' = "exited"
  /\ UNCHANGED <<config, turn, conn, registry, handlers, redis, checks, defers,
                 failed>>

StartupNext ==
  \/ Load \/ Connect \/ Connected
  \/ NewHTTP \/ HttpTable \/ GrpcTable \/ NewLimiter \/ NewReadiness
  \/ ServersReturn \/ Deferred \/ Leave

StartupSpec == StartupInit /\ [][StartupNext]_startup

-----------------------------------------------------------------------------
(***************************************************************************)
(* Properties.                                                             *)
(***************************************************************************)
\* Whichever step fails, nothing that run opened is open when it has returned.
NothingLeaks ==
  step = "exited" => redis # "open" /\ \A u \in Upstreams : conn[u] # "open"

\* While the servers run, every route leads to an upstream that is there: the
\* answers "configured upstream is unavailable" of the HTTP dispatcher and of
\* the gRPC proxy are never needed.  The limiter's Redis client is open, and
\* readiness asks for all of these but the HTTP upstreams.
RoutesLead ==
  step = "serving" =>
    /\ \A i \in DOMAIN config.httpRoutes : config.httpRoutes[i].upstream \in handlers
    /\ \A i \in DOMAIN config.grpcRoutes :
         LET u == config.grpcRoutes[i].upstream IN
         u \in registry /\ conn[u] = "open" /\ u \in checks
    /\ config.limiter => redis = "open" /\ "redis" \in checks

\* What is open has somebody who will close it: New's loop before it has
\* returned, and a deferred call after.
Owned ==
  /\ \A u \in Upstreams : conn[u] = "open" <=> u \in registry
  /\ registry # {} => step = "connect" \/ In("registry", defers)
  /\ redis = "open" => In("redis", defers)
  /\ step \in {"load", "connect"} => defers = <<>>
  /\ step = "exited" => defers = <<>>

\* What the steps so far have established.
Prepared ==
  /\ step = "load" => turn = 0
  /\ step \notin {"load", "returning", "exited"} => Valid(config)
  /\ step = "connect" =>
       /\ turn <= Len(config.grpc)
       /\ \A i \in 1..turn : config.grpc[i] \in registry
  /\ step \in {"http", "httpTable", "grpcTable", "limiter", "readiness", "serving"} =>
       \A i \in DOMAIN config.grpc : config.grpc[i] \in registry
  /\ step \in {"httpTable", "grpcTable", "limiter", "readiness", "serving"} =>
       \A i \in DOMAIN config.http : config.http[i] \in handlers
  /\ step \in {"readiness", "serving"} => (config.limiter => redis = "open")
  /\ step = "serving" =>
       /\ \A i \in DOMAIN config.grpc : config.grpc[i] \in checks
       /\ config.limiter => "redis" \in checks

StartupInv == StartupTypeOK /\ Owned /\ Prepared
=============================================================================
