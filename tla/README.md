# Verification of the BeeSter API gateway

TLA+ models, model-checking runs and machine-checked proofs about the Go program in `src/api-gateway`:
one process that accepts HTTP/1.1 and gRPC calls, authenticates them, charges a token bucket kept in
Redis, and forwards them to the configured upstreams.

Paths below are relative to `src/api-gateway`. Run the tools in this directory:
`tlc -config MCGrpcProxy.cfg MCGrpcProxy` model-checks a run, `tlapm GrpcProxyProofs.tla` checks proofs.
`PROJECT.json` lists the runs, the source lines of every definition, the hazards and the theorems.

## 1. The system

### Inventory

| Component | Source | State | Operations | Talks to | What makes it correct |
|---|---|---|---|---|---|
| Startup | `cmd/beester/main.go` (`run`), `internal/config`, `internal/upstream/registry.go` | what has been built, the deferred closes | `config.Load`, `upstream.New`, `NewHTTP`, `routing.New`, `grpcrouting.New`, `newJWTValidator`, `newRateLimiter`, `newReadinessChecker` | everything | nothing stays open whichever step fails; every route leads to an upstream |
| Process lifecycle | `cmd/beester/main.go` (`runServers`) | signal context, `results` channel, shutdown deadline | start both servers, wait for a signal or a result, shut HTTP then gRPC down, collect results | both servers | the exit status tells the truth; it always ends; no call is cut early, but for upgraded connections |
| HTTP server, gRPC server | `internal/server` | listener, calls under way | `Run`, `Shutdown` | net/http, grpc-go, results channel | one result each; gRPC handlers end before `Shutdown` returns |
| HTTP chain | `internal/httpapi`, `internal/middleware` | the response under way, the identity in the context | RequestID, AccessLog, Recovery, then JWTAuth, RateLimit, BodyLimit | limiter, dispatcher | every gate counts; what is logged is what was sent |
| HTTP dispatcher, HTTP upstreams | `internal/proxy`, `internal/upstream/http.go` | handlers by name, a shared transport | `ServeHTTP`, `Rewrite`, `ErrorHandler` | ReverseProxy, routes | trusted user header; errors name their cause; an exchange ends |
| gRPC chain | `internal/grpcmiddleware` | the stream's context | RequestID, AccessLog, JWTAuth, RateLimit stream interceptors (no recovery, no unary ones) | limiter, `Proxy.Handle` | the same gates and the same buckets as HTTP |
| gRPC stream proxy | `internal/grpcproxy` | two forwarder goroutines, two channels, a derived context | `Handle`, `forwardClientToBackend`, `forwardBackendToClient`, `proxyMetadata` | grpc-go streams, route table, registry | one transparent call: order, half-close, status, cancellation, no leak |
| Rate limiter | `internal/ratelimit` | `tokens`, `ts` and an expiry per key, in Redis | `Allow` (an atomic Lua script over go-redis) | Redis | no key beyond its rate; exact retry hints; one token per call |
| gRPC routing | `internal/grpcrouting` | immutable sorted table | `New`, `Match` | stream proxy | the longest prefix wins |
| HTTP routing | `internal/routing` | a ServeMux | `New`, `Match` | dispatcher | a pattern maps to its own upstream |
| Readiness | `internal/readiness`, `internal/grpcclient/health.go`, `/readyz` | list of checks | `New`, `Check` under a 2 s deadline | Redis, gRPC upstreams | ready only if each dependency answered |
| Authentication | `internal/auth`, `internal/identity` | verification key | `Validate` | both chains | only tokens with a valid signature, expiry and user claim |
| Request ids | `internal/requestid` | an id per request | accept or make, pass on | both chains | one id per call on every hop |

An HTTP request passes RequestID → AccessLog → Recovery → mux → JWTAuth → RateLimit (one Redis round trip) →
BodyLimit → dispatcher → ReverseProxy. A gRPC call passes RequestID → AccessLog → JWTAuth → RateLimit →
`Proxy.Handle`. The two meet in Redis, where a user has one bucket for both, and in `runServers`, which ends both.
Nothing is persisted by the gateway itself.

### What is hard about it

* A gRPC call is three goroutines, two channels and two streams, each of which may end, fail or block at any
  point; `io.EOF` means three different things.
* The bucket lives in Redis and outlives calls and processes: keys expire, Redis restarts, its clock is not
  monotone, connections break after the script ran and the client library sends it again.
* Two servers are shut down one after the other under one deadline while calls arrive, finish and fail.
* A response may have started when its body copy fails, its deadline passes or its client leaves.
* Startup opens connections step by step and must undo exactly what it did.

`PROJECT.json` lists each of these as a hazard with its line and the properties that speak about it.

## 2. Plan

Order of the modules, the most important behaviour first. "→" is implementation of an abstract specification.

| # | Module | Status | Composition | Theorems |
|---|---|---|---|---|
| 1 | `GrpcProxy` → `StreamRelay` | done | refinement mapping | types, safety, refinement |
| 2 | `TokenBucket` → `IdealBucket` | done | refinement mapping | types, rate bound, retry hint, refinement |
| 3 | `Lifecycle` | done | both servers and main | types, exit, handlers, grace |
| 4 | `HttpExchange` → `HttpRelay` | done | seven handlers, transport, client, upstream; refinement mapping | types, all safety properties, refinement |
| 5 | `RateLimit` → `TokenLedger` | done | both protocols over one limiter; refinement mapping | types, rate per payer, payment, refinement |
| 6 | `Startup` | done | configuration, registries, limiter, readiness | ownership, routes |
| 7 | `GrpcRouting` | done | | longest prefix |
| 8 | `Forwarding` | done | every layer of both protocols around the two proxies, with context, headers and a clock | types, who an upstream is told a call is for, who paid, one id |
| 9 | `Readiness` | done | handler, checker, dependencies that come, go and hang | types, answers, blame |
| 10 | `Gateway` | done | `Startup`, `Lifecycle` and handlers that outlive the deadline | both parts' invariants, refinement of `Startup`, nothing closed is used |

Each component has the module itself, an `MC...` module with its instances, its configurations, and, where
something is proved about it, a `...Proofs` module that extends the component and `TLAPS`; what is proved about
`Lifecycle`, `Startup` and their composition is in `GatewayProofs`. Parameters are CONSTANTS with one named assumption;
an inductive invariant (`IInv`; `BucketInv`, `LifecycleInv`, `GatewayInv`) is a conjunction of named parts, the first of them the types (`TypeOK`), and every proof
rests on one. No module uses a RECURSIVE operator.

## 3. The modules

Actions carry the names of the functions they translate where there is one. Operators that stand for net/http,
grpc-go, go-redis or Redis are marked external in `PROJECT.json`, and the head of each module says what the code
relies on of them. Definitions commented "Mutant:" are plausible bugs of the definition that follows them; they
are used only to show that a property can fail.

### GrpcProxy, StreamRelay — `internal/grpcproxy/proxy.go`

One call. `handle` is where `Handle` is, `c2b` and `b2c` where the forwarders are (or the error they are about to
report), `upChan` and `downChan` the two buffered channels (`"nil"` once set to nil), `stream` the client stream
and its derived context, `up` and `down` count messages at four places of each direction: sent by the writer,
taken by the forwarder, given to the other stream, read. Messages of one stream never overtake each other, so
counting them loses nothing. `Refuse` and `Open` are lines 69–107, `OnClientToBackend` and `OnBackendToClient`
the two cases of the select, `C2B...` and `B2C...` the loops of the forwarders with every error they may meet
(half-close, cancellation, a message over the size limit, an ended stream, the backend's error). Client and
backend are unconstrained: they write, read, stop reading, half-close, end or leave whenever they may.

`StreamRelay` is what a caller and a backend may expect: one FIFO each way, an END_STREAM behind all messages,
and one status that is true. `Transparent` is the implementation of it: the status of the abstract call is
`Handle`'s result at the moment grpc-go writes it.

### TokenBucket, IdealBucket — `internal/ratelimit/redis.go`

The Redis hash of each key (`stored`, `tokens`, `ts`, `exp`) and the Redis clock. `Allow` is the whole script:
read (`Live`, `Elapsed`, `Level`), decide, and in either case `Store` with its expiry. The script's numbers are
rational; the model counts tokens in units, `UnitsPerToken` to a token and `Rate` a millisecond, so that every
fraction it produces is exact and its roundings (`math.ceil`) are `CeilDiv`. `Tick`, `ClockBack`, `Evict` and
`Lose` are Redis. `admitted`, `verdict`, `hint`, `advanced`, `lost` are history.

`RetryAfter` is the middleware's conversion of the hint to the whole seconds of the Retry-After header
(`internal/middleware/ratelimit.go:84`).

`IdealBucket` refills every bucket at every tick and has neither timestamps nor expiry.

### RateLimit — both rate limit middlewares over `RedisLimiter.Allow` and go-redis

Several calls of several callers over HTTP and gRPC. `HttpKey`, `GrpcKey` and `ClientIP` are the key functions of
the two packages; `Send`, `Execute`, `Fallback`, `Break`, `Leave` follow one command through go-redis:
EVALSHA then EVAL, retries after a broken connection, an attempt that runs after nobody waits for it any more
(`ghosts`), a caller that leaves before its command is sent. `Decide` and `FailOutcome` are the middlewares'
branches. Buckets hold whole tokens here; the arithmetic is `TokenBucket`'s.

`TokenLedger` is what a caller may expect of it: a token taken before an admission, a bucket found empty before a denial,
one answer, and at most one token more for a command that was lost. A call holds a token (`Holders`) when one of its
commands took it whose connection did not break.

### HttpExchange — `internal/middleware`, `internal/proxy/http.go`, `internal/upstream/http.go`, `main.go` 148–173

One exchange. `pc` names the innermost handler that runs; each middleware is an action with its early returns;
`out` is the wrapper's view of the response (`writer`) beside what was really sent; `body` is what the upstream
got of the request body. The transport reads the body concurrently with the handler, the upstream answers,
streams, switches protocols, ends or resets, the client sends, reads slowly or leaves, the request deadline
passes at any time. `header` is the user header of the request: it begins as the client's claim, `JWTAuth` deletes it
(where it is configured), and `Rewrite` deletes and sets the copy that the upstream gets.

`HttpRelay` is what the three who look at an exchange may expect: an upstream that is asked once, behind every gate, with
no more body than the limit; a client that is sent one status, which names its cause, and then the answer or a part of
it; a log with one line, the status that was sent, and a panic for every answer that was cut. That a cut answer may look
complete to the client (finding 1) is allowed by it. Interim answers are not statuses of it.

### Lifecycle — `runServers`, `internal/server`

`phase` is where the main goroutine is, `run` each server's `Run` goroutine, `results` the channel, `closing` the
servers told to shut down, `stopped` that GracefulStop has returned, `errs` the joined errors, `call` every
handler. Main's actions are the branches of its two selects and the returns of the two `Shutdown`s.

### Startup — `run`, `config.validate`, `upstream.New`, `Registry.Close`

`step` is where `run` is; `Connect` is one turn of `upstream.New`'s loop with its cleanup; `defers` is the stack of
deferred calls, which `Deferred` runs last-in first-out. The environment is an input: names, routes and which
steps will refuse what. The refill is a float, of which only its comparison with zero matters: `RefillRefused` is
false of NaN, in `validate` and again in `NewRedisLimiter`.

### Gateway — the process

Extends `Startup` (whose definitions carry that name where both have one, as `StartupNext`) and `Lifecycle`: `Build` is
`run` up to `runServers`, `Serve` a step of `Lifecycle` while
`step = "serving"`, `Return` hands the joined errors to `run`, `Close` runs the deferred calls. `Outlive` is what
`Lifecycle` leaves out: HTTP connections that `Shutdown` gave up on go on until the process exits. `met` records which
handler ran into which closed resource.

### Forwarding — `internal/grpcmiddleware`, `internal/auth`, `internal/requestid`, the headers of both proxies

One call of either protocol through the layers in `Chain`, the order in which `run` and `NewHandler` wrap; layers that
are not configured are `Skip`ped. `headers` is what the client sent as the layers pass it on, `ctx` the call's context
(request id and user), `sent` what the upstream got, `pending` the ids in the answer's header map, `answers` the header
blocks that the client got. `Validate` is every check of a claim, at the time of the clock, which ticks between any two
steps. `Rewrite` and `ModifyResponse` are HTTP's, `ProxyMetadata`, `WithRequestIDMetadata` and `Stripped` gRPC's.
`JWT_USER_ID_HEADER` is taken to name neither the request id nor the authorization, which nothing in `config` enforces.

### Readiness — `/readyz`, `internal/readiness`, `internal/grpcclient/health.go`

`Begin` is the handler making its context, `Ask` and `Reply` one turn of `Check`'s loop, `Answer` the handler's answer,
`End` the timeout or the client leaving. `health` changes at any moment; "recovered" is a dependency that is
well again while the gRPC channel to it still backs off, or go-redis still fails at once after too many dial errors. `served` and `unwell` are what an observer saw during the probe.

### GrpcRouting — `internal/grpcrouting/table.go`

`Add` is a turn of `New`'s loop, `Sort` the stable sort (equally long prefixes differ, so their order decides
nothing and is left open), `Match` the linear search. Names are sequences over a small alphabet.

## 4. The runs

| Run | Instance | Checks | Shows |
|---|---|---|---|
| `proxy` | 2 messages each way, windows of 1 | `IInv OKMeansWhole FailureHasCause Transparent NoLeak Released HalfCloseArrives StatusArrives` | a client is told OK only of a whole call, each failure has its cause, the goroutines implement `StreamRelay`; no forwarder leaks, a client that leaves releases the backend, half-closes and statuses arrive unless a peer has stopped reading |
| `bucket` | 1 key, 2 tokens of 5 units, 2 units/ms, 14 ms, 2 ms to a "second", one setback, one loss | `BucketInv RateBound RetryExact HeaderExact` | nothing is minted by expiry or by the clock; a denied caller is told the first good millisecond, and the first good second in Retry-After, in exact arithmetic |
| `bucket_ideal` | 2 keys, 2 tokens of 3 units, 7 ms, steady clock | `IsIdeal` | the lazy bucket answers like the textbook one |
| `rate_limit` | 2 concurrent calls, 4 callers, 1 token, 1 retry, 1 refill | `IInv RateKept OnlyBreaksOvercharge KeepsLedger` | one bucket per payer over both protocols; admitted for a token, denied only when there was none, unpaid only by failing open; overcharged only by broken connections |
| `http` | 4 configurations, 15 requests, bodies and answers of up to 2 and 3 units | `IInv Admission LogIsTrue ErrorHasCause IsFaithful Answered` | the gates hold, what client, upstream and log are told is true at every step, and with a request timeout every exchange ends unless its client stalls |
| `http_abort` | as `http` | `AbortIsTold` — violated | finding 1 |
| `lifecycle` | 2 servers, 2 calls each | `LifecycleInv GracefulExit HandlersBeforeRegistry GraceUntilDeadline ShutdownEnds` | the exit is true, handlers end before the registry closes, no call is cut early, the process ends (upgraded connections count as ended calls: finding 2) |
| `lifecycle_upgrade` | the same | `GracefulForUpgrades` — violated | finding 2 |
| `gateway` | 242 environments of 2 upstreams and a route of each kind, 1 call on each server | `NothingLeaks RoutesLead ClosedUnused` | no step's failure leaves anything open; routes lead somewhere; what the deferred calls close is met by no gRPC handler, and by an HTTP handler only in an exit with an error |
| `grpc_routing` | up to 3 routes of 6 prefixes and 2 upstreams, 5 methods | `LongestWins` | the longest prefix wins in any order |
| `forwarding` | 8 tokens, 320 clients, 16 configurations, 4 instants | `IInv TrustedHeaders ChargedAsTold OneId` | the upstream is told only a user that a token spoke for, the one who paid; one id joins log, upstream and client |
| `readiness` | 2 gRPC upstreams and Redis | `IInv AnswerJustified BlameIsFair ProbeEnds` | "ready" and "not ready" are justified by this very probe, nobody is blamed without a cause or passed over, a probe ends |

Findings:

1. `http_abort`: `Recovery` (`internal/middleware/recovery.go:20`) recovers `http.ErrAbortHandler` too. A response
   that the upstream, the request timeout or the body limit cut half-way then ends well for the client: a complete
   chunked 200, with an error text appended. `CutIsLogged`, a theorem, says that its panic is always in the log.
2. `lifecycle_upgrade`: `Shutdown` neither waits for nor closes connections that were upgraded, so the gateway logs
   "application stopped gracefully" and exits with 0 while it cuts them.

Two more observations, of which the models show the mechanism and no run is kept:

* `RATE_LIMIT_REFILL_PER_SECOND=NaN` is not `<= 0`, so it passes `validate` (`internal/config/config.go:435`) and
  `NewRedisLimiter` (`RefillRefused` in `Startup`); `math.min(capacity, NaN)` is the capacity, and nobody is denied.
* When an upstream sends a 1xx answer and then fails, the 502 or 504 carries no request id: `ReverseProxy` cleared the
  header map after the 1xx, and only `ModifyResponse` (`internal/upstream/http.go:92`), which runs for final answers of
  the upstream, puts the id back. `OneId` excepts exactly this.

### Bounds, and why they are enough

* Windows of one unit make every writer meet a full buffer; two messages are the fewest for one to be in hand
  while another is in the stream. The proofs hold for any bounds.
* Tokens take a fraction of a millisecond to refill in both bucket instances, so that every division rounds; the
  time covers several fills and the expiry.
* With one token and two calls every grant is contested; one retry gives an attempt that is sent twice, on EVALSHA
  and on EVAL. `MCConfigs` pairs failing open with trusting the proxy because the two settings meet in no definition.
* Bodies of 0 to 2 units against a limit of 1 are below, at and over it.
* Two calls for each server: one may be over while the other is under way.
* Three routes are enough for a prefix to lie between two others; prefixes nest, overlap, repeat and lack the slash.

* The tokens of `forwarding` differ from a sound one in one respect each, so that dropping any one check of `Validate`
  admits one; four instants with a leeway of one let a token be early, good, within its leeway and late in one call. One
  1xx answer is enough to clear the header map.
* Three dependencies have one before and one behind the one that hangs, and Redis beside gRPC.
* In `gateway` one call on each server suffices: the shutdown treats all calls of a server alike, and `lifecycle` has two.

TLC does not report deadlock where the system stops by design (a finished call, exchange or process); the
configurations say so. `TokenBucket` runs with deadlock checking.

### Fairness

Only the gateway's own goroutines and timers are fair, weakly, because the Go scheduler and the runtime timers run
what can run; clients, backends, upstreams and signals never have to do anything.

* `GrpcProxy`: `Handle`, each forwarder, and the transport's reset of a stream whose context is done. What a peer must
  not do is part of the properties ("unless it has stopped reading for good").
* `HttpExchange`: the handler goroutine, the transport's copy, the timer. `Answered` excepts a client that stalls in
  the middle of its body or its reading: the server has neither a read nor a write timeout.
* `Lifecycle`: main, the `Run` goroutines, the deadline timer, GracefulStop, and handlers whose context was cancelled
  — for gRPC that they return is what `proxy` shows. Handlers that nobody cancels need never end.
* `Readiness`: the handler's goroutine and the timer of its context. Dependencies may hang for ever: a gRPC check ends
  with its context, a PING by go-redis's own timeouts.

## 5. What is proved

All theorems hold for every value of the constants under the named assumption of the module (`BoundsAssumption`,
`LimitsAssumption`, `ServersAssumption`, `ExchangeAssumption`, `RateLimitAssumption`, `StartupAssumption`,
`RoutingAssumption`, `ForwardingAssumption`, `ReadinessAssumption`), which ask for no more than naturals where counters are and records of the right form.

* **GrpcProxyProofs.** `IInv` ties each error on its way through a goroutine or a channel to its cause (`UpError`,
  `DownError`), each forwarder to the frame it holds (`InHand`), and the three goroutines to each other (`Phases`).
  Without it `io.EOF` in `upChan` says nothing. From it: `TypeCorrect`, `SuccessIsReal`, `HalfCloseIsReal`,
  `FailureIsReal`, and `Implements` (each step is a step of `StreamRelay` or a stutter).
* **TokenBucketProofs.** `CeilDivLeast` characterises the rounding, `TtlFills` says that an expiry outlasts a fill; with
  them an expired bucket would be full anyway. `BucketInv` keeps a bucket's budget (`RateBound` is inductive with
  `ExpiresFull`) and what a denied caller was told (`HintHolds`). From it: `TypeCorrect`, `NeverOverRate`,
  `HintIsExact`, and with `HeaderMeansHint` (rounding up to seconds loses nothing) `HeaderIsExact`; with a steady clock (`Past`), `ImplementsIdeal`.
* **HttpExchangeProofs.** `Silent`, `Gates`, `Consistent` and `Delivery` say what each place of the handler may rely
  on. From them all safety properties of the run `http`, `CutLeavesTrace`, and `Implements`: each step is one of
  `HttpRelay` or changes nothing that the edges of the exchange show. `BodyBounded` is a part of `IInv`. `UserIsTrusted` rests on
  `Rewrite` deleting what the client claims before it sets what the context holds: with authentication off nobody else does.
* **RateLimitProofs.** A token that left a bucket is held by exactly one attempt (`Conserved`), an attempt runs at most
  once and an admitted call holds its last (`Attempted`); hence the admitted calls of a payer inject into the tokens
  its bucket gave (`RateIsKept`), `NothingUnpaid`, `OverchargedByBreaks`. `Implements`: a script that runs is a payment,
  a refusal or, as a ghost, a waste of `TokenLedger`; sending, falling back to EVAL and forgetting the script are stutters.
* **GatewayProofs.** Of `Lifecycle`: `ResultsTrue` accounts for each server's one result, `Progress` for the steps of the
  shutdown that are behind; from them `TypeCorrect` (the channel never overflows), `GracefulIsTrue`, `HandlersEndFirst`,
  `GraceIsGiven`. Of `Startup`: what is open has an owner (`Owned`) and each step finds what it needs (`Prepared`);
  `LeavesNothingOpen`, `EveryRouteLeads`. Of the process: `ImplementsStartup` (it is a run of `Startup`, whose one step
  `ServersReturn` stands for all of `runServers`), so `ResourcesInOrder`. `Together` ties the two parts: servers that run
  find nothing closed, and `run` returns what `runServers` joined. A handler that meets something closed has therefore
  outlived `runServers` (`MeetsOnlyLate`), so its server is HTTP and gave up at the deadline: `UsedWhileOpen`.
  `PromisesSurvive` says that such handlers break none of the promises of `Lifecycle`.
* **ForwardingProofs.** What the layers behind a call found out is what the context holds (`Known`), the upstream was told
  (`Told`) and the header map says (`Named`: it loses the id to an interim answer only). The crux of `UserIsVouched` is that
  every place behind authentication has either a user that a token spoke for between the call's arrival and now, or a
  reason for none; `PayerIsTold` and `SameId` follow from the same invariant.
* **GrpcRoutingProofs.** The table is a rearrangement of the routes, each prefix once, the longest first (`Tabled`), and
  of two prefixes of one name with equal length both are the same (`EqualPrefixes`): `RoutesByLongest`.
* **ReadinessProofs.** `Found`: each dependency whose turn is behind was found well or is in the errors, and what an
  observer saw during the probe covers the state of the moment. From it `AnswersJustified`, `BlamesFairly`.

## 6. What is only model-checked

Liveness: `NoLeak`, `Released`, `HalfCloseArrives`, `StatusArrives`, `ShutdownEnds`, `Answered`, `ProbeEnds`; TLAPS does not prove
properties under fairness. Every safety property of a passing run is also a theorem or a part of one.
The two findings are counterexamples of TLC.

## 7. What is not modelled

* Contents: messages, headers other than the request id, the user and the authorization, JSON, HMAC, log lines, wording
  of errors. HTTP trailers of an upstream pass unchanged, so `OneId` claims nothing about ids in them.
* Lua's floating point beyond NaN: `RetryExact` and `HeaderExact` are exact of fractions, while floats may tell a
  caller that was denied again and again a millisecond too early; Redis's own durability other than forgetting a key or a script.
* The insides of net/http, httputil, grpc-go and go-redis beyond what the modules' heads state.
* Go's memory model: that `Registry.Close` writes its map unlocked is harmless because no reader is left (`ClosedUnused`).
* Branches that no run reaches: a route without an upstream in `proxy/http.go` (`RoutesLead` shows why) and a reply of
  the script that `redis.go` cannot parse.
* The text of environment values: how `config` splits, trims and parses lists. `Startup` takes what the parsers return.
* The pattern language of net/http's ServeMux, which is all of `routing.Table.Match`, and its redirects.
* `/healthz`, which answers 200 whatever happens, and the raw codec of the gRPC proxy, which passes bytes through.
