------------------------------ MODULE Forwarding ------------------------------
(***************************************************************************)
(* Who an upstream is told that a call is for.  One call of either         *)
(* protocol goes through the layers that run puts around the proxies:      *)
(* request id, access log, authentication, rate limit; what they learn     *)
(* travels in the call's context, what the client sent in its headers      *)
(* (metadata).  From both the proxy makes the headers that the upstream    *)
(* gets, and the upstream's own come back through it.  Meanwhile time      *)
(* passes, and the token may expire.                                       *)
(*                                                                         *)
(* Of the headers only three matter: the request id, the user id (named    *)
(* by JWT_USER_ID_HEADER, never empty and taken to be neither of the other *)
(* two) and the authorization.  HMAC, JSON and the prefixes that make a    *)
(* path public are abstracted to what they say of a call.                  *)
(***************************************************************************)
EXTENDS Integers, Sequences, SequencesExt

CONSTANTS
  None,
  Ids,      \* valid UUIDs that clients and upstreams may send
  Minted,   \* the UUIDv7 that the gateway makes for this call
  Users,
  Tokens,   \* bearer tokens
  Values,   \* whatever else a header may hold
  Clients,  \* [proto, public, headers]: calls that may come
  Configs,
  Leeway,   \* JWT_LEEWAY
  MaxTime   \* bound: the clock stops here

Header == {"id", "user", "auth"}
Headers == [Header -> Seq(Ids \cup {Minted} \cup Users \cup Tokens \cup Values)]
Token ==
  [alg : {"HS256", "other"}, signed : BOOLEAN, \* under our secret
   expires : Nat \cup {None}, notBefore : Nat,
   addressed : BOOLEAN,                        \* issuer and audience are ours
   user : Users \cup {None}]                   \* a claim that is not blank
Config ==
  [jwt : BOOLEAN, forward : BOOLEAN,           \* JWT_FORWARD_AUTHORIZATION
   addressed : BOOLEAN,                        \* JWT_ISSUER or JWT_AUDIENCE
   limit : BOOLEAN]

ASSUME ForwardingAssumption ==
  /\ Minted \notin Ids \cup Users \cup Tokens \cup Values
  /\ None \notin Ids \cup {Minted} \cup Users \cup Tokens \cup Values \cup Nat
  /\ Tokens \subseteq Token /\ Configs \subseteq Config
  /\ Clients \subseteq [proto : {"http", "grpc"}, public : BOOLEAN,
                        headers : Headers]
  /\ \A c \in Clients : \A h \in Header : ~Contains(c.headers[h], Minted)
  /\ Leeway \in Nat /\ MaxTime \in Nat

VARIABLES
  config,
  client,
  clock,
  began,    \* when the call came
  at,       \* the layer the call is in
  headers,  \* the request's headers, as the layers pass them on
  ctx,      \* the context: [id, user]
  logged,   \* the request id in the access log
  charged,  \* the user whose bucket paid; None: the client's address did
  pending,  \* ids in the header map of the answer
  sent,     \* the headers that the upstream got
  answers   \* the blocks of headers that the client got, [kind, ids]

vars == <<config, client, clock, began, at, headers, ctx, logged, charged,
          pending, sent, answers>>

Nothing == [h \in Header |-> <<>>]
Only(x) == IF x = None THEN <<>> ELSE <<x>>
First(s) == IF s = <<>> THEN None ELSE Head(s)

-----------------------------------------------------------------------------
\* Mutant: the limiter outside of authentication.
LimitOutside == <<"id", "log", "limit", "jwt", "proxy">>
\* The order in which run and NewHandler wrap.
Chain == <<"id", "log", "jwt", "limit", "proxy">>

\* Behind the last layer the call is at its upstream, or over.
Upstream == Len(Chain) + 1
Over == Len(Chain) + 2

ForwardAuthorization == ~config.jwt \/ config.forward

TypeOK ==
  /\ config \in Configs /\ client \in Clients
  /\ clock \in 0..MaxTime /\ began \in 0..clock
  /\ at \in 1..Over
  /\ headers \in Headers /\ sent \in Headers
  /\ ctx \in [id : Ids \cup {Minted, None}, user : Users \cup {None}]
  /\ logged \in Ids \cup {Minted, None}
  /\ charged \in Users \cup {None}
  /\ pending \in Seq(Ids \cup {Minted})
  /\ answers \in Seq([kind : {"interim", "header", "trailer"},
                      ids : Seq(Ids \cup {Minted})])

Init ==
  /\ config \in Configs /\ client \in Clients
  /\ clock \in 0..MaxTime /\ began = clock
  /\ at = 1
  /\ headers = client.headers /\ sent = Nothing
  /\ ctx = [id |-> None, user |-> None]
  /\ logged = None /\ charged = None
  /\ pending = <<>> /\ answers = <<>>

In(l) == at <= Len(Chain) /\ Chain[at] = l
Pass == at' = at + 1 /\ UNCHANGED answers
Block(k, i) == [kind |-> k, ids |-> i]
\* A layer, or the proxy, answers itself.
Refuse == at' = Over /\ answers' = Append(answers, Block("header", pending))

-----------------------------------------------------------------------------
(***************************************************************************)
(* The layers.                                                             *)
(***************************************************************************)
\* incomingRequestID: the first one, if it is a UUID.
IncomingRequestID(ids) == IF First(ids) \in Ids THEN First(ids) ELSE None

RequestID ==
  /\ In("id")
  /\ LET given == IncomingRequestID(headers.id)
         id == IF given = None THEN Minted ELSE given IN
     ctx' = [ctx EXCEPT !.id = id] /\ pending' = <<id>>
  /\ Pass
  /\ UNCHANGED <<config, client, clock, began, headers, logged, charged, sent>>

\* AccessLog writes its line at the end, from the context it was given.
AccessLog ==
  /\ In("log")
  /\ logged' = ctx.id
  /\ Pass
  /\ UNCHANGED <<config, client, clock, began, headers, ctx, charged, pending,
                 sent>>

\* Mutant: WithLeeway instead of WithExpirationRequired.
ValidateUnlimited(t) ==
  /\ t.alg = "HS256" /\ t.signed
  /\ t.expires # None => clock < t.expires + Leeway
  /\ t.notBefore <= clock + Leeway
  /\ config.addressed => t.addressed
  /\ t.user # None
\* Validate accepts the token.
Validate(t) ==
  /\ t.alg = "HS256" /\ t.signed
  /\ t.expires # None /\ clock < t.expires + Leeway
  /\ t.notBefore <= clock + Leeway
  /\ config.addressed => t.addressed
  /\ t.user # None

\* Layers that are not configured are not there.
Skip ==
  /\ (In("jwt") /\ ~config.jwt) \/ (In("limit") /\ ~config.limit)
  /\ Pass
  /\ UNCHANGED <<config, client, clock, began, headers, ctx, logged, charged,
                 pending, sent>>

\* The HTTP middleware removes the user id first.
JWTAuth ==
  /\ In("jwt") /\ config.jwt
  /\ headers' = IF client.proto = "http" THEN [headers EXCEPT !.user = <<>>]
                ELSE headers
  /\ LET token == First(headers.auth) IN
     \/ client.public /\ Pass /\ UNCHANGED ctx
     \/ /\ ~client.public /\ token \in Tokens /\ Validate(token)
        /\ ctx' = [ctx EXCEPT !.user = token.user]
        /\ Pass
     \/ /\ ~client.public /\ ~(token \in Tokens /\ Validate(token))
        /\ Refuse /\ UNCHANGED ctx
  /\ UNCHANGED <<config, client, clock, began, logged, charged, pending, sent>>

\* RateLimit pays from the context's user, and lets pass or refuses.
RateLimit ==
  /\ In("limit") /\ config.limit
  /\ charged' = ctx.user
  /\ Pass \/ Refuse
  /\ UNCHANGED <<config, client, clock, began, headers, ctx, logged, pending,
                 sent>>

-----------------------------------------------------------------------------
(***************************************************************************)
(* The proxies.                                                            *)
(***************************************************************************)
\* Mutant: the client's user id is replaced, but not removed.
RewriteReplacing(h) ==
  [h EXCEPT !.id = Only(ctx.id),
            !.user = IF ctx.user = None THEN @ ELSE <<ctx.user>>,
            !.auth = IF ForwardAuthorization THEN @ ELSE <<>>]
\* Rewrite, over HTTP.
Rewrite(h) ==
  [h EXCEPT !.id = Only(ctx.id), !.user = Only(ctx.user),
            !.auth = IF ForwardAuthorization THEN @ ELSE <<>>]

\* proxyMetadata, over gRPC.
ProxyMetadata(h) ==
  [h EXCEPT !.auth = IF ForwardAuthorization THEN @ ELSE <<>>,
            !.id = Only(ctx.id), !.user = Only(ctx.user)]

\* Mutant: Append instead of Set.
AppendRequestIDMetadata(md) == [md EXCEPT !.id = @ \o Only(ctx.id)]
\* StreamRequestIDInterceptor of the connection.
WithRequestIDMetadata(md) ==
  IF ctx.id = None THEN md ELSE [md EXCEPT !.id = <<ctx.id>>]

Forward ==
  /\ In("proxy")
  /\ sent' = IF client.proto = "http" THEN Rewrite(headers)
             ELSE WithRequestIDMetadata(ProxyMetadata(headers))
  /\ at' = Upstream
  /\ UNCHANGED <<config, client, clock, began, headers, ctx, logged, charged,
                 pending, answers>>

\* No route, no connection.
Unroutable ==
  /\ In("proxy") /\ Refuse
  /\ UNCHANGED <<config, client, clock, began, headers, ctx, logged, charged,
                 pending, sent>>

\* ReverseProxy passes a 1xx answer on at once, and clears the header map.
Interim ==
  /\ at = Upstream /\ client.proto = "http" /\ answers = <<>>
  /\ \E i \in {<<>>} \cup {<<x>> : x \in Ids} :
       answers' = Append(answers, Block("interim", pending \o i))
  /\ pending' = <<>>
  /\ UNCHANGED <<config, client, clock, began, at, headers, ctx, logged,
                 charged, sent>>

\* ModifyResponse puts the gateway's id into the upstream's header, and
\* ReverseProxy adds that to what is in the map.
ModifyResponse(up) == IF ctx.id = None THEN up ELSE <<ctx.id>>

HttpAnswer ==
  /\ at = Upstream /\ client.proto = "http" /\ at' = Over
  /\ \E up, trailer \in {<<>>} \cup {<<x>> : x \in Ids} :
       answers' = answers \o <<Block("header", pending \o ModifyResponse(up)),
                               Block("trailer", trailer)>>
  /\ UNCHANGED <<config, client, clock, began, headers, ctx, logged, charged,
                 pending, sent>>

\* ErrorHandler: http.Error with the header map as it is.  Over gRPC, the
\* upstream's error comes before its headers.
UpstreamFails ==
  /\ at = Upstream /\ Refuse
  /\ UNCHANGED <<config, client, clock, began, headers, ctx, logged, charged,
                 pending, sent>>

\* forwardBackendToClient deletes the id from headers and trailers.
Stripped(ids) == <<>>

GrpcAnswer ==
  /\ at = Upstream /\ client.proto = "grpc" /\ at' = Over
  /\ \E up, trailer \in {<<>>} \cup {<<x>> : x \in Ids} :
       answers' = answers \o <<Block("header", pending \o Stripped(up)),
                               Block("trailer", Stripped(trailer))>>
  /\ UNCHANGED <<config, client, clock, began, headers, ctx, logged, charged,
                 pending, sent>>

\* Layers wait for Redis, and the proxies for a connection.
Tick ==
  /\ at # Over /\ clock < MaxTime
  /\ clock' = clock + 1
  /\ UNCHANGED <<config, client, began, at, headers, ctx, logged, charged,
                 pending, sent, answers>>

Next ==
  \/ RequestID \/ AccessLog \/ Skip \/ JWTAuth \/ RateLimit
  \/ Forward \/ Unroutable
  \/ Interim \/ HttpAnswer \/ GrpcAnswer \/ UpstreamFails
  \/ Tick

Spec == Init /\ [][Next]_vars

-----------------------------------------------------------------------------
(***************************************************************************)
(* Properties.                                                             *)
(***************************************************************************)
Reached == sent # Nothing

\* Token t spoke for user u at time m.
Vouches(t, u, m) ==
  /\ t.alg = "HS256" /\ t.signed /\ t.user = u
  /\ t.expires # None /\ m < t.expires + Leeway /\ t.notBefore <= m + Leeway
  /\ config.addressed => t.addressed

\* An upstream is told the user that a token of the client spoke for at some
\* moment of the call, and on public paths or without authentication no user:
\* never what the client claims, on neither protocol.  The token itself gets
\* through only where the gateway does not check it or is told to forward it.
TrustedHeaders ==
  Reached =>
    /\ IF config.jwt /\ ~client.public
       THEN \E u \in Users, m \in began..clock :
              /\ sent.user = <<u>>
              /\ Vouches(Head(client.headers.auth), u, m)
       ELSE sent.user = <<>>
    /\ sent.auth = IF config.jwt /\ ~config.forward THEN <<>>
                      ELSE client.headers.auth

\* The user the upstream is told of is the one whose bucket paid.
ChargedAsTold ==
  Reached /\ config.limit => sent.user = Only(charged)

\* The access log, the upstream and the client know a call under one id,
\* whatever ids client and upstream send, once or twice: the upstream gets it
\* exactly once, a final answer has no other, and none comes in the trailers
\* of a gRPC call.
OneId ==
  /\ Reached => sent.id = <<logged>>
  /\ \A i \in DOMAIN answers :
       LET ids == ToSet(answers[i].ids) IN
       /\ answers[i].kind = "header" =>
            IF \E j \in DOMAIN answers : answers[j].kind = "interim"
            THEN ids \subseteq {logged} ELSE ids = {logged}
       /\ answers[i].kind = "trailer" /\ client.proto = "grpc" => ids = {}

-----------------------------------------------------------------------------
\* What the layers behind have established.
Known ==
  /\ at = 1 <=> ctx.id = None
  /\ at > 2 => logged = ctx.id
  /\ at <= 3 => ctx.user = None
  /\ at \in 4..Upstream /\ config.jwt /\ ~client.public => ctx.user # None
  /\ ctx.user # None =>
       /\ config.jwt /\ ~client.public
       /\ \E m \in began..clock : Vouches(Head(client.headers.auth), ctx.user, m)
  /\ at \in 5..Upstream /\ config.limit => charged = ctx.user
  /\ headers.auth = client.headers.auth

\* What the upstream was told is what they found out.
Told ==
  IF at <= Len(Chain) THEN sent = Nothing
  ELSE Reached \/ at = Upstream =>
         /\ sent.id = <<ctx.id>> /\ sent.user = Only(ctx.user)
         /\ sent.auth = IF ForwardAuthorization THEN client.headers.auth ELSE <<>>
         /\ config.jwt /\ ~client.public => ctx.user # None
         /\ config.limit => charged = ctx.user

\* The header map loses the id only to an interim answer.
Named ==
  /\ at < Upstream => answers = <<>>
  /\ at > 1 => pending \in {<<>>, <<ctx.id>>}
  /\ at > 1 /\ pending = <<>> => \E i \in DOMAIN answers : answers[i].kind = "interim"
  /\ at = Upstream => \A i \in DOMAIN answers : answers[i].kind = "interim"

\* The inductive invariant.
IInv == TypeOK /\ Known /\ Told /\ Named /\ OneId
=============================================================================
