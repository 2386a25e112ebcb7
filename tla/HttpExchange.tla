---------------------------- MODULE HttpExchange ----------------------------
(***************************************************************************)
(* One HTTP exchange through the chain that run and NewHandler build:      *)
(* AccessLog, Recovery, JWTAuth, RateLimit, BodyLimit, HTTPDispatcher and  *)
(* the ReverseProxy of one upstream.  The handler goroutine runs the chain *)
(* while a client sends a body, reads or leaves, the transport copies that *)
(* body to the upstream, the upstream answers, stalls or breaks off, and   *)
(* the request timeout passes.                                             *)
(*                                                                         *)
(* net/http and httputil.ReverseProxy are external; what the code relies   *)
(* on:                                                                     *)
(*  - ReverseProxy calls ErrorHandler when no response came, and panics    *)
(*    with ErrAbortHandler when the copy of a response body fails;         *)
(*  - it hijacks the connection of an upgrade, past every middleware;      *)
(*  - closing a request body waits for a read of it that is under way;     *)
(*  - a dial that times out is a DeadlineExceeded, like the request's own; *)
(*  - a response ends well when its handler returns, unless less was       *)
(*    written than its Content-Length.                                     *)
(* Bodies are counted in units; a response has Unknown length when it is   *)
(* chunked.                                                                *)
(***************************************************************************)
EXTENDS Integers

CONSTANTS
  Users,     \* authenticated users
  NoUser,
  Configs,   \* configurations of the gateway
  Requests,  \* requests a client may make
  MaxResp,   \* bound on an upstream's response, in units
  Window,    \* units a client may leave unread before a write blocks
  TextSize   \* units of an error text

Unknown == -1
Config == [jwt : BOOLEAN, limiter : {"off", "closed", "open"},
           maxBody : Nat, timeout : BOOLEAN]
Request == [public : BOOLEAN, token : Users \cup {NoUser},
            claim : Users \cup {NoUser}, routed : BOOLEAN, declared : BOOLEAN,
            size : Nat, upgrade : BOOLEAN]

ASSUME ExchangeAssumption ==
  /\ NoUser \notin Users
  /\ Configs \subseteq Config
  /\ Requests \subseteq Request
  /\ MaxResp \in Nat /\ Window \in Nat \ {0} /\ TextSize \in Nat \ {0}

VARIABLES
  cfg, req,  \* the configuration and the request
  pc,        \* the innermost handler that is running
  header,    \* the user in the request's user header, NoUser without one
  user,      \* the identity in the request's context
  verdict,   \* of the rate limiter
  ctx,       \* the request's context
  gone,      \* the client has left
  arrived,   \* units of the request body that have arrived
  body,      \* [sent, end]: the request body as the upstream sees it
  up,        \* [phase, head, user, length, sent]: the upstream
  held,      \* units the copy loop has read and not yet written
  panicked,  \* the handler panics
  reported,  \* Recovery has logged a panic
  out,       \* [writer, status, length, good, text, end]: the response; writer
             \* is AccessLog's statusCode, the rest is what the client is sent
  read,      \* units of the response the client has read
  logged     \* the status in the access log, 0 before

request == <<cfg, req>>
inner == <<header, user, verdict>>
client == <<gone, arrived, read>>
logs == <<reported, logged>>
vars == <<cfg, req, pc, header, user, verdict, ctx, gone, arrived, body, up, held,
          panicked, reported, out, read, logged>>

Statuses == {0, 101, 103, 200, 401, 404, 413, 429, 500, 502, 503, 504}
BodyState == [sent : Nat, end : {"open", "whole", "broken"}]
UpstreamState ==
  [phase : {"idle", "working", "streaming", "upgraded", "ended", "reset"},
   head : BOOLEAN, user : Users \cup {NoUser},
   length : Unknown..MaxResp, sent : 0..MaxResp]
Response == [writer : Statuses, status : Statuses, length : Unknown..MaxResp,
             good : 0..MaxResp, text : BOOLEAN,
             end : {"open", "complete", "broken"}]
TypeOK ==
  /\ cfg \in Configs /\ req \in Requests
  /\ pc \in {"auth", "limit", "body", "dispatch", "roundtrip", "copy", "relay",
             "closing", "panicking", "returned", "logged", "done"}
  /\ header \in Users \cup {NoUser} /\ user \in Users \cup {NoUser}
  /\ verdict \in {"none", "allowed", "denied", "failed"}
  /\ ctx \in {"live", "deadline", "cancelled"}
  /\ gone \in BOOLEAN /\ panicked \in BOOLEAN /\ reported \in BOOLEAN
  /\ arrived \in 0..req.size
  /\ body \in BodyState /\ body.sent <= req.size
  /\ up \in UpstreamState
  /\ held \in 0..1
  /\ out \in Response
  /\ read \in 0..MaxResp
  /\ logged \in Statuses

Init ==
  /\ cfg \in Configs /\ req \in Requests
  /\ pc = IF cfg.jwt THEN "auth" ELSE IF cfg.limiter # "off" THEN "limit" ELSE "body"
  /\ header = req.claim /\ user = NoUser /\ verdict = "none" /\ ctx = "live"
  /\ gone = FALSE /\ panicked = FALSE /\ reported = FALSE
  /\ arrived = 0 /\ held = 0 /\ read = 0
  /\ body = [sent |-> 0, end |-> "open"]
  /\ up = [phase |-> "idle", head |-> FALSE, user |-> NoUser,
           length |-> Unknown, sent |-> 0]
  /\ out = [writer |-> 0, status |-> 0, length |-> Unknown, good |-> 0,
            text |-> FALSE, end |-> "open"]
  /\ logged = 0

-----------------------------------------------------------------------------
(***************************************************************************)
(* AccessLog's responseWriter.                                             *)
(***************************************************************************)
\* Mutant: a second status overwrites the one to be logged.
WriteHeaderAgain(o, s, n) ==
  CASE s \in 100..199 -> o
    [] s \notin 100..199 /\ o.writer = 0 ->
         [o EXCEPT !.writer = s, !.status = s, !.length = n]
    [] OTHER -> [o EXCEPT !.writer = s]
\* The first final status counts; interim ones pass through.
WriteHeader(o, s, n) ==
  IF s \in 100..199 \/ o.writer # 0 THEN o
  ELSE [o EXCEPT !.writer = s, !.status = s, !.length = n]

\* A text that does not fit the declared length is refused.
WriteText(o) ==
  [o EXCEPT !.text = o.length = Unknown \/ o.good + TextSize <= o.length]

HttpError(s) == out' = WriteText(WriteHeader(out, s, Unknown))

\* A middleware answers and does not call next.
Answer(s) == HttpError(s) /\ pc' = "returned"
Pass(next) == pc' = next /\ out' = out

-----------------------------------------------------------------------------
(***************************************************************************)
(* The middlewares.                                                        *)
(***************************************************************************)
\* Mutant: a validated token leads straight to the body limit.
AfterAuthUnlimited == "body"
AfterAuth == IF cfg.limiter # "off" THEN "limit" ELSE "body"

\* Mutant: a refused token is answered, and next is called all the same.
JWTAuthFallsThrough ==
  /\ pc = "auth" /\ header' = NoUser
  /\ user' = IF req.public THEN NoUser ELSE req.token
  /\ Pass(AfterAuth)
  /\ UNCHANGED <<request, verdict, ctx, client, body, up, held, panicked, logs>>
\* The client's user header is deleted, on public paths too.  A missing and an
\* invalid token are one: no user.
JWTAuth ==
  /\ pc = "auth" /\ header' = NoUser
  /\ IF req.public THEN user' = NoUser /\ Pass(AfterAuth)
     ELSE /\ user' = req.token
          /\ IF req.token = NoUser THEN Answer(401) ELSE Pass(AfterAuth)
  /\ UNCHANGED <<request, verdict, ctx, client, body, up, held, panicked, logs>>

RateLimit ==
  /\ pc = "limit"
  /\ \E v \in {"allowed", "denied", "failed"} :
       /\ verdict' = v
       /\ CASE v = "denied" -> Answer(429)
            [] v = "failed" /\ cfg.limiter = "closed" -> Answer(503)
            [] OTHER -> Pass("body")
  /\ UNCHANGED <<request, header, user, ctx, client, body, up, held, panicked, logs>>

BodyLimit ==
  /\ pc = "body"
  /\ IF cfg.maxBody > 0 /\ req.declared /\ req.size > cfg.maxBody
     THEN Answer(413) ELSE Pass("dispatch")
  /\ UNCHANGED <<request, inner, ctx, client, body, up, held, panicked, logs>>

\* A route's upstream is always there (RoutesLead of Startup).
Dispatch ==
  /\ pc = "dispatch"
  /\ IF req.routed THEN Pass("roundtrip") ELSE Answer(404)
  /\ UNCHANGED <<request, inner, ctx, client, body, up, held, panicked, logs>>

-----------------------------------------------------------------------------
(***************************************************************************)
(* The request on its way to the upstream.                                 *)
(***************************************************************************)
\* Header.Set, for a context with a user only.
SetUser(h) == IF user # NoUser THEN user ELSE h
\* Mutant: the client's user header is replaced, but not deleted.
RewriteReplacing(h) == SetUser(h)
\* The user header of the request to the upstream, whose headers begin as the
\* client's: deleted, then set.  Without JWTAuth nobody else deletes it.
Rewrite(h) == LET deleted == NoUser IN SetUser(deleted)

Connect ==
  /\ pc = "roundtrip" /\ up.phase = "idle"
  /\ up' = [up EXCEPT !.phase = "working", !.user = Rewrite(header)]
  /\ UNCHANGED <<request, pc, inner, ctx, client, body, held, panicked, out,
                 logs>>

Sending == pc \in {"roundtrip", "copy"} /\ up.phase # "idle" /\ body.end = "open"

\* Mutant: only the declared length is limited.
MayReadAlways == TRUE
\* MaxBytesReader lets the first maxBody units through.
MayRead == cfg.maxBody = 0 \/ body.sent < cfg.maxBody

SendUnit ==
  /\ Sending /\ body.sent < arrived
  /\ body' = IF MayRead THEN [body EXCEPT !.sent = @ + 1]
             ELSE [body EXCEPT !.end = "broken"]
  /\ UNCHANGED <<request, pc, inner, ctx, client, up, held, panicked, out, logs>>

\* The body's end, or that of the client in the middle of it.
SendEnd ==
  /\ Sending /\ body.sent = arrived
  /\ \/ arrived = req.size /\ body' = [body EXCEPT !.end = "whole"]
     \/ arrived < req.size /\ gone /\ body' = [body EXCEPT !.end = "broken"]
  /\ UNCHANGED <<request, pc, inner, ctx, client, up, held, panicked, out, logs>>

Transport == Connect \/ SendUnit \/ SendEnd

-----------------------------------------------------------------------------
(***************************************************************************)
(* The upstream.                                                           *)
(***************************************************************************)
UpstreamUnchanged ==
  UNCHANGED <<request, pc, inner, ctx, client, body, held, panicked, logs>>

UpstreamHead ==
  /\ up.phase = "working"
  /\ \E n \in Unknown..MaxResp :
       up' = [up EXCEPT !.phase = "streaming", !.head = TRUE, !.length = n]
  /\ out' = out /\ UpstreamUnchanged

\* 103 Early Hints, relayed at once by ReverseProxy.
UpstreamHints ==
  /\ pc = "roundtrip" /\ up.phase = "working"
  /\ up' = up /\ out' = WriteHeader(out, 103, Unknown) /\ UpstreamUnchanged

UpstreamUpgrades ==
  /\ up.phase = "working" /\ req.upgrade
  /\ up' = [up EXCEPT !.phase = "upgraded", !.head = TRUE]
  /\ out' = out /\ UpstreamUnchanged

UpstreamSends ==
  /\ up.phase = "streaming"
  /\ up.sent < IF up.length = Unknown THEN MaxResp ELSE up.length
  /\ up' = [up EXCEPT !.sent = @ + 1]
  /\ out' = out /\ UpstreamUnchanged

UpstreamEnds ==
  /\ \/ up.phase = "streaming" /\ (up.length # Unknown => up.sent = up.length)
     \/ up.phase = "upgraded" /\ pc = "relay"
  /\ up' = [up EXCEPT !.phase = "ended"]
  /\ out' = out /\ UpstreamUnchanged

UpstreamResets ==
  /\ \/ up.phase \in {"working", "streaming"}
     \/ up.phase = "upgraded" /\ pc = "relay"
  /\ up' = [up EXCEPT !.phase = "reset"]
  /\ out' = out /\ UpstreamUnchanged

Upstream == UpstreamHead \/ UpstreamHints \/ UpstreamUpgrades \/ UpstreamSends
            \/ UpstreamEnds \/ UpstreamResets

-----------------------------------------------------------------------------
(***************************************************************************)
(* ReverseProxy.ServeHTTP.  It closes the request body on every way out.   *)
(***************************************************************************)
Broken == up.phase = "reset" \/ body.end = "broken" \/ ctx # "live"

\* Mutant: ErrorHandler tells a timeout by the upstream, not by the context.
ErrorStatusByPeer(slowDial) ==
  IF slowDial \/ up.phase # "reset" THEN 504 ELSE 502
\* ErrorHandler.
ErrorStatus(slowDial) == IF slowDial \/ ctx = "deadline" THEN 504 ELSE 502

RoundTripFails ==
  /\ pc = "roundtrip"
  /\ \E slowDial \in BOOLEAN :
       /\ IF slowDial THEN up.phase = "idle" ELSE up.phase = "idle" \/ Broken
       /\ HttpError(ErrorStatus(slowDial))
  /\ pc' = "closing"
  /\ UNCHANGED <<request, inner, ctx, client, body, up, held, panicked, logs>>

RoundTripReturns ==
  /\ pc = "roundtrip" /\ up.head
  /\ IF up.phase = "upgraded"
     THEN pc' = "relay" /\ out' = [out EXCEPT !.status = 101]
     ELSE pc' = "copy" /\ out' = WriteHeader(out, 200, up.length)
  /\ UNCHANGED <<request, inner, ctx, client, body, up, held, panicked, logs>>

CopyRead ==
  /\ pc = "copy" /\ held = 0 /\ out.good < up.sent
  /\ held' = 1
  /\ UNCHANGED <<request, pc, inner, ctx, client, body, up, panicked, out, logs>>

CopyWrite ==
  /\ pc = "copy" /\ held = 1 /\ ~gone /\ out.good - read < Window
  /\ held' = 0 /\ out' = [out EXCEPT !.good = @ + 1]
  /\ UNCHANGED <<request, pc, inner, ctx, client, body, up, panicked, logs>>

CopyEnds ==
  /\ pc = "copy" /\ held = 0 /\ up.phase = "ended" /\ out.good = up.sent
  /\ pc' = "closing"
  /\ UNCHANGED <<request, inner, ctx, client, body, up, held, panicked, out, logs>>

\* A read from the upstream or a write to the client fails: ErrAbortHandler.
CopyFails ==
  /\ pc = "copy" /\ IF held = 0 THEN Broken ELSE gone
  /\ pc' = "closing" /\ panicked' = TRUE
  /\ UNCHANGED <<request, inner, ctx, client, body, up, held, out, logs>>

RelayEnds ==
  /\ pc = "relay" /\ (up.phase \in {"ended", "reset"} \/ gone \/ ctx # "live")
  /\ pc' = "closing"
  /\ UNCHANGED <<request, inner, ctx, client, body, up, held, panicked, out, logs>>

\* The transport is inside a read of the client's connection.
BodyReadPending ==
  /\ up.phase # "idle" /\ body.end = "open" /\ ~gone
  /\ body.sent = arrived /\ arrived < req.size

CloseBody ==
  /\ pc = "closing" /\ ~BodyReadPending
  /\ pc' = IF panicked THEN "panicking" ELSE "returned"
  /\ UNCHANGED <<request, inner, ctx, client, body, up, held, panicked, out, logs>>

ReverseProxy == RoundTripFails \/ RoundTripReturns \/ CopyRead \/ CopyWrite
                \/ CopyEnds \/ CopyFails \/ RelayEnds \/ CloseBody

-----------------------------------------------------------------------------
(***************************************************************************)
(* The way out: Recovery, AccessLog, net/http.                             *)
(***************************************************************************)
\* Mutant: Recovery is outside AccessLog, and a panic passes the log by.
RecoveryOutside ==
  /\ pc = "panicking"
  /\ HttpError(500) /\ pc' = "logged" /\ reported' = TRUE
  /\ UNCHANGED <<request, inner, ctx, client, body, up, held, panicked, logged>>
Recovery ==
  /\ pc = "panicking"
  /\ Answer(500) /\ reported' = TRUE
  /\ UNCHANGED <<request, inner, ctx, client, body, up, held, panicked, logged>>

AccessLog ==
  /\ pc = "returned"
  /\ logged' = IF out.writer = 0 THEN 200 ELSE out.writer
  /\ pc' = "logged"
  /\ UNCHANGED <<request, inner, ctx, client, body, up, held, panicked, reported, out>>

Written == out.good + IF out.text THEN TextSize ELSE 0

FinishResponse ==
  /\ pc = "logged"
  /\ out' = [out EXCEPT !.end = IF ~gone /\ out.length \in {Unknown, Written}
                                THEN "complete" ELSE "broken"]
  /\ pc' = "done"
  /\ UNCHANGED <<request, inner, ctx, client, body, up, held, panicked, logs>>

Handler == JWTAuth \/ RateLimit \/ BodyLimit \/ Dispatch \/ ReverseProxy
           \/ Recovery \/ AccessLog \/ FinishResponse

-----------------------------------------------------------------------------
(***************************************************************************)
(* The request's context and the client.                                   *)
(***************************************************************************)
\* Mutant: the upstream is not given the context with the timeout.
DeadlineForGood ==
  /\ ctx = "live" /\ cfg.timeout /\ pc \in {"copy", "relay"}
  /\ ctx' = "deadline"
  /\ UNCHANGED <<request, pc, inner, client, body, up, held, panicked, out, logs>>
\* UPSTREAM_REQUEST_TIMEOUT passes; Dispatch set it.
Deadline ==
  /\ ctx = "live" /\ cfg.timeout /\ pc \in {"roundtrip", "copy", "relay"}
  /\ ctx' = "deadline"
  /\ UNCHANGED <<request, pc, inner, client, body, up, held, panicked, out, logs>>

ClientSends ==
  /\ ~gone /\ arrived < req.size /\ pc # "done"
  /\ arrived' = arrived + 1
  /\ UNCHANGED <<request, pc, inner, ctx, gone, read, body, up, held, panicked,
                 out, logs>>

ClientReads ==
  /\ ~gone /\ read < out.good
  /\ read' = read + 1
  /\ UNCHANGED <<request, pc, inner, ctx, gone, arrived, body, up, held,
                 panicked, out, logs>>

ClientLeaves ==
  /\ ~gone /\ pc # "done"
  /\ gone' = TRUE
  /\ UNCHANGED <<request, pc, inner, ctx, arrived, read, body, up, held,
                 panicked, out, logs>>

\* net/http notices that the client left once it has read the body.
Cancel ==
  /\ gone /\ ctx = "live" /\ pc # "done"
  /\ ctx' = "cancelled"
  /\ UNCHANGED <<request, pc, inner, client, body, up, held, panicked, out, logs>>

Client == ClientSends \/ ClientReads \/ ClientLeaves

Next == Handler \/ Transport \/ Upstream \/ Deadline \/ Client \/ Cancel

\* Goroutines and timers run; clients and upstreams need not do anything.
Fairness == WF_vars(Handler) /\ WF_vars(Transport) /\ WF_vars(Deadline)
Spec == Init /\ [][Next]_vars /\ Fairness

-----------------------------------------------------------------------------
(***************************************************************************)
(* Properties.                                                             *)
(***************************************************************************)
Reached == up.phase # "idle"

\* A request reaches an upstream only when every gate that is configured let
\* it: a valid token unless its path is public, and the limiter's leave or,
\* when it failed, the choice to fail open (the chain of main.go).
Admission ==
  Reached =>
    /\ cfg.jwt /\ ~req.public => req.token # NoUser
    /\ cfg.limiter = "closed" => verdict = "allowed"
    /\ cfg.limiter = "open" => verdict \in {"allowed", "failed"}
    /\ cfg.maxBody > 0 /\ req.declared => req.size <= cfg.maxBody

\* The user an upstream is told of is the one whose token was verified for
\* this request, never the one that the client's header claims, also on public
\* paths and with authentication off, when that header comes as far as Rewrite
\* (JWTAuth and Rewrite).
TrustedUser ==
  up.user # NoUser => cfg.jwt /\ ~req.public /\ up.user = req.token

\* No upstream takes a body over the limit for a whole one, declared or not,
\* nor is it sent more than the limit (BodyLimit).
BodyBounded ==
  cfg.maxBody > 0 =>
    /\ body.sent <= cfg.maxBody
    /\ body.end = "whole" => req.size <= cfg.maxBody

\* The access log tells the status the client was sent, whatever is written
\* after it: interim statuses, the 500 of Recovery (responseWriter).  An
\* upgrade is the exception: it is logged as 200.
LogIsTrue ==
  logged # 0 => logged = IF out.status = 101 THEN 200 ELSE out.status

\* A gateway error has the cause it names: 504 a timeout of the request or of
\* the dial, 502 an upstream that broke off or refused, a body that broke or
\* a client that left; and no answer of an upstream ever becomes one
\* (ErrorHandler).
ErrorHasCause ==
  /\ out.status = 504 => ctx = "deadline" \/ ~Reached
  /\ out.status = 502 =>
       ~Reached \/ up.phase = "reset" \/ body.end = "broken" \/ ctx = "cancelled"
  /\ out.status \in {502, 504} => out.good = 0
  /\ out.status # 500

-----------------------------------------------------------------------------
(***************************************************************************)
(* The inductive invariant: what each place of the handler can rely on.    *)
(***************************************************************************)
Early == {"auth", "limit", "body", "dispatch"}

\* Nothing is sent to either side before the proxy runs, and nothing to the
\* client before its round trip is over.
Silent ==
  /\ pc \in Early => ~Reached /\ body.sent = 0 /\ body.end = "open"
  /\ pc \in Early \cup {"roundtrip"} =>
       /\ out.status = 0 /\ out.good = 0 /\ ~out.text
       /\ held = 0 /\ ~panicked
  /\ pc \notin Early \cup {"roundtrip"} => out.status # 0
  /\ pc # "copy" /\ ~panicked => held = 0
  /\ panicked => out.status = 200
  /\ pc = "copy" => out.status = 200 /\ Reached
  /\ pc = "relay" => out.status = 101
  /\ pc = "panicking" => panicked
  /\ pc \in {"returned", "logged", "done"} /\ panicked => reported

\* The gates that are behind the handler have let the request pass.
Gates ==
  /\ pc = "auth" => cfg.jwt
  /\ pc \in {"auth", "limit"} => verdict = "none"
  /\ pc # "auth" => user = IF cfg.jwt /\ ~req.public THEN req.token ELSE NoUser
  /\ Reached => up.user = user /\ pc # "auth"
  /\ ~Reached => up.user = NoUser
  /\ pc \in {"limit", "body", "dispatch", "roundtrip"} \/ Reached =>
       (cfg.jwt /\ ~req.public => req.token # NoUser)
  /\ pc \in {"body", "dispatch", "roundtrip"} \/ Reached =>
       /\ cfg.limiter = "closed" => verdict = "allowed"
       /\ cfg.limiter = "open" => verdict \in {"allowed", "failed"}
  /\ pc \in {"dispatch", "roundtrip"} \/ Reached =>
       (cfg.maxBody > 0 /\ req.declared => req.size <= cfg.maxBody)

\* The wrapper's status is the client's, and no more is written than came.
Consistent ==
  /\ out.writer = IF out.status = 101 THEN 0 ELSE out.status
  /\ out.status # 103
  /\ out.good + held <= up.sent
  /\ read <= out.good
  /\ up.length # Unknown => up.sent <= up.length
  /\ up.phase \in {"idle", "working"} =>
       ~up.head /\ up.sent = 0 /\ up.length = Unknown
  /\ up.phase = "streaming" => up.head
  /\ body.end = "whole" => body.sent = req.size

\* A handler that leaves the copy loop in peace has copied everything.
WholeAnswer == up.phase = "ended" /\ out.good = up.sent /\ ~out.text
Delivery ==
  /\ pc = "copy" => ~out.text /\ ~panicked
  /\ pc \notin Early \cup {"roundtrip", "copy"} /\ out.status = 200 /\ ~panicked =>
       WholeAnswer
  /\ out.end # "open" => pc = "done"
  /\ logged # 0 <=> pc \in {"logged", "done"}
  /\ reported => pc \in {"returned", "logged", "done"}

IInv ==
  TypeOK /\ Silent /\ Gates /\ Consistent /\ Delivery /\ BodyBounded
  /\ LogIsTrue /\ ErrorHasCause

-----------------------------------------------------------------------------
\* A response that looks complete and is not the upstream's whole answer has
\* its panic in the log (Recovery).
CutIsLogged ==
  out.end = "complete" /\ out.status = 200 /\ ~WholeAnswer => reported

(***************************************************************************)
(* The chain of handlers and the goroutines beside it implement one        *)
(* faithful exchange, step by step: one status, sent before anything else  *)
(* and logged once; nothing for an upstream once the client was refused;   *)
(* nothing for the client behind the log line but the end.                 *)
(***************************************************************************)
Terms ==
  [barred |-> \/ cfg.jwt /\ ~req.public /\ req.token = NoUser
              \/ cfg.maxBody > 0 /\ req.declared /\ req.size > cfg.maxBody,
   user |-> IF cfg.jwt /\ ~req.public THEN req.token ELSE NoUser,
   size |-> req.size, limit |-> cfg.maxBody]

Granted == \/ cfg.limiter = "off" \/ verdict = "allowed"
           \/ verdict = "failed" /\ cfg.limiter = "open"

Faithful == INSTANCE HttpRelay WITH
  terms <- Terms, granted <- Granted, asked <- Reached, told <- up.user,
  answer <- CASE up.phase \in {"ended", "reset"} -> up.phase
              [] up.phase \in {"streaming", "upgraded"} -> "open"
              [] OTHER -> "none",
  sent <- up.sent, status <- out.status, good <- out.good, text <- out.text,
  end <- out.end, aborted <- panicked

IsFaithful == Faithful!Spec

\* A handler that is aborted is told of: the client sees an error status or a
\* response that breaks off, never a complete one with a good status.
AbortIsTold ==
  out.end = "complete" /\ panicked => out.status >= 500

\* With a request timeout, every exchange comes to its end and to its log
\* line, whatever the upstream does, unless its client stalls for good in the
\* middle of its body or its reading (http.Server has no ReadTimeout and no
\* WriteTimeout).
ClientStalls ==
  ~gone /\ (arrived < req.size \/ (held = 1 /\ out.good - read >= Window))
Answered == (cfg.timeout => <>(pc = "done")) \/ <>[]ClientStalls
=============================================================================
