------------------------- MODULE HttpExchangeProofs -------------------------
(***************************************************************************)
(* Theorems about HttpExchange, for any configurations, requests and       *)
(* sizes.                                                                  *)
(***************************************************************************)
EXTENDS HttpExchange, TLAPS

LEMMA InitInv == Init => IInv
<1> SUFFICES ASSUME Init PROVE IInv
  OBVIOUS
<1>1. cfg \in Config /\ req \in Request
  BY ExchangeAssumption DEF Init
<1>2. TypeOK
  <2>1. 0 \in 0..MaxResp /\ Unknown \in Unknown..MaxResp /\ 0 \in 0..req.size
    BY <1>1, ExchangeAssumption DEF Unknown, Request
  <2>2. up \in UpstreamState
    BY <2>1 DEF Init, UpstreamState
  <2>3. out \in Response
    BY <2>1 DEF Init, Response, Statuses
  <2>4. body \in BodyState /\ body.sent <= req.size
    BY <2>1 DEF Init, BodyState
  <2>5. pc \in {"auth", "limit", "body"}
    BY DEF Init
  <2>6. arrived \in 0..req.size /\ held \in 0..1 /\ read \in 0..MaxResp
    BY <2>1 DEF Init
  <2>7. /\ cfg \in Configs /\ req \in Requests
        /\ header \in Users \cup {NoUser} /\ user \in Users \cup {NoUser}
        /\ ctx \in {"live", "deadline", "cancelled"}
        /\ verdict \in {"none", "allowed", "denied", "failed"}
    BY <1>1 DEF Init, Request
  <2>8. /\ gone \in BOOLEAN /\ panicked \in BOOLEAN /\ reported \in BOOLEAN
        /\ logged \in Statuses
    BY DEF Init, Statuses
  <2> QED
    BY <2>2, <2>3, <2>4, <2>5, <2>6, <2>7, <2>8 DEF TypeOK
<1>3. Silent /\ Gates /\ Consistent /\ Delivery
  BY <1>1 DEF Init, Silent, Gates, Consistent, Delivery, Early, Reached, Config,
              Unknown, AfterAuth, WholeAnswer
<1>4. BodyBounded /\ LogIsTrue /\ ErrorHasCause
  BY <1>1 DEF Init, BodyBounded, LogIsTrue, ErrorHasCause, Reached, Config
<1> QED
  BY <1>2, <1>3, <1>4 DEF IInv

-----------------------------------------------------------------------------
(***************************************************************************)
(* The responseWriter.                                                     *)
(***************************************************************************)
\* What http.Error leaves: the first status stands, and a text at most.
LEMMA HttpErrorStep ==
  ASSUME out \in Response, NEW s \in Statuses \ {0, 101, 103}, HttpError(s)
  PROVE  /\ out' \in Response
         /\ out'.good = out.good /\ out'.end = out.end
         /\ out.writer # 0 =>
              out'.status = out.status /\ out'.writer = out.writer
         /\ out.writer = 0 => out'.status = s /\ out'.writer = s
<1> DEFINE w == WriteHeader(out, s, Unknown)
<1>1. s \notin 100..199 /\ s # 0
  BY DEF Statuses
<1>2. /\ w \in Response /\ w.good = out.good /\ w.end = out.end
      /\ out.writer # 0 => w.status = out.status /\ w.writer = out.writer
      /\ out.writer = 0 => w.status = s /\ w.writer = s
  <2>1. Unknown \in Unknown..MaxResp /\ s \in Statuses
    BY ExchangeAssumption DEF Unknown
  <2>2. CASE out.writer # 0
    BY <2>2 DEF WriteHeader
  <2>3. CASE out.writer = 0
    <3>1. w = [out EXCEPT !.writer = s, !.status = s, !.length = Unknown]
      BY <1>1, <2>3 DEF WriteHeader
    <3> HIDE DEF w
    <3>2. w \in Response
      BY <2>1, <3>1 DEF Response
    <3>3. /\ w.good = out.good /\ w.end = out.end
          /\ w.status = s /\ w.writer = s
      BY <3>1 DEF Response
    <3> QED
      BY <2>3, <3>2, <3>3
  <2> QED
    BY <2>2, <2>3
<1>3. out' = [w EXCEPT !.text = w.length = Unknown \/ w.good + TextSize <= w.length]
  BY DEF HttpError, WriteText
<1>4. (w.length = Unknown \/ w.good + TextSize <= w.length) \in BOOLEAN
  OBVIOUS
<1> HIDE DEF w
<1> QED
  BY <1>2, <1>3, <1>4 DEF Response

LEMMA GateKeeps ==
  ASSUME IInv, JWTAuth \/ RateLimit \/ BodyLimit \/ Dispatch
  PROVE  IInv'
<1>1. /\ out' \in Response /\ out'.good = out.good /\ out'.end = out.end
      /\ \/ out' = out /\ pc' \in {"limit", "body", "dispatch", "roundtrip"}
         \/ /\ pc' = "returned"
            /\ out'.status \in {401, 404, 413, 429, 503} /\ out'.writer = out'.status
  <2>1. out \in Response /\ out.writer = 0
    BY DEF IInv, TypeOK, Silent, Consistent, Early, JWTAuth, RateLimit, BodyLimit, Dispatch
  <2>2. ASSUME NEW s \in {401, 404, 413, 429, 503}, Answer(s)
        PROVE  /\ out' \in Response /\ out'.good = out.good /\ out'.end = out.end
               /\ pc' = "returned" /\ out'.status = s /\ out'.writer = s
    BY <2>1, <2>2, HttpErrorStep DEF Answer, Statuses
  <2> QED
    BY <2>1, <2>2 DEF JWTAuth, RateLimit, BodyLimit, Dispatch, Pass, AfterAuth
<1>2. /\ pc \in Early /\ ~Reached /\ ~Reached' /\ out.status = 0
      /\ UNCHANGED <<cfg, req, ctx, gone, arrived, read, body, up, held, panicked>>
  BY DEF IInv, Silent, Early, Reached, JWTAuth, RateLimit, BodyLimit, Dispatch,
         Recovery, request, client, logs
<1>3. TypeOK'
  <2>1. req \in Request
    BY ExchangeAssumption DEF IInv, TypeOK
  <2>2. header' \in Users \cup {NoUser} /\ user' \in Users \cup {NoUser}
    BY <2>1 DEF IInv, TypeOK, Request, JWTAuth, RateLimit, BodyLimit, Dispatch, inner
  <2>3. verdict' \in {"none", "allowed", "denied", "failed"}
    BY DEF IInv, TypeOK, JWTAuth, RateLimit, BodyLimit, Dispatch, inner
  <2>4. UNCHANGED <<reported, logged>>
    BY DEF JWTAuth, RateLimit, BodyLimit, Dispatch, logs
  <2> QED
    BY <1>1, <1>2, <2>2, <2>3, <2>4 DEF IInv, TypeOK
<1>4. Silent'
  BY <1>1, <1>2 DEF IInv, Silent, Early, Reached
<1>5. Gates'
  <2>0. cfg \in Config /\ req \in Request
    BY ExchangeAssumption DEF IInv, TypeOK
  <2>1. CASE JWTAuth
    BY <1>2, <2>1, <2>0 DEF Config, Request, IInv, Gates, JWTAuth, Answer, Pass, AfterAuth
  <2>2. CASE RateLimit
    BY <1>2, <2>2 DEF IInv, Gates, RateLimit, Answer, Pass
  <2>3. CASE BodyLimit
    BY <1>2, <2>3, <2>0 DEF Config, Request, IInv, Gates, BodyLimit, Answer, Pass, inner
  <2>4. CASE Dispatch
    BY <1>2, <2>4 DEF IInv, Gates, Dispatch, Answer, Pass, inner
  <2> QED
    BY <2>1, <2>2, <2>3, <2>4
<1>6. Consistent'
  BY <1>1, <1>2 DEF IInv, Consistent, Reached
<1>7. Delivery'
  BY <1>1, <1>2 DEF IInv, Delivery, Silent, Early, Reached, JWTAuth, RateLimit,
     BodyLimit, Dispatch, logs
<1>8. BodyBounded' /\ LogIsTrue' /\ ErrorHasCause'
  BY <1>1, <1>2 DEF IInv, BodyBounded, LogIsTrue, ErrorHasCause, logs, JWTAuth, RateLimit, BodyLimit, Dispatch
<1> QED
  BY <1>3, <1>4, <1>5, <1>6, <1>7, <1>8 DEF IInv

\* The client and the request's context disturb nothing.
LEMMA ClientKeeps ==
  ASSUME IInv, Deadline \/ ClientSends \/ ClientReads \/ ClientLeaves \/ Cancel
  PROVE  IInv'
<1>1. UNCHANGED <<cfg, req, pc, header, user, verdict, body, up, held, panicked,
                  reported, out, logged>>
  BY DEF Deadline, ClientSends, ClientReads, ClientLeaves, Cancel, request,
         inner, logs
<1>2. /\ arrived' \in 0..req.size /\ read' \in 0..MaxResp /\ read' <= out.good
      /\ gone' \in BOOLEAN /\ ctx' \in {"live", "deadline", "cancelled"}
      /\ ctx # "live" => ctx' = ctx
  <2>1. req.size \in Nat /\ out.good \in 0..MaxResp /\ MaxResp \in Nat
    BY ExchangeAssumption DEF IInv, TypeOK, Response, Request
  <2>2. /\ arrived \in 0..req.size /\ read \in 0..MaxResp /\ read <= out.good
        /\ gone \in BOOLEAN /\ ctx \in {"live", "deadline", "cancelled"}
    BY DEF IInv, TypeOK, Consistent
  <2>3. CASE ClientSends
    BY <2>1, <2>2, <2>3 DEF ClientSends
  <2>4. CASE ClientReads
    BY <2>1, <2>2, <2>4 DEF ClientReads
  <2>5. CASE Deadline \/ ClientLeaves \/ Cancel
    BY <2>1, <2>2, <2>5 DEF Deadline, ClientLeaves, Cancel, client
  <2> QED
    BY <2>3, <2>4, <2>5
<1>3. TypeOK' /\ Consistent'
  BY <1>1, <1>2 DEF IInv, TypeOK, Consistent, Reached
<1>4. Silent' /\ Gates' /\ Delivery' /\ BodyBounded' /\ LogIsTrue'
  BY <1>1 DEF IInv, Silent, Gates, Delivery, WholeAnswer, BodyBounded, LogIsTrue,
              Reached
<1>5. ErrorHasCause'
  BY <1>1, <1>2 DEF IInv, ErrorHasCause, Reached
<1> QED
  BY <1>3, <1>4, <1>5 DEF IInv

\* The transport tells the upstream of the verified user and sends no more
\* than the limit.
LEMMA TransportKeeps ==
  ASSUME IInv, Transport
  PROVE  IInv'
<1>0. cfg \in Config /\ req \in Request
  BY ExchangeAssumption DEF IInv, TypeOK
<1>1. UNCHANGED <<cfg, req, pc, header, user, verdict, ctx, gone, arrived, read, held,
                  panicked, reported, out, logged>>
  BY DEF Transport, Connect, SendUnit, SendEnd, request, inner, client, logs
<1>2. CASE Connect
  <2>1. /\ pc = "roundtrip" /\ ~Reached /\ body' = body
        /\ up' = [up EXCEPT !.phase = "working", !.user = user]
    BY <1>2 DEF Connect, Rewrite, SetUser, Reached
  <2>2. up \in UpstreamState /\ user \in Users \cup {NoUser}
    BY DEF IInv, TypeOK
  <2>3. /\ up' \in UpstreamState /\ up'.phase = "working" /\ up'.user = user
        /\ up'.head = up.head /\ up'.length = up.length /\ up'.sent = up.sent
    BY <2>1, <2>2 DEF UpstreamState
  <2>4. TypeOK' /\ Silent'
    BY <1>1, <2>1, <2>3 DEF IInv, TypeOK, Silent, Early, Reached
  <2>5. Gates'
    BY <1>1, <2>1, <2>3 DEF IInv, Gates, Reached
  <2>6. Consistent' /\ Delivery'
    BY <1>1, <2>1, <2>3 DEF IInv, Consistent, Delivery, Silent, Early, Reached
  <2>7. BodyBounded' /\ LogIsTrue' /\ ErrorHasCause'
    BY <1>1, <2>1, <2>3 DEF IInv, BodyBounded, LogIsTrue, ErrorHasCause, Silent
  <2> QED
    BY <2>4, <2>5, <2>6, <2>7 DEF IInv
<1>3. CASE SendUnit \/ SendEnd
  <2>1. up' = up /\ Reached /\ pc \in {"roundtrip", "copy"} /\ body.end = "open"
    BY <1>3 DEF SendUnit, SendEnd, Sending, Reached
  <2>2. body \in BodyState /\ body.sent <= req.size /\ arrived \in 0..req.size
    BY DEF IInv, TypeOK
  <2>3. /\ body' \in BodyState /\ body'.sent <= req.size
        /\ body'.end = "whole" => body'.sent = req.size
        /\ cfg.maxBody > 0 => body'.sent <= cfg.maxBody
    <3>1. cfg.maxBody > 0 => body.sent <= cfg.maxBody
      BY DEF IInv, BodyBounded
    <3>2. CASE SendUnit /\ MayRead
      BY <1>0, <2>1, <2>2, <3>2 DEF SendUnit, MayRead, BodyState, Config, Request
    <3>3. CASE SendUnit /\ ~MayRead
      BY <2>1, <2>2, <3>1, <3>3 DEF SendUnit, BodyState
    <3>4. CASE SendEnd
      BY <2>1, <2>2, <3>1, <3>4 DEF SendEnd, BodyState
    <3> QED
      BY <1>3, <3>2, <3>3, <3>4
  <2>4. TypeOK' /\ Silent' /\ Gates'
    BY <1>1, <2>1, <2>3 DEF IInv, TypeOK, Silent, Gates, Early, Reached
  <2>5. Consistent' /\ Delivery' /\ LogIsTrue'
    BY <1>1, <2>1, <2>3 DEF IInv, Consistent, Delivery, WholeAnswer, LogIsTrue,
                            Reached
  <2>6. BodyBounded'
    BY <1>1, <2>3 DEF BodyBounded
  <2>7. ErrorHasCause'
    BY <1>1, <2>1 DEF IInv, ErrorHasCause, Silent, Reached
  <2> QED
    BY <2>4, <2>5, <2>6, <2>7 DEF IInv
<1> QED
  BY <1>2, <1>3 DEF Transport

\* An upstream's steps: what it sent and how it ended stand.
LEMMA UpstreamKeeps ==
  ASSUME IInv, Upstream
  PROVE  IInv'
<1>1. UNCHANGED <<cfg, req, pc, header, user, verdict, ctx, gone, arrived, read, body,
                  held, panicked, reported, logged, out>>
  <2>1. WriteHeader(out, 103, Unknown) = out
    BY DEF WriteHeader
  <2> QED
    BY <2>1 DEF Upstream, UpstreamHead, UpstreamHints, UpstreamUpgrades,
       UpstreamSends, UpstreamEnds, UpstreamResets, UpstreamUnchanged, request,
       inner, client, logs
<1>2. /\ up \in UpstreamState /\ MaxResp \in Nat /\ Unknown \in Unknown..MaxResp
      /\ up.phase \in {"idle", "working"} => up.sent = 0 /\ up.length = Unknown
      /\ up.length # Unknown => up.sent <= up.length
      /\ up.phase = "streaming" => up.head
  BY ExchangeAssumption DEF IInv, TypeOK, Consistent, Unknown
<1>3. /\ up' \in UpstreamState /\ Reached /\ Reached' /\ up'.user = up.user
      /\ up.phase = "ended" => up' = up
      /\ up.phase = "reset" => up' = up
      /\ up.sent <= up'.sent
      /\ up'.length # Unknown => up'.sent <= up'.length
      /\ up' = up \/ up'.phase \in {"streaming", "upgraded", "ended", "reset"}
      /\ up'.phase = "streaming" => up'.head
  <2>1. CASE UpstreamHead
    <3>1. PICK n \in Unknown..MaxResp :
            up' = [up EXCEPT !.phase = "streaming", !.head = TRUE, !.length = n]
      BY <2>1 DEF UpstreamHead
    <3>2. up.phase = "working" /\ up.sent = 0
      BY <1>2, <2>1 DEF UpstreamHead
    <3>3. /\ up'.phase = "streaming" /\ up'.head = TRUE /\ up'.length = n
          /\ up'.user = up.user /\ up'.sent = 0
      BY <1>2, <3>1, <3>2 DEF UpstreamState
    <3>4. up' \in UpstreamState
      BY <1>2, <3>1 DEF UpstreamState
    <3> QED
      BY <1>2, <3>2, <3>3, <3>4 DEF Reached, Unknown
  <2>2. CASE UpstreamHints
    BY <1>2, <2>2 DEF UpstreamHints, UpstreamState, Reached
  <2>3. CASE UpstreamUpgrades
    <3>1. /\ up' = [up EXCEPT !.phase = "upgraded", !.head = TRUE]
          /\ up.phase = "working" /\ up.length = Unknown
      BY <1>2, <2>3 DEF UpstreamUpgrades
    <3>2. /\ up'.phase = "upgraded" /\ up'.length = up.length
          /\ up'.user = up.user /\ up'.sent = up.sent /\ up' \in UpstreamState
      BY <1>2, <3>1 DEF UpstreamState
    <3>3. up.sent <= up'.sent
      BY <3>2 DEF UpstreamState
    <3> QED
      BY <3>1, <3>2, <3>3 DEF Reached
  <2>4. CASE UpstreamSends
    <3>1. /\ up' = [up EXCEPT !.sent = @ + 1] /\ up.phase = "streaming"
          /\ up.sent < IF up.length = Unknown THEN MaxResp ELSE up.length
      BY <2>4 DEF UpstreamSends
    <3> QED
      BY <1>2, <3>1 DEF UpstreamState, Reached, Unknown
  <2>5. CASE UpstreamEnds
    BY <1>2, <2>5 DEF UpstreamEnds, UpstreamState, Reached
  <2>6. CASE UpstreamResets
    BY <1>2, <2>6 DEF UpstreamResets, UpstreamState, Reached
  <2> QED
    BY <2>1, <2>2, <2>3, <2>4, <2>5, <2>6 DEF Upstream
<1>4. TypeOK' /\ Silent' /\ Gates'
  BY <1>1, <1>3 DEF IInv, TypeOK, Silent, Gates, Early, Reached
<1>5. Consistent'
  <2>1. out.good + held <= up.sent
    BY DEF IInv, Consistent
  <2>2. out.good + held <= up'.sent
    BY <1>2, <1>3, <2>1 DEF IInv, TypeOK, Response, UpstreamState
  <2> QED
    BY <1>1, <1>3, <2>2 DEF IInv, Consistent, Reached
<1>6. Delivery' /\ BodyBounded' /\ LogIsTrue'
  BY <1>1, <1>3 DEF IInv, Delivery, WholeAnswer, BodyBounded, LogIsTrue
<1>7. ErrorHasCause'
  BY <1>1, <1>3 DEF IInv, ErrorHasCause, Reached
<1> QED
  BY <1>4, <1>5, <1>6, <1>7 DEF IInv

\* The copy loop writes what the upstream sent, and leaves only when it has
\* written everything or with a panic.
LEMMA CopyKeeps ==
  ASSUME IInv, CopyRead \/ CopyWrite \/ CopyEnds \/ CopyFails \/ RelayEnds
               \/ CloseBody
  PROVE  IInv'
<1>1. /\ UNCHANGED <<cfg, req, header, user, verdict, ctx, gone, arrived, read, body, up,
                     reported, logged>>
      /\ pc \in {"copy", "relay", "closing"}
  BY DEF CopyRead, CopyWrite, CopyEnds, CopyFails, RelayEnds, CloseBody, request,
         inner, client, logs
<1>2. /\ out \in Response /\ up \in UpstreamState /\ held \in 0..1
      /\ panicked \in BOOLEAN /\ MaxResp \in Nat
  BY ExchangeAssumption DEF IInv, TypeOK
<1>3. /\ out' \in Response /\ held' \in 0..1
      /\ UNCHANGED <<out.writer, out.status, out.length, out.text, out.end>>
      /\ out.good <= out'.good /\ out'.good + held' <= up.sent
      /\ out'.good # out.good => pc = "copy" /\ pc' = "copy"
  <2>1. CASE CopyRead
    <3>1. out' = out /\ held' = 1 /\ out.good < up.sent
      BY <2>1 DEF CopyRead
    <3> QED
      BY <1>2, <3>1 DEF Response, UpstreamState
  <2>2. CASE CopyWrite
    <3>1. /\ pc = "copy" /\ pc' = "copy" /\ held = 1 /\ held' = 0
          /\ out' = [out EXCEPT !.good = @ + 1] /\ out.good + held <= up.sent
      BY <2>2 DEF CopyWrite, IInv, Consistent
    <3> QED
      BY <1>2, <3>1 DEF Response, UpstreamState
  <2>3. CASE UNCHANGED <<held, out>>
    BY <1>2, <2>3 DEF Response, UpstreamState, IInv, Consistent
  <2> QED
    BY <2>1, <2>2, <2>3 DEF CopyRead, CopyWrite, CopyEnds, CopyFails, RelayEnds,
       CloseBody
<1>4. TypeOK'
  <2>1. /\ panicked' \in BOOLEAN
        /\ pc' \in {"copy", "relay", "closing", "panicking", "returned"}
    BY <1>1, <1>2 DEF CopyRead, CopyWrite, CopyEnds, CopyFails, RelayEnds, CloseBody
  <2> QED
    BY <1>1, <1>3, <2>1 DEF IInv, TypeOK
<1>5. Silent'
  <2>1. CASE CopyRead \/ CopyWrite \/ CopyEnds \/ CopyFails
    BY <1>1, <1>3, <2>1 DEF IInv, Silent, Delivery, Early, Reached, CopyRead, CopyWrite,
       CopyEnds, CopyFails
  <2>2. CASE RelayEnds \/ CloseBody
    BY <1>1, <1>3, <2>2 DEF IInv, Silent, Early, Reached, RelayEnds, CloseBody
  <2> QED
    BY <2>1, <2>2
<1>6. Gates'
  BY <1>1 DEF IInv, Gates, Reached, CopyRead, CopyWrite, CopyEnds, CopyFails,
     RelayEnds, CloseBody
<1>7. Consistent'
  <2>1. read <= out'.good
    BY <1>2, <1>3 DEF IInv, TypeOK, Consistent, Response
  <2> QED
    BY <1>1, <1>3, <2>1 DEF IInv, Consistent, Reached
<1>8. Delivery'
  <2>1. CASE CopyRead \/ CopyWrite
    BY <1>1, <1>3, <2>1 DEF IInv, Delivery, CopyRead, CopyWrite
  <2>2. CASE CopyEnds \/ CopyFails
    BY <1>1, <2>2 DEF IInv, Delivery, WholeAnswer, CopyEnds, CopyFails
  <2>3. CASE RelayEnds \/ CloseBody
    BY <1>1, <2>3 DEF IInv, Delivery, WholeAnswer, Silent, Early, RelayEnds, CloseBody
  <2> QED
    BY <2>1, <2>2, <2>3
<1>9. BodyBounded' /\ LogIsTrue'
  BY <1>1, <1>3 DEF IInv, BodyBounded, LogIsTrue
<1>10. ErrorHasCause'
  BY <1>1, <1>3 DEF IInv, ErrorHasCause, Silent, Reached
<1> QED
  BY <1>4, <1>5, <1>6, <1>7, <1>8, <1>9, <1>10 DEF IInv

\* The round trip gives the client an error with a cause, or a head.
LEMMA RoundTripKeeps ==
  ASSUME IInv, RoundTripFails \/ RoundTripReturns
  PROVE  IInv'
<1>1. /\ UNCHANGED <<cfg, req, header, user, verdict, ctx, gone, arrived, read, body, up,
                     held, panicked, reported, logged>>
      /\ pc = "roundtrip"
  BY DEF RoundTripFails, RoundTripReturns, request, inner, client, logs
<1>2. /\ out \in Response /\ up \in UpstreamState /\ held = 0 /\ ~panicked
      /\ MaxResp \in Nat /\ out.writer = 0 /\ out.status = 0 /\ out.good = 0 /\ out.end = "open"
      /\ ~out.text
  BY <1>1, ExchangeAssumption DEF IInv, TypeOK, Silent, Consistent, Delivery
<1>3. /\ out' \in Response /\ out'.good = 0 /\ out'.end = "open"
      /\ \/ pc' = "closing" /\ out'.status = 504 /\ out'.writer = 504
            /\ (ctx = "deadline" \/ ~Reached)
         \/ pc' = "closing" /\ out'.status = 502 /\ out'.writer = 502
            /\ (~Reached \/ up.phase = "reset" \/ body.end = "broken"
                \/ ctx = "cancelled")
         \/ pc' = "relay" /\ out'.status = 101 /\ out'.writer = 0
         \/ pc' = "copy" /\ out'.status = 200 /\ out'.writer = 200 /\ Reached
            /\ ~out'.text
  <2>1. CASE RoundTripFails
    <3>1. PICK slowDial \in BOOLEAN :
            /\ IF slowDial THEN up.phase = "idle" ELSE up.phase = "idle" \/ Broken
            /\ HttpError(ErrorStatus(slowDial))
      BY <2>1 DEF RoundTripFails
    <3>2. ErrorStatus(slowDial) \in {502, 504} /\ pc' = "closing"
      BY <2>1 DEF ErrorStatus, RoundTripFails
    <3>3. /\ out' \in Response /\ out'.good = 0 /\ out'.end = "open"
          /\ out'.status = ErrorStatus(slowDial) /\ out'.writer = ErrorStatus(slowDial)
      BY <1>2, <3>1, <3>2, HttpErrorStep DEF Statuses
    <3>4. ctx \in {"live", "deadline", "cancelled"}
      BY DEF IInv, TypeOK
    <3> QED
      BY <3>1, <3>2, <3>3, <3>4 DEF ErrorStatus, Broken, Reached
  <2>2. CASE RoundTripReturns /\ pc' = "relay"
    <3>1. out' = [out EXCEPT !.status = 101]
      BY <2>2 DEF RoundTripReturns
    <3>2. /\ out'.status = 101 /\ out'.writer = 0
          /\ out'.good = out.good /\ out'.end = out.end
      BY <1>2, <3>1 DEF Response
    <3>3. out' \in Response
      BY <1>2, <3>1 DEF Response, Statuses
    <3> QED
      BY <1>2, <2>2, <3>2, <3>3
  <2>3. CASE RoundTripReturns /\ pc' # "relay"
    <3>1. pc' = "copy" /\ out' = WriteHeader(out, 200, up.length) /\ Reached
      BY <2>3 DEF RoundTripReturns, IInv, Consistent, Reached
    <3>2. out' = [out EXCEPT !.writer = 200, !.status = 200, !.length = up.length]
      BY <1>2, <3>1 DEF WriteHeader
    <3>3. /\ out'.writer = 200 /\ out'.status = 200 /\ out'.good = out.good
          /\ out'.end = out.end /\ out'.text = out.text
      BY <1>2, <3>2 DEF Response
    <3>4. up.length \in Unknown..MaxResp /\ 200 \in Statuses
      BY <1>2 DEF UpstreamState, Statuses
    <3>5. out' \in Response
      BY <1>2, <3>2, <3>4 DEF Response
    <3>6. /\ out'.good = 0 /\ out'.end = "open" /\ ~out'.text
          /\ pc' = "copy" /\ Reached
      BY <1>2, <3>1, <3>3
    <3> HIDE <1>2, <3>1
    <3> QED
      BY <3>3, <3>5, <3>6
  <2> QED
    BY <2>1, <2>2, <2>3
<1>4. TypeOK' /\ Silent'
  BY <1>1, <1>2, <1>3 DEF IInv, TypeOK, Silent, Early, Reached
<1>5. Gates'
  BY <1>1, <1>3 DEF IInv, Gates, Reached
<1>6. Consistent' /\ Delivery'
  BY <1>1, <1>2, <1>3 DEF IInv, Consistent, Delivery, Early, Reached
<1>7. BodyBounded' /\ ErrorHasCause'
  BY <1>1, <1>3 DEF IInv, BodyBounded, ErrorHasCause, Reached
<1>8. LogIsTrue'
  BY <1>1 DEF IInv, LogIsTrue, Delivery
<1> QED
  BY <1>4, <1>5, <1>6, <1>7, <1>8 DEF IInv

\* The way out: Recovery adds a text at most, AccessLog logs the first status.
LEMMA WayOutKeeps ==
  ASSUME IInv, Recovery \/ AccessLog \/ FinishResponse
  PROVE  IInv'
<1>1. UNCHANGED <<cfg, req, header, user, verdict, ctx, gone, arrived, read, body, up,
                  held, panicked>>
  BY DEF Recovery, AccessLog, FinishResponse, request, inner, client
<1>2. out \in Response
  BY DEF IInv, TypeOK
<1>3. CASE Recovery
  <2>1. /\ pc = "panicking" /\ pc' = "returned" /\ HttpError(500)
        /\ reported' = TRUE /\ logged' = logged /\ panicked
        /\ out.status = 200 /\ out.writer = 200
    BY <1>3 DEF Recovery, Answer, IInv, Silent, Consistent
  <2>2. /\ out' \in Response /\ out'.good = out.good /\ out'.end = out.end
        /\ out'.status = 200 /\ out'.writer = 200
    BY <1>2, <2>1, HttpErrorStep DEF Statuses
  <2>3. TypeOK' /\ Silent' /\ Gates'
    BY <1>1, <2>1, <2>2 DEF IInv, TypeOK, Silent, Gates, Early, Reached
  <2>4. Consistent' /\ Delivery' /\ BodyBounded'
    BY <1>1, <2>1, <2>2 DEF IInv, Consistent, Delivery, BodyBounded, Reached
  <2>5. LogIsTrue' /\ ErrorHasCause'
    BY <1>1, <2>1, <2>2 DEF IInv, LogIsTrue, ErrorHasCause, Delivery
  <2> QED
    BY <2>3, <2>4, <2>5 DEF IInv
<1>4. CASE AccessLog
  <2>1. /\ pc = "returned" /\ pc' = "logged" /\ UNCHANGED <<out, reported>>
        /\ logged' = IF out.writer = 0 THEN 200 ELSE out.writer
    BY <1>4 DEF AccessLog
  <2>2. logged' \in Statuses /\ logged' # 0
    BY <1>2, <2>1 DEF Response, Statuses
  <2>3. TypeOK' /\ Silent' /\ Gates'
    BY <1>1, <2>1, <2>2 DEF IInv, TypeOK, Silent, Gates, Early, Reached
  <2>4. Consistent' /\ Delivery' /\ BodyBounded' /\ ErrorHasCause'
    BY <1>1, <2>1 DEF IInv, Consistent, Delivery, WholeAnswer, Early,
                      BodyBounded, ErrorHasCause, Reached
  <2>5. LogIsTrue'
    BY <2>1 DEF IInv, LogIsTrue, Delivery, Consistent, Silent, Early
  <2> QED
    BY <2>3, <2>4, <2>5 DEF IInv
<1>5. CASE FinishResponse
  <2>1. PICK e \in {"complete", "broken"} : out' = [out EXCEPT !.end = e]
    BY <1>5 DEF FinishResponse
  <2>2. pc = "logged" /\ pc' = "done" /\ UNCHANGED <<reported, logged>>
    BY <1>5 DEF FinishResponse, logs
  <2>3. /\ out' \in Response
        /\ UNCHANGED <<out.writer, out.status, out.length, out.good, out.text>>
    BY <1>2, <2>1 DEF Response
  <2>4. TypeOK' /\ Silent' /\ Gates'
    BY <1>1, <2>2, <2>3 DEF IInv, TypeOK, Silent, Gates, Early, Reached
  <2>5. Consistent' /\ Delivery' /\ BodyBounded'
    BY <1>1, <2>2, <2>3 DEF IInv, Consistent, Delivery, WholeAnswer, Early,
                            BodyBounded, Reached
  <2>6. LogIsTrue' /\ ErrorHasCause'
    BY <1>1, <2>2, <2>3 DEF IInv, LogIsTrue, ErrorHasCause, Delivery, Reached
  <2> QED
    BY <2>4, <2>5, <2>6 DEF IInv
<1> QED
  BY <1>3, <1>4, <1>5

-----------------------------------------------------------------------------
LEMMA StepInv == IInv /\ [Next]_vars => IInv'
<1> SUFFICES ASSUME IInv, [Next]_vars PROVE IInv'
  OBVIOUS
<1>1. CASE JWTAuth \/ RateLimit \/ BodyLimit \/ Dispatch
  BY <1>1, GateKeeps
<1>2. CASE Transport
  BY <1>2, TransportKeeps
<1>3. CASE Upstream
  BY <1>3, UpstreamKeeps
<1>4. CASE CopyRead \/ CopyWrite \/ CopyEnds \/ CopyFails \/ RelayEnds
           \/ CloseBody
  BY <1>4, CopyKeeps
<1>5. CASE RoundTripFails \/ RoundTripReturns
  BY <1>5, RoundTripKeeps
<1>6. CASE Recovery \/ AccessLog \/ FinishResponse
  BY <1>6, WayOutKeeps
<1>7. CASE Deadline \/ Client \/ Cancel
  BY <1>7, ClientKeeps DEF Client
<1>8. CASE UNCHANGED vars
  BY <1>8 DEF vars, IInv, TypeOK, Silent, Gates, Consistent, Delivery,
     WholeAnswer, BodyBounded, LogIsTrue, ErrorHasCause, Reached
<1> QED
  BY <1>1, <1>2, <1>3, <1>4, <1>5, <1>6, <1>7, <1>8 DEF Next, Handler,
     ReverseProxy

\* The invariant, what each place of the handler may rely on, holds in every
\* state, for every set of configurations and requests.
THEOREM Invariance == Spec => []IInv
  BY InitInv, StepInv, PTL DEF Spec

\* Every variable keeps its type: in particular no more is written to the
\* client and read by it than an upstream sent.
THEOREM TypeCorrect == Spec => []TypeOK
<1>1. IInv => TypeOK
  BY DEF IInv
<1> QED
  BY <1>1, Invariance, PTL

\* No request passes a gate of the chain that refused it.
THEOREM OnlyAdmitted == Spec => []Admission
<1>1. IInv => Admission
  BY DEF IInv, Gates, Admission
<1> QED
  BY <1>1, Invariance, PTL

\* No upstream is told of a user whose token was not verified.
THEOREM UserIsTrusted == Spec => []TrustedUser
<1>1. IInv => TrustedUser
  BY DEF IInv, Gates, TrustedUser
<1> QED
  BY <1>1, Invariance, PTL

\* No upstream takes a body over the limit for a whole one.
THEOREM BodyIsBounded == Spec => []BodyBounded
<1>1. IInv => BodyBounded
  BY DEF IInv
<1> QED
  BY <1>1, Invariance, PTL

\* The access log tells the status the client was sent.
THEOREM LogTellsStatus == Spec => []LogIsTrue
<1>1. IInv => LogIsTrue
  BY DEF IInv
<1> QED
  BY <1>1, Invariance, PTL

\* Every gateway error has the cause it names.
THEOREM ErrorTellsCause == Spec => []ErrorHasCause
<1>1. IInv => ErrorHasCause
  BY DEF IInv
<1> QED
  BY <1>1, Invariance, PTL

\* A truncated response that looks complete has its panic in the log.
THEOREM CutLeavesTrace == Spec => []CutIsLogged
<1>1. IInv => CutIsLogged
  BY DEF IInv, Silent, Delivery, CutIsLogged, Early
<1> QED
  BY <1>1, Invariance, PTL

-----------------------------------------------------------------------------
(***************************************************************************)
(* HttpExchange implements HttpRelay: each step is one of the contract's   *)
(* or changes nothing that its edges show.                                 *)
(***************************************************************************)
LEMMA FaithfulInit == Init => Faithful!Init
  BY DEF Init, Faithful!Init, Granted, Reached

\* What the contract sees of the configuration, the request and the upstream
\* changes only with them.
LEMMA EdgesKeep ==
  /\ UNCHANGED request => Terms' = Terms
  /\ UNCHANGED <<request, verdict>> => Granted' = Granted
  /\ UNCHANGED up => Reached' = Reached
  BY DEF request, Terms, Granted, Reached

\* A middleware refuses a request that no upstream has seen, or lets it pass;
\* the limiter's leave is given once.
LEMMA GateIsFaithful ==
  ASSUME IInv, JWTAuth \/ RateLimit \/ BodyLimit \/ Dispatch
  PROVE  [Faithful!Next]_(Faithful!vars)
<1>1. /\ ~Reached /\ out.status = 0 /\ out \in Response /\ out.writer = 0
      /\ pc = "limit" => verdict = "none"
  BY DEF IInv, TypeOK, Silent, Gates, Consistent, Early, JWTAuth, RateLimit,
         BodyLimit, Dispatch
<1>2. UNCHANGED <<request, ctx, gone, up, body, panicked, logs>>
  BY DEF JWTAuth, RateLimit, BodyLimit, Dispatch, client
<1>3. /\ Terms' = Terms /\ Reached' = Reached
      /\ UNCHANGED <<ctx, gone, up, body, panicked, reported, logged>>
  BY <1>2, EdgesKeep DEF logs
<1>4. ASSUME NEW s \in {401, 404, 413, 429, 503}, Answer(s), Granted' = Granted
      PROVE  Faithful!Refuse
  <2>1. /\ out' \in Response /\ out'.status = s
        /\ out'.good = out.good /\ out'.end = out.end
    BY <1>1, <1>4, HttpErrorStep DEF Answer, Statuses
  <2>2. out'.text \in BOOLEAN
    BY <2>1 DEF Response
  <2> QED
    BY <1>1, <1>3, <1>4, <2>1, <2>2 DEF Faithful!Refuse, Faithful!request,
       Faithful!upstream, Faithful!logs
<1>5. CASE RateLimit
  <2>1. PICK v \in {"allowed", "denied", "failed"} :
          /\ verdict' = v
          /\ CASE v = "denied" -> Answer(429)
               [] v = "failed" /\ cfg.limiter = "closed" -> Answer(503)
               [] OTHER -> Pass("body")
    BY <1>5 DEF RateLimit
  <2>2. cfg' = cfg /\ verdict = "none" /\ cfg.limiter \in {"off", "closed", "open"}
    BY <1>1, <1>2, <1>5, ExchangeAssumption DEF request, RateLimit, IInv, TypeOK, Config
  <2>3. CASE v = "denied" \/ (v = "failed" /\ cfg.limiter = "closed")
    <3>1. Granted' = Granted
      BY <2>1, <2>2, <2>3 DEF Granted
    <3> QED
      BY <1>4, <2>1, <2>3, <3>1 DEF Faithful!Next
  <2>4. CASE ~(v = "denied" \/ (v = "failed" /\ cfg.limiter = "closed"))
    <3>1. Granted' /\ out' = out
      BY <2>1, <2>2, <2>4 DEF Granted, Pass
    <3>2. CASE Granted
      <4>1. Granted' = Granted
        BY <2>1, <2>2, <3>2 DEF Granted
      <4> QED
        BY <1>3, <3>1, <4>1 DEF Faithful!vars, Faithful!request, Faithful!upstream,
           Faithful!response, Faithful!logs
    <3>3. CASE ~Granted
      BY <1>1, <1>3, <3>1, <3>3 DEF Faithful!Next, Faithful!Grant,
         Faithful!upstream, Faithful!response, Faithful!logs
    <3> QED
      BY <3>2, <3>3
  <2> QED
    BY <2>3, <2>4
<1>6. CASE JWTAuth \/ BodyLimit \/ Dispatch
  <2>1. Granted' = Granted
    BY <1>6, EdgesKeep DEF JWTAuth, BodyLimit, Dispatch, inner
  <2>2. out' = out \/ Answer(401) \/ Answer(413) \/ Answer(404)
    BY <1>6 DEF JWTAuth, BodyLimit, Dispatch, Pass
  <2>3. CASE out' = out
    BY <1>3, <2>1, <2>3 DEF Faithful!vars, Faithful!request, Faithful!upstream,
       Faithful!response, Faithful!logs
  <2> QED
    BY <1>4, <2>1, <2>2, <2>3 DEF Faithful!Next
<1> QED
  BY <1>5, <1>6

\* The upstream is asked behind every gate, and is given no more than the
\* limit.
LEMMA TransportIsFaithful ==
  ASSUME IInv, Transport
  PROVE  [Faithful!Next]_(Faithful!vars)
<1>1. /\ UNCHANGED <<cfg, req, verdict, ctx, gone, panicked, reported, out, logged>>
      /\ Terms' = Terms /\ Granted' = Granted
  <2>1. UNCHANGED <<request, inner, ctx, client, panicked, out, logs>>
    BY DEF Transport, Connect, SendUnit, SendEnd
  <2> QED
    BY <2>1, EdgesKeep DEF request, inner, client, logs
<1>2. CASE Connect
  <2>1. /\ pc = "roundtrip" /\ up.phase = "idle" /\ up \in UpstreamState /\ body' = body
        /\ up' = [up EXCEPT !.phase = "working", !.user = user]
    BY <1>2 DEF Connect, Rewrite, SetUser, IInv, TypeOK
  <2>2. up'.phase = "working" /\ up'.user = user /\ up'.sent = up.sent
    BY <2>1 DEF UpstreamState
  <2>3. ~Reached /\ Reached' /\ out.status = 0
    BY <2>1, <2>2 DEF IInv, Silent, Reached
  <2>4. Granted /\ ~Terms.barred /\ Terms.user = user
    <3>1. cfg \in Config /\ req \in Request
      BY ExchangeAssumption DEF IInv, TypeOK
    <3>2. Granted
      BY <2>1, <3>1 DEF IInv, Gates, Granted, Config
    <3>3. /\ user = IF cfg.jwt /\ ~req.public THEN req.token ELSE NoUser
          /\ ~(cfg.jwt /\ ~req.public /\ req.token = NoUser)
          /\ ~(cfg.maxBody > 0 /\ req.declared /\ req.size > cfg.maxBody)
      BY <2>1, <3>1 DEF IInv, Gates, Config, Request
    <3> QED
      BY <3>2, <3>3 DEF Terms
  <2> QED
    BY <1>1, <2>1, <2>2, <2>3, <2>4 DEF Faithful!Next, Faithful!Ask,
       Faithful!request, Faithful!response, Faithful!logs
<1>3. CASE SendUnit \/ SendEnd
  <2>1. /\ Reached /\ pc \in {"roundtrip", "copy"} /\ body.end = "open" /\ up' = up
        /\ Reached'
    BY <1>3 DEF SendUnit, SendEnd, Sending, Reached
  <2>2. out.status \in {0, 200} /\ ~panicked /\ logged = 0
    BY <2>1 DEF IInv, Silent, Delivery, Early
  <2>3. /\ body \in BodyState /\ arrived \in 0..req.size
        /\ req.size \in Nat /\ cfg.maxBody \in Nat
    BY ExchangeAssumption DEF IInv, TypeOK, Request, Config
  <2>4. Terms.size = req.size /\ Terms.limit = cfg.maxBody
    BY DEF Terms
  <2>5. \/ /\ body.sent < req.size /\ (cfg.maxBody > 0 => body.sent < cfg.maxBody)
           /\ body' = [body EXCEPT !.sent = @ + 1]
        \/ body.sent = req.size /\ body' = [body EXCEPT !.end = "whole"]
        \/ body.sent < req.size /\ body' = [body EXCEPT !.end = "broken"]
    BY <1>3, <2>3 DEF SendUnit, SendEnd, MayRead, BodyState
  <2>6. Faithful!GiveBody
    BY <1>1, <2>1, <2>2, <2>4, <2>5 DEF Faithful!GiveBody, Faithful!request,
       Faithful!response, Faithful!logs
  <2> QED
    BY <2>6 DEF Faithful!Next
<1> QED
  BY <1>2, <1>3 DEF Transport

\* The upstream does what an upstream may, once it is asked.
LEMMA UpstreamIsFaithful ==
  ASSUME IInv, Upstream
  PROVE  [Faithful!Next]_(Faithful!vars)
<1>1. /\ UNCHANGED <<ctx, gone, body, panicked, reported, out, logged>>
      /\ Terms' = Terms /\ Granted' = Granted
  <2>1. WriteHeader(out, 103, Unknown) = out
    BY DEF WriteHeader
  <2>2. UNCHANGED <<request, inner, ctx, client, body, panicked, out, logs>>
    BY <2>1 DEF Upstream, UpstreamHead, UpstreamHints, UpstreamUpgrades,
       UpstreamSends, UpstreamEnds, UpstreamResets, UpstreamUnchanged
  <2> QED
    BY <2>2, EdgesKeep DEF inner, client, logs
<1>2. up \in UpstreamState /\ Reached
  BY DEF IInv, TypeOK, Reached, Upstream, UpstreamHead, UpstreamHints,
     UpstreamUpgrades, UpstreamSends, UpstreamEnds, UpstreamResets
<1>3. Reached' /\ up'.user = up.user
  BY <1>2 DEF UpstreamState, Reached, Upstream, UpstreamHead, UpstreamHints,
     UpstreamUpgrades, UpstreamSends, UpstreamEnds, UpstreamResets
<1>4. CASE UpstreamHead \/ UpstreamUpgrades
  <2>1. /\ up.phase = "working" /\ up'.sent = up.sent
        /\ up'.phase \in {"streaming", "upgraded"}
    BY <1>2, <1>4 DEF UpstreamHead, UpstreamUpgrades, UpstreamState
  <2> QED
    BY <1>1, <1>2, <1>3, <2>1 DEF Faithful!Next, Faithful!UpstreamAnswers,
       Faithful!request, Faithful!response, Faithful!logs
<1>5. CASE UpstreamSends
  <2>1. /\ up.phase = "streaming" /\ up'.phase = "streaming"
        /\ up'.sent = up.sent + 1
    BY <1>2, <1>5 DEF UpstreamSends, UpstreamState
  <2> QED
    BY <1>1, <1>2, <1>3, <2>1 DEF Faithful!Next, Faithful!UpstreamAnswers,
       Faithful!request, Faithful!response, Faithful!logs
<1>6. CASE UpstreamEnds \/ UpstreamResets
  <2>1. /\ up.phase \in {"working", "streaming", "upgraded"} /\ up'.sent = up.sent
        /\ up'.phase \in {"ended", "reset"}
        /\ up.phase = "working" => up'.phase = "reset"
    BY <1>2, <1>6 DEF UpstreamEnds, UpstreamResets, UpstreamState
  <2> QED
    BY <1>1, <1>2, <1>3, <2>1 DEF Faithful!Next, Faithful!UpstreamAnswers,
       Faithful!request, Faithful!response, Faithful!logs
<1>7. CASE UpstreamHints
  <2>1. up' = up
    BY <1>7 DEF UpstreamHints
  <2> QED
    BY <1>1, <1>2, <1>3, <2>1 DEF Faithful!vars, Faithful!request,
       Faithful!upstream, Faithful!response, Faithful!logs
<1> QED
  BY <1>4, <1>5, <1>6, <1>7 DEF Upstream

\* The client's steps and the timer's show at most as an interruption.
LEMMA ClientIsFaithful ==
  ASSUME IInv, Deadline \/ Client \/ Cancel
  PROVE  [Faithful!Next]_(Faithful!vars)
<1>1. /\ UNCHANGED <<up, body, panicked, reported, out, logged>>
      /\ Terms' = Terms /\ Granted' = Granted /\ Reached' = Reached
  <2>1. UNCHANGED <<request, inner, up, body, panicked, out, logs>>
    BY DEF Deadline, Client, ClientSends, ClientReads, ClientLeaves, Cancel
  <2> QED
    BY <2>1, EdgesKeep DEF inner, logs
<1>2. \/ ctx = "live" /\ ctx' = "deadline" /\ gone' = gone
      \/ gone /\ ctx = "live" /\ ctx' = "cancelled" /\ gone' = gone
      \/ gone' = TRUE /\ ctx' = ctx /\ ~gone
      \/ UNCHANGED <<ctx, gone>>
  BY DEF Deadline, Client, ClientSends, ClientReads, ClientLeaves, Cancel, client
<1>3. CASE UNCHANGED <<ctx, gone>>
  BY <1>1, <1>3 DEF Faithful!vars, Faithful!request, Faithful!upstream,
     Faithful!response, Faithful!logs
<1>4. CASE ~UNCHANGED <<ctx, gone>>
  <2>1. gone \in BOOLEAN
    BY DEF IInv, TypeOK
  <2> QED
    BY <1>1, <1>2, <1>4, <2>1 DEF Faithful!Next, Faithful!Interrupt,
       Faithful!upstream, Faithful!response, Faithful!logs
<1> QED
  BY <1>3, <1>4

\* One status, its cause behind it, then what came of the answer.
LEMMA ProxyIsFaithful ==
  ASSUME IInv, ReverseProxy
  PROVE  [Faithful!Next]_(Faithful!vars)
<1>1. /\ UNCHANGED <<ctx, gone, up, body, reported, logged>>
      /\ Terms' = Terms /\ Granted' = Granted /\ Reached' = Reached
      /\ pc \in {"roundtrip", "copy", "relay", "closing"} /\ out \in Response
  <2>1. UNCHANGED <<request, inner, ctx, client, up, body, logs>>
    BY DEF ReverseProxy, RoundTripFails, RoundTripReturns, CopyRead, CopyWrite,
       CopyEnds, CopyFails, RelayEnds, CloseBody
  <2>2. pc \in {"roundtrip", "copy", "relay", "closing"}
    BY DEF ReverseProxy, RoundTripFails, RoundTripReturns, CopyRead, CopyWrite,
       CopyEnds, CopyFails, RelayEnds, CloseBody
  <2> QED
    BY <2>1, <2>2, EdgesKeep DEF inner, client, logs, IInv, TypeOK
<1>2. CASE RoundTripFails
  <2>1. PICK slowDial \in BOOLEAN :
          /\ IF slowDial THEN up.phase = "idle" ELSE up.phase = "idle" \/ Broken
          /\ HttpError(ErrorStatus(slowDial))
    BY <1>2 DEF RoundTripFails
  <2>2. /\ out.writer = 0 /\ out.status = 0 /\ panicked' = panicked
        /\ ErrorStatus(slowDial) \in {502, 504}
    BY <1>2 DEF IInv, Silent, Consistent, RoundTripFails, ErrorStatus
  <2>3. /\ out' \in Response /\ out'.status = ErrorStatus(slowDial)
        /\ out'.good = out.good /\ out'.end = out.end
    BY <1>1, <2>1, <2>2, HttpErrorStep DEF Statuses
  <2>4. out'.text \in BOOLEAN
    BY <2>3 DEF Response
  <2>5. /\ out'.status = 504 => ~Reached \/ ctx = "deadline"
        /\ out'.status = 502 => \/ ~Reached \/ up.phase = "reset"
                                \/ body.end = "broken" \/ ctx = "cancelled"
    <3>1. ctx \in {"live", "deadline", "cancelled"}
      BY DEF IInv, TypeOK
    <3> QED
      BY <2>1, <2>3, <3>1 DEF ErrorStatus, Broken, Reached
  <2>6. Faithful!Fail
    BY <1>1, <2>2, <2>3, <2>4, <2>5 DEF Faithful!Fail, Faithful!request,
       Faithful!upstream, Faithful!logs
  <2> QED
    BY <2>6 DEF Faithful!Next
<1>3. CASE RoundTripReturns
  <2>1. /\ out.writer = 0 /\ out.status = 0 /\ panicked' = panicked /\ up.head
    BY <1>3 DEF IInv, Silent, Consistent, RoundTripReturns
  <2>2. \/ out' = [out EXCEPT !.status = 101]
        \/ out' = [out EXCEPT !.writer = 200, !.status = 200, !.length = up.length]
    BY <1>3, <2>1 DEF RoundTripReturns, WriteHeader
  <2>3. /\ out'.status \in {101, 200} /\ out'.good = out.good
        /\ out'.text = out.text /\ out'.end = out.end
    <3>1. CASE out' = [out EXCEPT !.status = 101]
      BY <1>1, <3>1 DEF Response
    <3>2. CASE out' = [out EXCEPT !.writer = 200, !.status = 200, !.length = up.length]
      BY <1>1, <3>2 DEF Response
    <3> QED
      BY <2>2, <3>1, <3>2
  <2>4. up.phase \in {"streaming", "upgraded", "ended", "reset"}
    BY <2>1 DEF IInv, TypeOK, Consistent, UpstreamState
  <2>5. Faithful!Begin
    BY <1>1, <2>1, <2>3, <2>4 DEF Faithful!Begin, Faithful!request,
       Faithful!upstream, Faithful!logs
  <2> QED
    BY <2>5 DEF Faithful!Next
<1>4. CASE CopyWrite
  <2>1. /\ out.status = 200 /\ ~panicked /\ ~out.text /\ logged = 0 /\ held = 1
        /\ out.good + held <= up.sent
    BY <1>4 DEF CopyWrite, IInv, Silent, Delivery, Consistent
  <2>2. /\ out' = [out EXCEPT !.good = @ + 1] /\ panicked' = panicked
    BY <1>4 DEF CopyWrite
  <2>3. /\ out'.good = out.good + 1 /\ out'.status = out.status
        /\ out'.text = out.text /\ out'.end = out.end
    BY <1>1, <2>2 DEF Response
  <2>4. out.good < up.sent
    BY <1>1, <2>1 DEF Response, IInv, TypeOK, UpstreamState
  <2> QED
    BY <1>1, <2>1, <2>2, <2>3, <2>4 DEF Faithful!Next, Faithful!Relay,
       Faithful!request, Faithful!upstream, Faithful!logs
<1>5. CASE CopyFails
  <2>1. /\ out.status = 200 /\ ~panicked /\ logged = 0 /\ panicked' = TRUE
        /\ out' = out /\ (Broken \/ gone)
    BY <1>5 DEF CopyFails, IInv, Silent, Delivery
  <2>2. Faithful!Abort
    BY <1>1, <2>1 DEF Faithful!Abort, Broken, Faithful!request,
       Faithful!upstream, Faithful!response
  <2> QED
    BY <2>2 DEF Faithful!Next
<1>6. CASE CopyRead \/ CopyEnds \/ RelayEnds \/ CloseBody
  <2>1. out' = out /\ panicked' = panicked
    BY <1>6 DEF CopyRead, CopyEnds, RelayEnds, CloseBody
  <2> QED
    BY <1>1, <2>1 DEF Faithful!vars, Faithful!request, Faithful!upstream,
       Faithful!response, Faithful!logs
<1> QED
  BY <1>2, <1>3, <1>4, <1>5, <1>6 DEF ReverseProxy

\* A cut is told in the log, then comes the log line, then the end.
LEMMA WayOutIsFaithful ==
  ASSUME IInv, Recovery \/ AccessLog \/ FinishResponse
  PROVE  [Faithful!Next]_(Faithful!vars)
<1>1. /\ UNCHANGED <<ctx, gone, up, body, panicked>>
      /\ Terms' = Terms /\ Granted' = Granted /\ Reached' = Reached
      /\ out \in Response
  <2>1. UNCHANGED <<request, inner, ctx, client, up, body, panicked>>
    BY DEF Recovery, AccessLog, FinishResponse
  <2> QED
    BY <2>1, EdgesKeep DEF inner, client, IInv, TypeOK
<1>2. CASE Recovery
  <2>1. /\ pc = "panicking" /\ panicked /\ logged = 0 /\ logged' = logged
        /\ out.writer # 0 /\ HttpError(500) /\ reported' = TRUE
    BY <1>2 DEF Recovery, Answer, IInv, Silent, Consistent, Delivery
  <2>2. /\ out' \in Response /\ out'.status = out.status
        /\ out'.good = out.good /\ out'.end = out.end
    BY <1>1, <2>1, HttpErrorStep DEF Statuses
  <2>3. out'.text \in BOOLEAN
    BY <2>2 DEF Response
  <2>4. ~reported
    BY <2>1 DEF IInv, Delivery
  <2> QED
    BY <1>1, <2>1, <2>2, <2>3, <2>4 DEF Faithful!Next, Faithful!Report,
       Faithful!request, Faithful!upstream
<1>3. CASE AccessLog
  <2>1. /\ pc = "returned" /\ UNCHANGED <<out, reported>>
        /\ logged' = IF out.writer = 0 THEN 200 ELSE out.writer
        /\ out.writer = IF out.status = 101 THEN 0 ELSE out.status
        /\ out.status # 0 /\ logged = 0
    BY <1>3 DEF AccessLog, IInv, Silent, Consistent, Delivery, Early
  <2>2. /\ panicked => reported
        /\ ~panicked /\ out.status = 200 =>
             up.phase = "ended" /\ out.good = up.sent /\ ~out.text
    BY <2>1 DEF IInv, Silent, Delivery, WholeAnswer, Early
  <2>3. Faithful!Log
    BY <1>1, <2>1, <2>2 DEF Faithful!Log, Faithful!request, Faithful!upstream,
       Faithful!response
  <2> QED
    BY <2>3 DEF Faithful!Next
<1>4. CASE FinishResponse
  <2>1. PICK e \in {"complete", "broken"} :
          out' = [out EXCEPT !.end = e] /\ (gone => e = "broken")
    BY <1>4 DEF FinishResponse
  <2>2. /\ out'.end = e /\ out'.status = out.status /\ out'.good = out.good
        /\ out'.text = out.text /\ UNCHANGED <<reported, logged>>
    BY <1>1, <1>4, <2>1 DEF Response, FinishResponse, logs
  <2>3. logged # 0 /\ out.end = "open"
    BY <1>4 DEF FinishResponse, IInv, Delivery
  <2> QED
    BY <1>1, <2>1, <2>2, <2>3 DEF Faithful!Next, Faithful!Finish,
       Faithful!request, Faithful!upstream, Faithful!logs
<1> QED
  BY <1>2, <1>3, <1>4

LEMMA FaithfulStep == IInv /\ [Next]_vars => [Faithful!Next]_(Faithful!vars)
<1> SUFFICES ASSUME IInv, [Next]_vars PROVE [Faithful!Next]_(Faithful!vars)
  OBVIOUS
<1>1. CASE JWTAuth \/ RateLimit \/ BodyLimit \/ Dispatch
  BY <1>1, GateIsFaithful
<1>2. CASE Transport
  BY <1>2, TransportIsFaithful
<1>3. CASE Upstream
  BY <1>3, UpstreamIsFaithful
<1>4. CASE ReverseProxy
  BY <1>4, ProxyIsFaithful
<1>5. CASE Recovery \/ AccessLog \/ FinishResponse
  BY <1>5, WayOutIsFaithful
<1>6. CASE Deadline \/ Client \/ Cancel
  BY <1>6, ClientIsFaithful
<1>7. CASE UNCHANGED vars
  <2>1. Terms' = Terms /\ Granted' = Granted /\ Reached' = Reached
    BY <1>7, EdgesKeep DEF vars, request
  <2> QED
    BY <1>7, <2>1 DEF vars, Faithful!vars, Faithful!request, Faithful!upstream,
       Faithful!response, Faithful!logs
<1> QED
  BY <1>1, <1>2, <1>3, <1>4, <1>5, <1>6, <1>7 DEF Next, Handler

\* One exchange, whatever its handlers, its transport and its timers do in
\* which order, is a faithful one: a single status that is true, sent once and
\* logged once, an upstream asked only behind every gate, a body up to the
\* limit, an answer whole or cut for a cause that the log tells of.
THEOREM Implements == Spec => IsFaithful
  BY Invariance, FaithfulInit, FaithfulStep, PTL DEF Spec, IsFaithful, Faithful!Spec
=============================================================================
