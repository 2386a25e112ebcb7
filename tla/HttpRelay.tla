------------------------------ MODULE HttpRelay ------------------------------
(***************************************************************************)
(* What a gateway promises about one HTTP exchange, seen from its edges:   *)
(* what the upstream is given, what the client is sent, what the log says. *)
(* Nothing of middlewares, wrappers or copy loops is visible here.         *)
(* HttpExchange implements this specification.                             *)
(***************************************************************************)
EXTENDS Naturals

CONSTANT NoUser

VARIABLES
  terms,    \* [barred, user, size, limit]: the request may not be forwarded;
            \* the user it may be forwarded for; the size of its body and the
            \* limit on it, 0 for none
  granted,  \* the rate limiter's leave, or its failing open
  ctx,      \* "live", or why nobody waits for the upstream any longer
  gone,     \* the client has left
  asked,    \* the upstream has the request
  told,     \* the user it was told of
  body,     \* [sent, end]: the request body, as the upstream sees it
  answer,   \* "none", "open", "ended", "reset": what the upstream does
  sent,     \* units of its answer that it sent
  status,   \* sent to the client, 0 before
  good,     \* units of the answer that the client was sent
  text,     \* it was sent an error text
  end,      \* of the response: "open", "complete", "broken"
  aborted,  \* the answer was cut
  reported, \* and the log tells of that
  logged    \* status in the access log, 0 before

request == <<terms, granted, ctx, gone>>
upstream == <<asked, told, body, answer, sent>>
response == <<status, good, text, end>>
logs == <<aborted, reported, logged>>
vars == <<request, upstream, response, logs>>

Init ==
  /\ granted \in BOOLEAN /\ ctx = "live" /\ gone = FALSE
  /\ asked = FALSE /\ told = NoUser /\ body = [sent |-> 0, end |-> "open"]
  /\ answer = "none" /\ sent = 0
  /\ status = 0 /\ good = 0 /\ text = FALSE /\ end = "open"
  /\ aborted = FALSE /\ reported = FALSE /\ logged = 0

-----------------------------------------------------------------------------
Grant ==
  /\ ~granted /\ ~asked /\ status = 0
  /\ granted' = TRUE
  /\ UNCHANGED <<terms, ctx, gone, upstream, response, logs>>

\* The time is up, or the client leaves and that is noticed.
Interrupt ==
  /\ \/ ctx = "live" /\ ctx' \in {"deadline", "cancelled"} /\ gone' = gone
     \/ gone' = TRUE /\ ctx' = ctx
  /\ ctx' = "cancelled" => gone'
  /\ UNCHANGED <<terms, granted, upstream, response, logs>>

-----------------------------------------------------------------------------
(***************************************************************************)
(* The upstream is asked once, before the client is answered, with leave,  *)
(* and for the right user.                                                 *)
(***************************************************************************)
Ask ==
  /\ ~asked /\ status = 0
  /\ granted /\ ~terms.barred
  /\ asked' = TRUE /\ told' = terms.user
  /\ UNCHANGED <<request, body, answer, sent, response, logs>>

\* Up to the limit; whole only if all of it is there.
GiveBody ==
  /\ asked /\ status \in {0, 200} /\ ~aborted /\ logged = 0 /\ body.end = "open"
  /\ \/ /\ body.sent < terms.size
        /\ terms.limit > 0 => body.sent < terms.limit
        /\ body' = [body EXCEPT !.sent = @ + 1]
     \/ body.sent = terms.size /\ body' = [body EXCEPT !.end = "whole"]
     \/ body.sent < terms.size /\ body' = [body EXCEPT !.end = "broken"]
  /\ UNCHANGED <<request, asked, told, answer, sent, response, logs>>

UpstreamAnswers ==
  /\ asked
  /\ \/ answer = "none" /\ answer' \in {"open", "reset"} /\ sent' = sent
     \/ answer = "open" /\ answer' = "open" /\ sent' = sent + 1
     \/ answer = "open" /\ answer' \in {"ended", "reset"} /\ sent' = sent
  /\ UNCHANGED <<request, asked, told, body, response, logs>>

-----------------------------------------------------------------------------
(***************************************************************************)
(* The client gets one status: a refusal when the upstream was not asked,  *)
(* an error that names its cause, or the upstream's own.                   *)
(***************************************************************************)
Refuse ==
  /\ ~asked /\ status = 0
  /\ status' \in {401, 404, 413, 429, 503} /\ text' \in BOOLEAN
  /\ UNCHANGED <<request, upstream, good, end, logs>>

Fail ==
  /\ status = 0
  /\ status' \in {502, 504} /\ text' \in BOOLEAN
  /\ status' = 504 => ~asked \/ ctx = "deadline"
  /\ status' = 502 => \/ ~asked \/ answer = "reset"
                      \/ body.end = "broken" \/ ctx = "cancelled"
  /\ UNCHANGED <<request, upstream, good, end, logs>>

Begin ==
  /\ status = 0 /\ answer # "none" /\ status' \in {101, 200}
  /\ UNCHANGED <<request, upstream, good, text, end, logs>>

\* Then the upstream's answer, as far as it came.
Relay ==
  /\ status = 200 /\ ~aborted /\ logged = 0 /\ ~text
  /\ good < sent /\ good' = good + 1
  /\ UNCHANGED <<request, upstream, status, text, end, logs>>

\* It is cut only for a reason, and that is told in the log.
Abort ==
  /\ status = 200 /\ ~aborted /\ logged = 0
  /\ answer = "reset" \/ body.end = "broken" \/ ctx # "live" \/ gone
  /\ aborted' = TRUE
  /\ UNCHANGED <<request, upstream, response, reported, logged>>

Report ==
  /\ aborted /\ ~reported /\ logged = 0
  /\ reported' = TRUE /\ text' \in BOOLEAN
  /\ UNCHANGED <<request, upstream, status, good, end, aborted, logged>>

\* One log line, with the status that was sent, when the exchange is over: the
\* client has the whole answer unless it was cut.
Log ==
  /\ status # 0 /\ logged = 0
  /\ IF aborted THEN reported
     ELSE status = 200 => answer = "ended" /\ good = sent /\ ~text
  /\ logged' = IF status = 101 THEN 200 ELSE status
  /\ UNCHANGED <<request, upstream, response, aborted, reported>>

Finish ==
  /\ logged # 0 /\ end = "open"
  /\ end' \in {"complete", "broken"} /\ (gone => end' = "broken")
  /\ UNCHANGED <<request, upstream, status, good, text, logs>>

Next ==
  \/ Grant \/ Interrupt \/ Ask \/ GiveBody \/ UpstreamAnswers
  \/ Refuse \/ Fail \/ Begin \/ Relay \/ Abort \/ Report \/ Log \/ Finish

Spec == Init /\ [][Next]_vars
=============================================================================
