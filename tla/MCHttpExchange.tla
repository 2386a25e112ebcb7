--------------------------- MODULE MCHttpExchange ---------------------------
(***************************************************************************)
(* HttpExchange with every gate on, with the limiter failing open and no   *)
(* request timeout, and with every gate off; requests with and without a   *)
(* token and a claim, bodies up to one unit over the limit.                *)
(***************************************************************************)
EXTENDS HttpExchange

CONSTANTS alice, bob

MCUsers == {alice, bob}
MCConfigs ==
  {[jwt |-> TRUE, limiter |-> "closed", maxBody |-> 1, timeout |-> TRUE],
   [jwt |-> TRUE, limiter |-> "open", maxBody |-> 1, timeout |-> FALSE],
   [jwt |-> FALSE, limiter |-> "closed", maxBody |-> 0, timeout |-> TRUE],
   [jwt |-> FALSE, limiter |-> "off", maxBody |-> 0, timeout |-> TRUE]}

Plain == [public |-> FALSE, token |-> alice, claim |-> bob, routed |-> TRUE,
          declared |-> TRUE, size |-> 0, upgrade |-> FALSE]
MCRequests ==
  {[Plain EXCEPT !.declared = d, !.size = n] : d \in BOOLEAN, n \in 0..2}
  \cup {[Plain EXCEPT !.public = p, !.token = t, !.claim = c] :
         p \in BOOLEAN, t \in {alice, NoUser}, c \in {bob, NoUser}}
  \cup {[Plain EXCEPT !.upgrade = TRUE], [Plain EXCEPT !.routed = FALSE]}
=============================================================================
