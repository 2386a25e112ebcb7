----------------------------- MODULE MCRateLimit -----------------------------
(***************************************************************************)
(* Two concurrent calls: one user over both protocols and from two hosts,  *)
(* and an anonymous host over HTTP behind a proxy and over gRPC from       *)
(* another port.                                                           *)
(***************************************************************************)
EXTENDS RateLimit, TLC

CONSTANTS alice, h1, h2, p1, p2

MCCallers ==
  LET from(proto, user, host, port, forwarded) ==
        [proto |-> proto, user |-> user, host |-> host, port |-> port,
         forwarded |-> forwarded] IN
  {from("http", alice, h1, p1, None), from("grpc", alice, h2, p1, None),
   from("http", None, h1, p1, h2),
   from("grpc", None, h1, p2, None)}

\* The two settings meet in no definition: the two pairs show each value.
MCConfigs == {[failOpen |-> b, trustProxy |-> b] : b \in BOOLEAN}

Alike == Permutations(Calls)
=============================================================================
