------------------------------ MODULE MCGateway ------------------------------
(***************************************************************************)
(* Gateway with a call on each server, in environments with up to two      *)
(* upstreams and a route of each kind: a name configured twice, routes to  *)
(* upstreams that are configured for the other protocol only or not at     *)
(* all, and every way to fail.                                             *)
(***************************************************************************)
EXTENDS Gateway

CONSTANTS a, b, k, h, g

MCServers == {"http", "grpc"}
MCCalls == {h, g}
MCServerOf == [c \in MCCalls |-> IF c = g THEN "grpc" ELSE "http"]

Lists == {<<>>, <<a>>, <<a, b>>, <<a, a>>}
Routes == {<<>>} \cup {<<[key |-> k, upstream |-> u]>> : u \in Upstreams}
Sound == [wellFormed |-> TRUE, grpc |-> <<>>, http |-> <<>>,
          grpcRoutes |-> <<>>, httpRoutes |-> <<>>, grpcAddr |-> TRUE,
          limiter |-> TRUE, refill |-> "positive", refused |-> {},
          malformed |-> {}, conflict |-> FALSE]

MCConfigs ==
  {[Sound EXCEPT !.grpc = s, !.http = t, !.grpcRoutes = gr, !.httpRoutes = hr] :
     s \in Lists, t \in Lists, gr \in Routes, hr \in Routes}
  \cup {[Sound EXCEPT !.grpc = <<a, b>>, !.http = <<b>>, !.refused = r,
                      !.malformed = m, !.conflict = c, !.limiter = l, !.refill = f] :
          r \in SUBSET {a, b}, m \in SUBSET {b}, c \in BOOLEAN, l \in BOOLEAN,
          f \in {"positive", "notPositive", "nan"}}
  \cup {[Sound EXCEPT !.wellFormed = FALSE],
        [Sound EXCEPT !.grpc = <<a>>, !.grpcAddr = FALSE,
                      !.grpcRoutes = <<[key |-> k, upstream |-> a]>>]}
=============================================================================
