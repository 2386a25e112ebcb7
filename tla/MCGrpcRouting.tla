---------------------------- MODULE MCGrpcRouting ----------------------------
(***************************************************************************)
(* Up to three routes in every order, with nested, overlapping, equal and  *)
(* bad prefixes.                                                           *)
(***************************************************************************)
EXTENDS GrpcRouting

CONSTANTS a, b, u, v

MCPrefixes == {<<Slash>>, <<Slash, a>>, <<Slash, b>>, <<Slash, a, b>>, <<a>>, <<>>}
MCTables ==
  UNION {[1..n -> [prefix : MCPrefixes, upstream : {u, v}]] : n \in 0..3}
MCMethods == {<<Slash, x, y>> : x \in {a, b}, y \in {a, b}} \cup {<<Slash>>}
=============================================================================
