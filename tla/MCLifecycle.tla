----------------------------- MODULE MCLifecycle -----------------------------
(***************************************************************************)
(* Lifecycle with both servers, two HTTP calls and two gRPC calls.         *)
(***************************************************************************)
EXTENDS Lifecycle, TLC

CONSTANTS h1, h2, g1, g2

MCServers == {"http", "grpc"}
MCCalls == {h1, h2, g1, g2}
MCServerOf == [c \in MCCalls |-> IF c \in {h1, h2} THEN "http" ELSE "grpc"]
Symmetry == Permutations({h1, h2}) \cup Permutations({g1, g2})
=============================================================================
