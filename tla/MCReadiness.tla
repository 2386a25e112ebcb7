----------------------------- MODULE MCReadiness -----------------------------
(***************************************************************************)
(* Two gRPC upstreams and Redis, asked in the order of newReadinessChecker.*)
(***************************************************************************)
EXTENDS Readiness

CONSTANTS users, auth

MCChecks == <<users, auth, Redis>>
=============================================================================
