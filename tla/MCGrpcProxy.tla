----------------------------- MODULE MCGrpcProxy -----------------------------
(***************************************************************************)
(* GrpcProxy on small instances: two messages each way over streams that   *)
(* hold one, so that every writer meets a full window.                     *)
(***************************************************************************)
EXTENDS GrpcProxy
=============================================================================
