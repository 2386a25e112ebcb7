---------------------------- MODULE MCTokenBucket ----------------------------
(***************************************************************************)
(* TokenBucket on small instances: two tokens of three units each and two  *)
(* units per millisecond, so that a token takes a fraction of a            *)
(* millisecond and every division rounds.                                  *)
(***************************************************************************)
EXTENDS TokenBucket
=============================================================================
