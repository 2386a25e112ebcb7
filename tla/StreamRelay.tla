----------------------------- MODULE StreamRelay -----------------------------
(***************************************************************************)
(* What a transparent gRPC proxy promises about one call, seen only from   *)
(* the two edges: the client's stream and the backend's stream.  Nothing   *)
(* of goroutines, channels or frames in hand is visible here.  GrpcProxy   *)
(* implements this specification.                                          *)
(*                                                                         *)
(* Messages of one direction travel in order on one HTTP/2 stream, so the  *)
(* i-th message is named by its number and a stream by how many messages   *)
(* it has carried.                                                         *)
(***************************************************************************)
EXTENDS Naturals

VARIABLES
  upSent, upOut,      \* messages the client wrote / the backend stream got
  downSent, downOut,  \* messages the backend wrote / the client stream got
  half,               \* the client closed its send side
  eof,                \* the backend stream carries END_STREAM
  gone,               \* the client cancelled or its connection is lost
  backend,            \* "running", or the status the backend ended with
  status              \* "none", or the outcome the call was closed with

vars == <<upSent, upOut, downSent, downOut, half, eof, gone, backend, status>>

Init ==
  /\ upSent = 0 /\ upOut = 0 /\ downSent = 0 /\ downOut = 0
  /\ half = FALSE /\ eof = FALSE /\ gone = FALSE
  /\ backend = "running" /\ status = "none"

\* A client writes until it half-closes or leaves.
Ask ==
  /\ ~half /\ ~gone
  /\ \/ upSent' = upSent + 1 /\ UNCHANGED half
     \/ half' = TRUE /\ UNCHANGED upSent
  /\ UNCHANGED <<upOut, downSent, downOut, eof, gone, backend, status>>

Leave ==
  /\ gone' = TRUE
  /\ UNCHANGED <<upSent, upOut, downSent, downOut, half, eof, backend, status>>

\* The next message, and only then the half-close, reaches the backend.
PassUp ==
  /\ ~eof
  /\ \/ upOut < upSent /\ upOut' = upOut + 1 /\ UNCHANGED eof
     \/ half /\ upOut = upSent /\ eof' = TRUE /\ UNCHANGED upOut
  /\ UNCHANGED <<upSent, downSent, downOut, half, gone, backend, status>>

\* A backend writes until it ends.
Answer ==
  /\ backend = "running"
  /\ \/ downSent' = downSent + 1 /\ UNCHANGED backend
     \/ backend' \in {"OK", "ERR"} /\ UNCHANGED downSent
  /\ UNCHANGED <<upSent, upOut, downOut, half, eof, gone, status>>

\* The client gets the next message, never one after the call is closed.
PassDown ==
  /\ status = "none"
  /\ downOut < downSent
  /\ downOut' = downOut + 1
  /\ UNCHANGED <<upSent, upOut, downSent, half, eof, gone, backend, status>>

(***************************************************************************)
(* The call closes once.  OK only when the backend said OK and the client  *)
(* stream got all it wrote; an error of the backend only when the backend  *)
(* said it; "LOST" only for a client that left.  "LIMIT" (a message above  *)
(* the size limit) and "REFUSED" (no route, no upstream, no stream) are    *)
(* the gateway's own answers.                                              *)
(***************************************************************************)
Close ==
  /\ status = "none"
  /\ status' \in {"OK", "ERR", "LOST", "LIMIT", "REFUSED"}
  /\ status' = "OK" => backend = "OK" /\ downOut = downSent
  /\ status' = "ERR" => backend = "ERR" /\ downOut = downSent
  /\ status' = "LOST" => gone
  /\ status' = "REFUSED" => upOut = 0 /\ downOut = 0 /\ ~eof
  /\ UNCHANGED <<upSent, upOut, downSent, downOut, half, eof, gone, backend>>

Next == Ask \/ Leave \/ PassUp \/ Answer \/ PassDown \/ Close

Spec == Init /\ [][Next]_vars
=============================================================================
