------------------------------ MODULE GrpcProxy ------------------------------
(***************************************************************************)
(* One call through grpcproxy.Proxy.Handle: the handler goroutine and its  *)
(* two forwarders, between a client and a backend that may each stop,      *)
(* fail or leave at any point.                                             *)
(*                                                                         *)
(* Each direction is a FIFO stream, so it is a record of counters: how     *)
(* many messages the writer sent (and the gateway's transport holds), how  *)
(* many the forwarder took with RecvMsg, how many it gave to the other     *)
(* stream with SendMsg, how many the reader took.                          *)
(*                                                                         *)
(* ServerStream and ClientStream are grpc-go's; the operators marked       *)
(* external say what the code relies on of them:                           *)
(*  - ServerStream.RecvMsg fails with io.EOF only at the half-close, and   *)
(*    with CANCELED when the stream's context is done;                     *)
(*  - ClientStream.SendMsg fails with io.EOF only, once the stream has     *)
(*    ended or was aborted; RecvMsg then tells the status;                 *)
(*  - ClientStream.Header returns no error: it unblocks when headers came  *)
(*    or the stream ended; CloseSend returns nil always;                   *)
(*  - a context that is done aborts the client stream (RST_STREAM) at some *)
(*    later point.                                                         *)
(***************************************************************************)
EXTENDS Naturals

CONSTANTS
  MaxUp, MaxDown,   \* bounds: messages a client, a backend writes
  Window            \* messages a stream holds before its writer blocks

ASSUME BoundsAssumption ==
  MaxUp \in Nat /\ MaxDown \in Nat /\ Window \in Nat \ {0}

VARIABLES
  clientHalf,  \* the client has half-closed
  clientGone,  \* the client has cancelled, timed out or lost its connection
  backHdr,     \* the backend's headers have arrived
  backend,     \* "running", or the status that arrived: "OK", "ERR"
  up, down,    \* counters of client -> backend and backend -> client
  stream,      \* clientStream: "none", "active", "aborted"
  upClosed,    \* CloseSend put END_STREAM on clientStream
  handle,      \* Handle: "start", "select", "returned"; "closed": status sent
  result,      \* what Handle returned ("none" before)
  c2b, b2c,    \* the forwarders: where they are, or the error they report
  upChan, downChan, \* clientToBackend, backendToClient
  trailers     \* SetTrailer has been called with the backend's trailers

env  == <<clientHalf, clientGone, backHdr, backend>>
vars == <<clientHalf, clientGone, backHdr, backend, up, down, stream, upClosed,
          handle, result, c2b, b2c, upChan, downChan, trailers>>

Counters == [sent : Nat, recvd : Nat, fwd : Nat, got : Nat]
\* Errors a forwarder reports on its channel.
Errors   == {"EOF", "CANCELED", "TOO_LARGE", "ERR", "SEND_FAILED"}
\* Errors Handle returns before it has a stream.
Refusals == {"UNIMPLEMENTED", "UNAVAILABLE", "NO_STREAM"}

(***************************************************************************)
(* Type invariant: which values each variable takes.                       *)
(***************************************************************************)
TypeOK ==
  /\ clientHalf \in BOOLEAN /\ clientGone \in BOOLEAN /\ backHdr \in BOOLEAN
  /\ backend \in {"running", "OK", "ERR"}
  /\ up \in Counters /\ down \in Counters
  /\ stream \in {"none", "active", "aborted"}
  /\ upClosed \in BOOLEAN /\ trailers \in BOOLEAN
  /\ handle \in {"start", "select", "returned", "closed"}
  /\ result \in {"none", "OK"} \cup (Errors \ {"EOF"}) \cup Refusals
  /\ c2b \in {"idle", "recv", "send", "exited"} \cup Errors
  /\ b2c \in {"idle", "header", "recv", "send", "exited"} \cup Errors
  /\ upChan \in {"empty", "nil"} \cup Errors
  /\ downChan \in {"empty", "nil"} \cup Errors

Init ==
  /\ clientHalf = FALSE /\ clientGone = FALSE
  /\ backHdr = FALSE /\ backend = "running"
  /\ up = [sent |-> 0, recvd |-> 0, fwd |-> 0, got |-> 0]
  /\ down = [sent |-> 0, recvd |-> 0, fwd |-> 0, got |-> 0]
  /\ stream = "none" /\ upClosed = FALSE
  /\ handle = "start" /\ result = "none"
  /\ c2b = "idle" /\ b2c = "idle"
  /\ upChan = "empty" /\ downChan = "empty"
  /\ trailers = FALSE

-----------------------------------------------------------------------------
(***************************************************************************)
(* The state of the two streams, as their operations see it.               *)
(***************************************************************************)
\* serverStream.Context() is done: the peer left or the status was written.
ServerDone == clientGone \/ handle = "closed"
\* Mutant: the stream is opened under context.Background().
CtxDoneDetached == handle = "returned"
\* Mutant: the end of the client's messages cancels the stream.
CtxDoneOnHalf == ServerDone \/ handle = "returned" \/ clientHalf
\* The context derived from it in Handle, cancelled by its deferred cancel().
CtxDone == ServerDone \/ handle = "returned"
\* The client stream still carries what is written to it.
StreamLive == stream = "active" /\ backend = "running"

\* A context that is done resets the client stream, some time later.
AbortStream ==
  /\ stream = "active" /\ CtxDone
  /\ stream' = "aborted"
  /\ UNCHANGED <<env, up, down, upClosed, handle, result, c2b, b2c, upChan,
                 downChan, trailers>>

-----------------------------------------------------------------------------
(***************************************************************************)
(* The client: writes, half-closes, reads, or leaves.  Leaving stands for  *)
(* a cancel, a deadline of the client, a lost connection and a forced      *)
(* grpc.Server.Stop: each ends the server stream's context.                *)
(***************************************************************************)
ClientSend ==
  /\ ~clientHalf /\ ~ServerDone
  /\ up.sent < MaxUp /\ up.sent - up.recvd < Window
  /\ up' = [up EXCEPT !.sent = @ + 1]
  /\ UNCHANGED <<env, down, stream, upClosed, handle, result, c2b, b2c, upChan,
                 downChan, trailers>>

ClientHalfClose ==
  /\ ~clientHalf /\ ~ServerDone
  /\ clientHalf' = TRUE
  /\ UNCHANGED <<clientGone, backHdr, backend, up, down, stream, upClosed,
                 handle, result, c2b, b2c, upChan, downChan, trailers>>

ClientRecv ==
  /\ ~clientGone /\ down.got < down.fwd
  /\ down' = [down EXCEPT !.got = @ + 1]
  /\ UNCHANGED <<env, up, stream, upClosed, handle, result, c2b, b2c, upChan,
                 downChan, trailers>>

ClientLeave ==
  /\ ~ServerDone
  /\ clientGone' = TRUE
  /\ UNCHANGED <<clientHalf, backHdr, backend, up, down, stream, upClosed,
                 handle, result, c2b, b2c, upChan, downChan, trailers>>

-----------------------------------------------------------------------------
(***************************************************************************)
(* The backend, as its events arrive on a client stream that is active.    *)
(* It may answer before, while and after it reads, and end at any point.   *)
(***************************************************************************)
BackendRecv ==
  /\ StreamLive /\ up.got < up.fwd
  /\ up' = [up EXCEPT !.got = @ + 1]
  /\ UNCHANGED <<env, down, stream, upClosed, handle, result, c2b, b2c, upChan,
                 downChan, trailers>>

BackendHeader ==
  /\ StreamLive /\ ~backHdr
  /\ backHdr' = TRUE
  /\ UNCHANGED <<clientHalf, clientGone, backend, up, down, stream, upClosed,
                 handle, result, c2b, b2c, upChan, downChan, trailers>>

BackendSend ==
  /\ StreamLive /\ backHdr
  /\ down.sent < MaxDown /\ down.sent - down.recvd < Window
  /\ down' = [down EXCEPT !.sent = @ + 1]
  /\ UNCHANGED <<env, up, stream, upClosed, handle, result, c2b, b2c, upChan,
                 downChan, trailers>>

\* A status, or the failure of the backend's connection ("ERR").
BackendEnd ==
  /\ StreamLive
  /\ backend' \in {"OK", "ERR"}
  /\ UNCHANGED <<clientHalf, clientGone, backHdr, up, down, stream, upClosed,
                 handle, result, c2b, b2c, upChan, downChan, trailers>>

-----------------------------------------------------------------------------
(***************************************************************************)
(* forwardClientToBackend.                                                 *)
(***************************************************************************)
\* serverStream.RecvMsg returns a message (one may still be buffered when
\* the context is done).
C2BRecv ==
  /\ c2b = "recv" /\ up.recvd < up.sent
  /\ up' = [up EXCEPT !.recvd = @ + 1]
  /\ c2b' = "send"
  /\ UNCHANGED <<env, down, stream, upClosed, handle, result, b2c, upChan,
                 downChan, trailers>>

\* The error serverStream.RecvMsg returns for each reason it fails.
RecvError ==
  (IF clientHalf /\ up.recvd = up.sent THEN {"EOF"} ELSE {})
    \cup (IF ServerDone THEN {"CANCELED"} ELSE {})
    \cup (IF up.recvd < up.sent THEN {"TOO_LARGE"} ELSE {})

C2BRecvFails ==
  /\ c2b = "recv"
  /\ c2b' \in RecvError
  /\ UNCHANGED <<env, up, down, stream, upClosed, handle, result, b2c, upChan,
                 downChan, trailers>>

\* Mutant: the loop may send the frame it holds twice.
C2BSendAgain ==
  /\ c2b = "send" /\ StreamLive /\ up.fwd - up.got < Window
  /\ up' = [up EXCEPT !.fwd = @ + 1]
  /\ c2b' \in {"recv", "send"}
  /\ UNCHANGED <<env, down, stream, upClosed, handle, result, b2c, upChan,
                 downChan, trailers>>
\* clientStream.SendMsg blocks while the stream is live and its window full.
C2BSend ==
  /\ c2b = "send"
  /\ \/ /\ StreamLive /\ up.fwd - up.got < Window
        /\ up' = [up EXCEPT !.fwd = @ + 1]
        /\ c2b' = "recv"
     \/ /\ ~StreamLive
        /\ c2b' = "EOF"
        /\ UNCHANGED up
  /\ UNCHANGED <<env, down, stream, upClosed, handle, result, b2c, upChan,
                 downChan, trailers>>

\* Mutant: unbuffered channels, so a send needs Handle in its select.
CanReportUnbuffered(ch) == ch = "empty" /\ handle = "select"
\* A send on a channel of capacity one that is used once never blocks.
CanReport(ch) == ch = "empty"

C2BReport ==
  /\ c2b \in Errors /\ CanReport(upChan)
  /\ upChan' = c2b
  /\ c2b' = "exited"
  /\ UNCHANGED <<env, up, down, stream, upClosed, handle, result, b2c,
                 downChan, trailers>>

ClientToBackend == C2BRecv \/ C2BRecvFails \/ C2BSend \/ C2BReport

-----------------------------------------------------------------------------
(***************************************************************************)
(* forwardBackendToClient.                                                 *)
(***************************************************************************)
\* Header unblocks; headers that are not empty go out with SendHeader,
\* which fails when the client's stream is done.
B2CHeader ==
  /\ b2c = "header"
  /\ \/ backHdr \/ ~StreamLive
  /\ \/ b2c' = "recv"
     \/ backHdr /\ ServerDone /\ b2c' = "SEND_FAILED"
  /\ UNCHANGED <<env, up, down, stream, upClosed, handle, result, c2b, upChan,
                 downChan, trailers>>

B2CRecv ==
  /\ b2c = "recv" /\ down.recvd < down.sent
  /\ down' = [down EXCEPT !.recvd = @ + 1]
  /\ b2c' = "send"
  /\ UNCHANGED <<env, up, stream, upClosed, handle, result, c2b, upChan,
                 downChan, trailers>>

\* The error clientStream.RecvMsg returns: the status comes after the last
\* message; an abort or a message too large may come before it.
StatusError ==
  (IF down.recvd = down.sent /\ backend = "OK" THEN {"EOF"} ELSE {})
    \cup (IF down.recvd = down.sent /\ backend = "ERR" THEN {"ERR"} ELSE {})
    \cup (IF stream = "aborted" THEN {"CANCELED"} ELSE {})
    \cup (IF down.recvd < down.sent THEN {"TOO_LARGE"} ELSE {})

\* The trailers are set before the error is reported, on every error.
B2CRecvFails ==
  /\ b2c = "recv"
  /\ b2c' \in StatusError
  /\ trailers' = (handle # "closed")
  /\ UNCHANGED <<env, up, down, stream, upClosed, handle, result, c2b, upChan,
                 downChan>>

\* Mutant: a frame in hand is given up for the next one.
B2CSendDrops ==
  /\ b2c = "send" /\ b2c' = "recv"
  /\ UNCHANGED <<env, up, down, stream, upClosed, handle, result, c2b, upChan,
                 downChan, trailers>>
\* serverStream.SendMsg blocks while the client's window is full.
B2CSend ==
  /\ b2c = "send"
  /\ \/ /\ ~ServerDone /\ down.fwd - down.got < Window
        /\ down' = [down EXCEPT !.fwd = @ + 1]
        /\ b2c' = "recv"
     \/ /\ ServerDone
        /\ b2c' = "SEND_FAILED"
        /\ UNCHANGED down
  /\ UNCHANGED <<env, up, stream, upClosed, handle, result, c2b, upChan,
                 downChan, trailers>>

B2CReport ==
  /\ b2c \in Errors /\ CanReport(downChan)
  /\ downChan' = b2c
  /\ b2c' = "exited"
  /\ UNCHANGED <<env, up, down, stream, upClosed, handle, result, c2b, upChan,
                 trailers>>

BackendToClient == B2CHeader \/ B2CRecv \/ B2CRecvFails \/ B2CSend \/ B2CReport

-----------------------------------------------------------------------------
(***************************************************************************)
(* Proxy.Handle.                                                           *)
(***************************************************************************)
\* No method or route, no upstream connection, or NewStream failed.
Refuse ==
  /\ handle = "start"
  /\ handle' = "returned"
  /\ result' \in Refusals
  /\ UNCHANGED <<env, up, down, stream, upClosed, c2b, b2c, upChan, downChan,
                 trailers>>

\* NewStream succeeded: both forwarders start.
Open ==
  /\ handle = "start"
  /\ handle' = "select"
  /\ stream' = "active"
  /\ c2b' = "recv" /\ b2c' = "header"
  /\ UNCHANGED <<env, up, down, upClosed, result, upChan, downChan, trailers>>

\* Mutant: CloseSend is forgotten.
OnClientToBackendOpen ==
  /\ handle = "select" /\ upChan \in Errors
  /\ upChan' = "nil"
  /\ IF upChan = "EOF"
       THEN UNCHANGED <<handle, result>>
       ELSE handle' = "returned" /\ result' = upChan
  /\ UNCHANGED <<env, up, down, stream, upClosed, c2b, b2c, downChan, trailers>>
\* Mutant: io.EOF from either side means the call succeeded.
OnClientToBackendEnds ==
  /\ handle = "select" /\ upChan \in Errors
  /\ upChan' = "nil" /\ handle' = "returned"
  /\ result' = IF upChan = "EOF" THEN "OK" ELSE upChan
  /\ UNCHANGED <<env, up, down, stream, upClosed, c2b, b2c, downChan, trailers>>
\* case <-clientToBackend: the end of the client's messages closes the send
\* side and the loop goes on; any other error ends the call.
OnClientToBackend ==
  /\ handle = "select" /\ upChan \in Errors
  /\ upChan' = "nil"
  /\ IF upChan = "EOF"
       THEN /\ upClosed' = StreamLive
            /\ UNCHANGED <<handle, result>>
       ELSE /\ handle' = "returned"
            /\ result' = upChan
            /\ UNCHANGED upClosed
  /\ UNCHANGED <<env, up, down, stream, c2b, b2c, downChan, trailers>>

\* Mutant: the call waits for both directions before it ends.
OnBackendToClientWaits ==
  /\ handle = "select" /\ downChan \in Errors /\ upChan = "nil"
  /\ downChan' = "nil" /\ handle' = "returned"
  /\ result' = IF downChan = "EOF" THEN "OK" ELSE downChan
  /\ UNCHANGED <<env, up, down, stream, upClosed, c2b, b2c, upChan, trailers>>
\* case <-backendToClient: always ends the call.
OnBackendToClient ==
  /\ handle = "select" /\ downChan \in Errors
  /\ downChan' = "nil"
  /\ handle' = "returned"
  /\ result' = IF downChan = "EOF" THEN "OK" ELSE downChan
  /\ UNCHANGED <<env, up, down, stream, upClosed, c2b, b2c, upChan, trailers>>

\* grpc.Server writes the status (and the trailers set so far).
WriteStatus ==
  /\ handle = "returned"
  /\ handle' = "closed"
  /\ UNCHANGED <<env, up, down, stream, upClosed, result, c2b, b2c, upChan,
                 downChan, trailers>>

Handler == Refuse \/ Open \/ OnClientToBackend \/ OnBackendToClient
             \/ WriteStatus

-----------------------------------------------------------------------------
Client  == ClientSend \/ ClientHalfClose \/ ClientRecv \/ ClientLeave
Backend == BackendRecv \/ BackendHeader \/ BackendSend \/ BackendEnd

Next == Client \/ Backend \/ AbortStream \/ ClientToBackend
          \/ BackendToClient \/ Handler

(***************************************************************************)
(* Fairness of the gateway's own goroutines and of grpc-go's reset; the    *)
(* client and the backend owe nothing.                                     *)
(***************************************************************************)
Fairness ==
  /\ WF_vars(Handler)
  /\ WF_vars(ClientToBackend)
  /\ WF_vars(BackendToClient)
  /\ WF_vars(AbortStream)

Spec == Init /\ [][Next]_vars /\ Fairness

-----------------------------------------------------------------------------
(***************************************************************************)
(* The call succeeds for the client only if it succeeded at the backend    *)
(* and every message and the trailers of the backend went ahead of the     *)
(* status: the end of the client's own messages, which the same select     *)
(* reports as io.EOF, never stands for it (Proxy.Handle, 109-128).         *)
(***************************************************************************)
OKMeansWhole ==
  result = "OK" => backend = "OK" /\ down.fwd = down.sent /\ trailers

(***************************************************************************)
(* The backend sees END_STREAM only if the client half-closed and every    *)
(* message it wrote went ahead of it: a client that was cancelled or whose *)
(* message was refused never looks like one that finished.                 *)
(***************************************************************************)
HalfCloseIsWhole ==
  upClosed => clientHalf /\ up.fwd = up.sent

(***************************************************************************)
(* The call fails for a reason an outsider can see: as cancelled only when *)
(* the client left, with an error of the backend only after that error and *)
(* all the backend wrote before it, as too large only with a message that  *)
(* was not delivered.  A cancel that the gateway itself caused, or the     *)
(* failure of a send to an ended stream, never hides the real status.      *)
(***************************************************************************)
FailureHasCause ==
  /\ result \in {"CANCELED", "SEND_FAILED"} => clientGone
  /\ result = "ERR" => backend = "ERR" /\ down.fwd = down.sent /\ trailers
  /\ result = "TOO_LARGE" => up.fwd < up.sent \/ down.fwd < down.sent

Quiet == /\ c2b \in {"idle", "exited"} /\ b2c \in {"idle", "exited"}
         /\ ~StreamLive

(***************************************************************************)
(* However Handle returns, both forwarders exit and the backend's stream   *)
(* is released, also when neither peer ever reads, writes or closes again. *)
(***************************************************************************)
NoLeak == (handle = "returned") ~> Quiet

(***************************************************************************)
(* A client that leaves ends the call, even when the forwarder that would  *)
(* notice is blocked on a backend that does not read.                      *)
(***************************************************************************)
Released == clientGone ~> (handle = "closed")

(***************************************************************************)
(* The half-close reaches the backend, unless the call is over or the      *)
(* backend has stopped reading for good.                                   *)
(***************************************************************************)
HalfCloseArrives ==
  clientHalf ~> \/ upClosed \/ backend # "running" \/ handle = "closed"
                \/ [](up.fwd - up.got = Window)

(***************************************************************************)
(* Once the backend has ended, the client gets the status, also if it is   *)
(* not done writing, unless it has stopped reading for good.               *)
(***************************************************************************)
StatusArrives ==
  (backend # "running") ~> \/ handle = "closed"
                           \/ [](down.fwd - down.got = Window)

-----------------------------------------------------------------------------
(***************************************************************************)
(* Why these hold: what is known while an error is on its way from a       *)
(* forwarder to Handle.                                                    *)
(***************************************************************************)
\* A forwarder holds at most one frame, and none when it waits for one.
InHand ==
  /\ up.fwd <= up.recvd /\ up.recvd <= up.sent
  /\ down.fwd <= down.recvd /\ down.recvd <= down.sent
  /\ c2b \in {"idle", "recv"} => up.recvd = up.fwd
  /\ c2b = "send" => up.recvd = up.fwd + 1
  /\ b2c \in {"idle", "header", "recv"} => down.recvd = down.fwd
  /\ b2c = "send" => down.recvd = down.fwd + 1

\* Where the three goroutines are relative to each other.
Phases ==
  /\ handle = "start" <=> stream = "none" /\ result = "none"
  /\ c2b = "idle" <=> stream = "none"
  /\ b2c = "idle" <=> stream = "none"
  /\ stream = "none" => /\ up.fwd = 0 /\ down.fwd = 0
                        /\ handle \in {"returned", "closed"} => result \in Refusals
  /\ stream = "aborted" => CtxDone
  /\ handle = "select" => result = "none"
  /\ handle \in {"returned", "closed"} => result # "none"
  /\ result \in Refusals => stream = "none"
  /\ upChan # "empty" => c2b = "exited"
  /\ downChan # "empty" => b2c = "exited"
  /\ upClosed => upChan = "nil"
  /\ result \in {"OK", "ERR"} => downChan = "nil"
  /\ result = "TOO_LARGE" => \/ upChan = "nil" /\ up.fwd < up.sent
                             \/ downChan = "nil" /\ down.fwd < down.sent

\* What an error of the client's side says, while Handle waits.
UpError(e) ==
  /\ e = "EOF" => \/ clientHalf /\ up.fwd = up.sent
                  \/ ~StreamLive
  /\ e \in {"CANCELED", "SEND_FAILED"} /\ handle = "select" => clientGone
  /\ e = "TOO_LARGE" => up.fwd < up.sent
  /\ e # "ERR"

\* What an error of the backend's side says, while Handle waits.
DownError(e) ==
  /\ e \in {"EOF", "ERR"} =>
       /\ backend = IF e = "EOF" THEN "OK" ELSE "ERR"
       /\ down.fwd = down.sent
       /\ handle = "select" => trailers
  /\ e \in {"CANCELED", "SEND_FAILED"} /\ handle = "select" => clientGone
  /\ e = "TOO_LARGE" => down.fwd < down.sent

\* The inductive invariant.
IInv ==
  /\ TypeOK /\ InHand /\ Phases
  /\ UpError(c2b) /\ UpError(upChan)
  /\ DownError(b2c) /\ DownError(downChan)
  /\ OKMeansWhole /\ HalfCloseIsWhole /\ FailureHasCause

-----------------------------------------------------------------------------
\* The outcome the abstract call has for each error Handle returns.
Outcome(r) ==
  CASE r \in {"OK", "ERR"}                -> r
    [] r \in {"CANCELED", "SEND_FAILED"} -> "LOST"
    [] r = "TOO_LARGE"                    -> "LIMIT"
    [] r \in Refusals                     -> "REFUSED"
    [] OTHER                              -> "none"

(***************************************************************************)
(* The goroutines, channels and frames in hand implement one transparent   *)
(* call: its status is the result at the moment it is written.             *)
(***************************************************************************)
Relay == INSTANCE StreamRelay WITH
  upSent <- up.sent, upOut <- up.fwd, downSent <- down.sent,
  downOut <- down.fwd, half <- clientHalf, eof <- upClosed,
  gone <- clientGone,
  status <- IF handle = "closed" THEN Outcome(result) ELSE "none"

Transparent == Relay!Spec
=============================================================================
