--------------------------- MODULE GrpcProxyProofs ---------------------------
(***************************************************************************)
(* Theorems about GrpcProxy for every number of messages and every window. *)
(*                                                                         *)
(* What makes them true is said in IInv: an error that a forwarder reports *)
(* stays true of the stream until Handle reads it (UpError, DownError),    *)
(* because the forwarder that reported it has stopped and its counters     *)
(* no longer move.                                                         *)
(***************************************************************************)
EXTENDS GrpcProxy, TLAPS

\* The inductive invariant holds of a call that was not served yet.
LEMMA InitInv == Init => IInv
<1> SUFFICES ASSUME Init PROVE IInv
  OBVIOUS
<1> USE DEF Init
<1>1. TypeOK
  BY DEF TypeOK, Counters
<1>2. InHand
  BY DEF InHand
<1>3. Phases
  BY DEF Phases, CtxDone, ServerDone, Refusals
<1>4. UpError(c2b) /\ UpError(upChan)
  BY DEF UpError
<1>5. DownError(b2c) /\ DownError(downChan)
  BY DEF DownError
<1>6. OKMeansWhole /\ HalfCloseIsWhole /\ FailureHasCause
  BY DEF OKMeansWhole, HalfCloseIsWhole, FailureHasCause
<1> QED
  BY <1>1, <1>2, <1>3, <1>4, <1>5, <1>6 DEF IInv

\* Every action keeps the inductive invariant.
LEMMA StepInv == IInv /\ [Next]_vars => IInv'
<1> SUFFICES ASSUME IInv, [Next]_vars PROVE IInv'
  OBVIOUS
<1> USE DEF IInv, env, TypeOK, Counters, Errors, Refusals, InHand, Phases,
            UpError, DownError, StreamLive, CtxDone, ServerDone, OKMeansWhole,
            HalfCloseIsWhole, FailureHasCause
<1>1. CASE ClientSend
  BY <1>1 DEF ClientSend
<1>2. CASE ClientHalfClose
  BY <1>2 DEF ClientHalfClose
<1>3. CASE ClientRecv
  BY <1>3 DEF ClientRecv
<1>4. CASE ClientLeave
  BY <1>4 DEF ClientLeave
<1>5. CASE BackendRecv
  BY <1>5 DEF BackendRecv
<1>6. CASE BackendHeader
  BY <1>6 DEF BackendHeader
<1>7. CASE BackendSend
  BY <1>7 DEF BackendSend
<1>8. CASE BackendEnd
  BY <1>8 DEF BackendEnd
<1>9. CASE AbortStream
  BY <1>9 DEF AbortStream
<1>10. CASE C2BRecv
  BY <1>10 DEF C2BRecv
<1>11. CASE C2BRecvFails
  BY <1>11 DEF C2BRecvFails, RecvError
<1>12. CASE C2BSend
  <2>1. CASE c2b' = "recv"
    BY <1>12, <2>1 DEF C2BSend
  <2>2. CASE c2b' = "EOF"
    BY <1>12, <2>2 DEF C2BSend
  <2> QED
    BY <1>12, <2>1, <2>2 DEF C2BSend
<1>13. CASE C2BReport
  BY <1>13 DEF C2BReport, CanReport
<1>14. CASE B2CHeader
  BY <1>14 DEF B2CHeader
<1>15. CASE B2CRecv
  BY <1>15 DEF B2CRecv
<1>16. CASE B2CRecvFails
  <2>1. b2c = "recv" /\ trailers' = (handle # "closed")
        /\ UNCHANGED <<env, up, down, stream, upClosed, handle, result, c2b,
                       upChan, downChan>>
    BY <1>16 DEF B2CRecvFails
  <2>2. b2c' \in Errors \ {"SEND_FAILED"}
    BY <1>16 DEF B2CRecvFails, StatusError
  <2>3. DownError(b2c)'
    <3>1. CASE b2c' = "EOF" \/ b2c' = "ERR"
      BY <3>1, <2>1, <1>16 DEF B2CRecvFails, StatusError
    <3>2. CASE b2c' = "CANCELED"
      BY <3>2, <2>1, <1>16 DEF B2CRecvFails, StatusError
    <3>3. CASE b2c' = "TOO_LARGE"
      BY <3>3, <2>1, <1>16 DEF B2CRecvFails, StatusError
    <3> QED
      BY <3>1, <3>2, <3>3, <2>2
  <2>4. downChan = "empty" /\ result \notin {"OK", "ERR"}
    BY <2>1
  <2>5. TypeOK' /\ InHand'
    BY <2>1, <2>2
  <2>6. Phases'
    BY <2>1, <2>2
  <2> QED
    BY <2>1, <2>2, <2>3, <2>4, <2>5, <2>6
<1>17. CASE B2CSend
  BY <1>17 DEF B2CSend
<1>18. CASE B2CReport
  BY <1>18 DEF B2CReport, CanReport
<1>19. CASE Refuse
  BY <1>19 DEF Refuse
<1>20. CASE Open
  BY <1>20 DEF Open
<1>21. CASE OnClientToBackend
  BY <1>21 DEF OnClientToBackend
<1>22. CASE OnBackendToClient
  BY <1>22 DEF OnBackendToClient
<1>23. CASE WriteStatus
  BY <1>23 DEF WriteStatus
<1>24. CASE UNCHANGED vars
  BY <1>24 DEF vars
<1> QED
  BY <1>1, <1>2, <1>3, <1>4, <1>5, <1>6, <1>7, <1>8, <1>9, <1>10, <1>11,
     <1>12, <1>13, <1>14, <1>15, <1>16, <1>17, <1>18, <1>19, <1>20, <1>21,
     <1>22, <1>23, <1>24
  DEF Next, Client, Backend, ClientToBackend, BackendToClient, Handler

\* The inductive invariant holds in every state: each error on its way
\* through a goroutine or a channel has a cause, and each forwarder the frame
\* it holds.
THEOREM Invariant == Spec => []IInv
<1> QED
  BY InitInv, StepInv, PTL DEF Spec

-----------------------------------------------------------------------------
(***************************************************************************)
(* Every variable keeps its type, for any bounds.                          *)
(***************************************************************************)
THEOREM TypeCorrect == Spec => []TypeOK
<1>1. IInv => TypeOK
  BY DEF IInv
<1> QED
  BY Invariant, <1>1, PTL

(***************************************************************************)
(* The client is told OK only after it was given all of a call that the    *)
(* backend ended with OK.                                                  *)
(***************************************************************************)
THEOREM SuccessIsReal == Spec => []OKMeansWhole
<1>1. IInv => OKMeansWhole
  BY DEF IInv
<1> QED
  BY Invariant, <1>1, PTL

(***************************************************************************)
(* END_STREAM reaches the backend only behind all of a client's messages.  *)
(***************************************************************************)
THEOREM HalfCloseIsReal == Spec => []HalfCloseIsWhole
<1>1. IInv => HalfCloseIsWhole
  BY DEF IInv
<1> QED
  BY Invariant, <1>1, PTL

(***************************************************************************)
(* Every failure the client is told of happened.                           *)
(***************************************************************************)
THEOREM FailureIsReal == Spec => []FailureHasCause
<1>1. IInv => FailureHasCause
  BY DEF IInv
<1> QED
  BY Invariant, <1>1, PTL

-----------------------------------------------------------------------------
\* The abstract call starts where the proxy's does.
LEMMA RelayInit == Init => Relay!Init
BY DEF Init, Relay!Init

\* Every step of the proxy is a step of the abstract call, or none.
LEMMA RelayStep == IInv /\ [Next]_vars => [Relay!Next]_(Relay!vars)
<1> SUFFICES ASSUME IInv, [Next]_vars PROVE [Relay!Next]_(Relay!vars)
  OBVIOUS
<1> USE DEF IInv, env, Relay!vars, Relay!Next
<1>1. CASE ClientSend
  BY <1>1 DEF ClientSend, ServerDone, Relay!Ask, TypeOK, Counters
<1>2. CASE ClientHalfClose
  BY <1>2 DEF ClientHalfClose, ServerDone, Relay!Ask
<1>3. CASE ClientRecv
  BY <1>3 DEF ClientRecv, TypeOK, Counters
<1>4. CASE ClientLeave
  BY <1>4 DEF ClientLeave, Relay!Leave
<1>5. CASE BackendRecv
  BY <1>5 DEF BackendRecv, TypeOK, Counters
<1>6. CASE BackendHeader
  BY <1>6 DEF BackendHeader
<1>7. CASE BackendSend
  BY <1>7 DEF BackendSend, StreamLive, Relay!Answer, TypeOK, Counters
<1>8. CASE BackendEnd
  BY <1>8 DEF BackendEnd, StreamLive, Relay!Answer
<1>9. CASE AbortStream
  BY <1>9 DEF AbortStream
<1>10. CASE C2BRecv
  BY <1>10 DEF C2BRecv, TypeOK, Counters
<1>11. CASE C2BRecvFails
  BY <1>11 DEF C2BRecvFails
<1>12. CASE C2BSend
  BY <1>12 DEF C2BSend, Relay!PassUp, InHand, Phases, TypeOK, Counters
<1>13. CASE C2BReport
  BY <1>13 DEF C2BReport
<1>14. CASE B2CHeader
  BY <1>14 DEF B2CHeader
<1>15. CASE B2CRecv
  BY <1>15 DEF B2CRecv, TypeOK, Counters
<1>16. CASE B2CRecvFails
  BY <1>16 DEF B2CRecvFails
<1>17. CASE B2CSend
  BY <1>17 DEF B2CSend, ServerDone, Relay!PassDown, InHand, TypeOK, Counters
<1>18. CASE B2CReport
  BY <1>18 DEF B2CReport
<1>19. CASE Refuse
  BY <1>19 DEF Refuse
<1>20. CASE Open
  BY <1>20 DEF Open
<1>21. CASE OnClientToBackend
  BY <1>21 DEF OnClientToBackend, UpError, Phases, StreamLive, Relay!PassUp,
               TypeOK
<1>22. CASE OnBackendToClient
  BY <1>22 DEF OnBackendToClient
<1>23. CASE WriteStatus
  <2>1. /\ handle # "closed" /\ result # "none"
        /\ result \in {"OK"} \cup (Errors \ {"EOF"}) \cup Refusals
    BY <1>23 DEF WriteStatus, Phases, TypeOK
  <2>2. /\ Outcome(result) = "OK" => result = "OK"
        /\ Outcome(result) = "ERR" => result = "ERR"
        /\ Outcome(result) = "LOST" => result \in {"CANCELED", "SEND_FAILED"}
        /\ Outcome(result) = "REFUSED" => result \in Refusals
        /\ Outcome(result) \in {"OK", "ERR", "LOST", "LIMIT", "REFUSED"}
    BY <2>1 DEF Outcome, Errors, Refusals
  <2>3. Outcome(result)' = Outcome(result)
    BY <1>23 DEF WriteStatus, Outcome
  <2>4. result \in Refusals => up.fwd = 0 /\ down.fwd = 0 /\ ~upClosed
    BY DEF Phases
  <2> QED
    BY <1>23, <2>1, <2>2, <2>3, <2>4
    DEF WriteStatus, Relay!Close, OKMeansWhole, FailureHasCause
<1>24. CASE UNCHANGED vars
  BY <1>24 DEF vars
<1> QED
  BY <1>1, <1>2, <1>3, <1>4, <1>5, <1>6, <1>7, <1>8, <1>9, <1>10, <1>11,
     <1>12, <1>13, <1>14, <1>15, <1>16, <1>17, <1>18, <1>19, <1>20, <1>21,
     <1>22, <1>23, <1>24
  DEF Next, Client, Backend, ClientToBackend, BackendToClient, Handler

(***************************************************************************)
(* Handle and its two forwarders implement one transparent call.           *)
(***************************************************************************)
THEOREM Implements == Spec => Transparent
<1> QED
  BY Invariant, RelayInit, RelayStep, PTL DEF Spec, Transparent, Relay!Spec
=============================================================================
