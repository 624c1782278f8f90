--------------------------- MODULE WsClientProofs ---------------------------
(***************************************************************************)
(* Proofs about WsClient, for any submissions and messages and any         *)
(* capacity of LogChan.                                                    *)
(***************************************************************************)
EXTENDS WsClient, TLAPS

\* What sendLoop writes was submitted and has been handed over.
PayloadInv == sender = "write" => payload \in shown \ waiting

IInv == TypeOK /\ PayloadInv

\* The variables keep their types. So no event is lost or made up between the
\* connection and the UI, LogChan never holds more than it can, and what is written
\* to the connection was submitted and is no longer waiting, whenever and in
\* whatever order the loops find out that the connection is gone.
THEOREM TypeCorrect == Spec => []TypeOK
<1>1. Init => IInv
  <2> SUFFICES ASSUME Init PROVE IInv
    OBVIOUS
  <2>1. up \in BOOLEAN /\ cancelled \in BOOLEAN
    BY DEF Init
  <2>2. read = handled + logChan + (IF listener = "put" THEN 1 ELSE 0)
    BY DEF Init
  <2>3. QED
    BY <2>1, <2>2, WsClientAssumption DEF Init, IInv, TypeOK, PayloadInv
<1>2. IInv /\ [Next]_vars => IInv'
  <2> SUFFICES ASSUME IInv, [Next]_vars PROVE IInv'
    OBVIOUS
  <2> USE WsClientAssumption DEF IInv, TypeOK, PayloadInv, network, sending, receiving
  <2>1. CASE Disconnect
    BY <2>1 DEF Disconnect
  <2>2. ASSUME NEW s \in Submission, Submit(s) PROVE IInv'
    BY <2>2 DEF Submit
  <2>3. CASE HandleEvent
    BY <2>3 DEF HandleEvent
  <2>4. CASE Park
    BY <2>4 DEF Park
  <2>5. ASSUME NEW s \in Submission, TakePayload(s) PROVE IInv'
    BY <2>5 DEF TakePayload
  <2>6. CASE Write
    BY <2>6 DEF Write
  <2>7. CASE Shutdown
    BY <2>7 DEF Shutdown
  <2>8. CASE Read
    BY <2>8 DEF Read
  <2>9. CASE Put
    BY <2>9 DEF Put
  <2>10. CASE Quit
    BY <2>10 DEF Quit
  <2>11. CASE Cancel
    BY <2>11 DEF Cancel
  <2>12. CASE UNCHANGED vars
    BY <2>12 DEF vars
  <2>13. QED
    BY <2>1, <2>2, <2>3, <2>4, <2>5, <2>6, <2>7, <2>8, <2>9, <2>10, <2>11, <2>12
       DEF Next, SendLoop, Listener
<1>3. IInv => TypeOK
  BY DEF IInv
<1>4. QED
  BY <1>1, <1>2, <1>3, PTL DEF Spec
=============================================================================
