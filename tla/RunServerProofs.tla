-------------------------- MODULE RunServerProofs --------------------------
(***************************************************************************)
(* What the two embedders need to know of RunServer: the fields of a test  *)
(* keep their types, whoever touches them.                                 *)
(***************************************************************************)
EXTENDS RunServer, TLAPS

\* Every operation on a server, by its own worker or by others.
ServerOperation(w) ==
    \/ Call(w) \/ Advance(w) \/ Return(w)
    \/ ClientConnects(w) \/ MarkDone(w) \/ Shutdown(w) \/ Nudge(w)
    \/ FreeFields(w) \/ Defaults(w) \/ ResetTest(w)

\* A server keeps its type whatever is done to it.
LEMMA ServerTypes ==
    ASSUME ServerTypeOK, NEW w \in Workers, ServerOperation(w)
    PROVE  ServerTypeOK'
<1> USE DEF ServerTypeOK, Places, States, Testing, Listeners, Connections
<1>1. CASE Call(w) BY <1>1 DEF Call
<1>2. CASE Advance(w)
  <2>1. CASE Listen(w) BY <2>1 DEF Listen
  <2>2. CASE ListenFails(w) BY <2>2 DEF ListenFails
  <2>3. CASE Arm(w) BY <2>3 DEF Arm
  <2>4. CASE LoopTest(w) BY <2>4 DEF LoopTest
  <2>5. CASE AcceptShut(w) BY <2>5 DEF AcceptShut
  <2>6. CASE AcceptClient(w) BY <2>6 DEF AcceptClient, HasConnection, PopBacklog
  <2>7. CASE AcceptFails(w) BY <2>7 DEF AcceptFails, HasConnection, PopBacklog
  <2>8. CASE AcceptDenied(w) BY <2>8 DEF AcceptDenied, HasConnection, PopBacklog
  <2>9. CASE SessionMessage(w) BY <2>9 DEF SessionMessage
  <2>10. CASE SessionStores(w) BY <2>10 DEF SessionStores
  <2>11. CASE SessionFails(w)
    <3>1. at' \in [Workers -> Places] BY <2>11 DEF SessionFails
    <3>2. state' \in [Workers -> States] BY <2>11 DEF SessionFails
    <3> QED BY <2>11, <3>1, <3>2 DEF SessionFails
  <2>12. CASE SelectTimeout(w) BY <2>12 DEF SelectTimeout
  <2>13. CASE CloseListener(w) BY <2>13 DEF CloseListener
  <2>14. CASE Reopen(w) BY <2>14 DEF Reopen
  <2>15. CASE ReopenFails(w)
    <3>1. at' \in [Workers -> Places] BY <2>15 DEF ReopenFails
    <3>2. state' \in [Workers -> States] BY <2>15 DEF ReopenFails
    <3> QED BY <2>15, <3>1, <3>2 DEF ReopenFails
  <2>16. CASE PassOverListener(w) BY <2>16 DEF PassOverListener
  <2> QED BY <1>2, <2>1, <2>2, <2>3, <2>4, <2>5, <2>6, <2>7, <2>8, <2>9, <2>10, <2>11, <2>12,
             <2>13, <2>14, <2>15, <2>16 DEF Advance
<1>3. CASE Return(w) BY <1>3 DEF Return
<1>4. CASE ClientConnects(w) BY <1>4 DEF ClientConnects
<1>5. CASE MarkDone(w) BY <1>5 DEF MarkDone
<1>6. CASE Shutdown(w)
  <2>1. PICK works \in ShutdownOutcomes :
            IF works /\ listener[w] = "open"
            THEN /\ listener' = [listener EXCEPT ![w] = "shut"]
                 /\ backlog' = [backlog EXCEPT ![w] = <<>>]
                 /\ UNCHANGED <<at, state, session>>
            ELSE UNCHANGED serverVars
    BY <1>6, Zenon DEF Shutdown
  <2>2. CASE works /\ listener[w] = "open"
    <3>1. /\ listener' = [listener EXCEPT ![w] = "shut"]
          /\ backlog' = [backlog EXCEPT ![w] = <<>>]
          /\ UNCHANGED <<at, state, session>>
      BY <2>1, <2>2, Zenon
    <3> QED BY <3>1
  <2>3. CASE ~(works /\ listener[w] = "open") BY <2>1, <2>3 DEF serverVars
  <2> QED BY <2>2, <2>3
<1>7. CASE Nudge(w) BY <1>7 DEF Nudge
<1>8. CASE FreeFields(w) BY <1>8 DEF FreeFields
<1>9. CASE Defaults(w) BY <1>9 DEF Defaults
<1>10. CASE ResetTest(w) BY <1>10 DEF ResetTest
<1> QED BY <1>1, <1>2, <1>3, <1>4, <1>5, <1>6, <1>7, <1>8, <1>9, <1>10 DEF ServerOperation

LEMMA ServerTypesUnchanged ==
    ASSUME ServerTypeOK, UNCHANGED serverVars
    PROVE  ServerTypeOK'
BY DEF ServerTypeOK, serverVars
=============================================================================
