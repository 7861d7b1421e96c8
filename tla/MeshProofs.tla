----------------------------- MODULE MeshProofs -----------------------------
(***************************************************************************)
(* ResultGenuine of MeshPropagation for any number of calls.               *)
(***************************************************************************)
EXTENDS MeshPropagation, TLAPS

(* v, a result on its way to call c, comes from the handler or from its    *)
(* absence.                                                                *)
Genuine(c, v) ==
  /\ v \in {"ok", "expired", "done", "empty"} => ran[c] = 1
  /\ v = "ok" => due[c]
  /\ v = "nohandler" => ran[c] = 0

(* What can be where before the handler of call c has run: handleConn has  *)
(* its connection to itself, and it decodes only what the call has sent.   *)
Fresh(c) ==
  /\ client[c] \in {"idle", "dial"} =>
        conn[c] = "none" /\ (server[c] = "none" \/ down) /\ reply[c] = "none" /\ ran[c] = 0
  /\ client[c] \in {"idle", "dial", "send"} =>
        conn[c] \notin Results \cup {"task"} /\ server[c] \in {"none", "decode", "closed"} /\ ran[c] = 0
  /\ conn[c] = "backlog" => server[c] = "none" /\ ~down
  /\ server[c] \in {"none", "decode", "deadline", "other"} => reply[c] = "none" /\ ran[c] = 0
  /\ ran[c] \in {0, 1}

(* A result is genuine in each of the three places it passes, and once it  *)
(* has left handleConn that goroutine is over.                             *)
Passing(c) ==
  /\ Genuine(c, reply[c]) /\ Genuine(c, conn[c]) /\ Genuine(c, client[c])
  /\ conn[c] \in Results => server[c] = "closed"
  /\ client[c] \in Results => server[c] = "closed" /\ conn[c] = "closed"

MeshInv == TypeOK /\ \A c \in Calls : Fresh(c) /\ Passing(c)

(* Nothing has happened at the start.                                      *)
LEMMA MeshInitially == Init => MeshInv
<1> SUFFICES ASSUME Init PROVE MeshInv
  OBVIOUS
<1>1. TypeOK
  BY DEF Init, TypeOK, Handlers
<1>2. ASSUME NEW c \in Calls PROVE Fresh(c) /\ Passing(c)
  BY DEF Init, Fresh, Passing, Genuine, Results, Handlers
<1> QED
  BY <1>1, <1>2 DEF MeshInv

(* Every step keeps the types.                                             *)
LEMMA MeshTypes == TypeOK /\ [Next]_vars => TypeOK'
<1> SUFFICES ASSUME TypeOK, [Next]_vars PROVE TypeOK'
  OBVIOUS
<1> USE DEF TypeOK, Results, Returns, Handlers, lnVars, callVars, serverVars
<1>1. CASE SetHandler
  BY <1>1 DEF SetHandler
<1>2. CASE Listen
  BY <1>2 DEF Listen
<1>3. CASE CloseListener
  BY <1>3 DEF CloseListener
<1>4. CASE AcceptFails
  BY <1>4 DEF AcceptFails
<1>5. CASE AcceptCheck
  BY <1>5 DEF AcceptCheck
<1>6. CASE Stop
  BY <1>6 DEF Stop, Reset
<1>7. CASE Cancel
  BY <1>7 DEF Cancel
<1>8. ASSUME NEW c \in Calls, Accept(c) PROVE TypeOK'
  BY <1>8 DEF Accept
<1>9. ASSUME NEW c \in Calls, ServerDecode(c) PROVE TypeOK'
  BY <1>9 DEF ServerDecode
<1>10. ASSUME NEW c \in Calls, ServerDecodeFails(c) PROVE TypeOK'
  BY <1>10 DEF ServerDecodeFails, Reset
<1>11. ASSUME NEW c \in Calls, Handler(c) PROVE TypeOK'
  <2>1. PICK v \in Answers(c) : reply' = [reply EXCEPT ![c] = v]
    BY <1>11 DEF Handler
  <2>2. v \in Results
    BY DEF Answers
  <2> QED
    BY <1>11, <2>1, <2>2 DEF Handler
<1>12. ASSUME NEW c \in Calls, ServerEncode(c) PROVE TypeOK'
  BY <1>12 DEF ServerEncode, Reset
<1>13. ASSUME NEW c \in Calls, Propagate(c) PROVE TypeOK'
  BY <1>13 DEF Propagate
<1>14. ASSUME NEW c \in Calls, Dial(c) PROVE TypeOK'
  BY <1>14 DEF Dial
<1>15. ASSUME NEW c \in Calls, DialFails(c) PROVE TypeOK'
  BY <1>15 DEF DialFails, Return
<1>16. ASSUME NEW c \in Calls, Send(c) PROVE TypeOK'
  BY <1>16 DEF Send
<1>17. ASSUME NEW c \in Calls, ReadResult(c) PROVE TypeOK'
  BY <1>17 DEF ReadResult, Return
<1>18. ASSUME NEW c \in Calls, CallFails(c) PROVE TypeOK'
  BY <1>18 DEF CallFails, Return
<1>19. ASSUME NEW c \in Calls, Silence(c) PROVE TypeOK'
  BY <1>19 DEF Silence
<1>20. CASE UNCHANGED vars
  BY <1>20 DEF vars
<1> QED
  BY <1>1, <1>2, <1>3, <1>4, <1>5, <1>6, <1>7, <1>8, <1>9, <1>10, <1>11, <1>12, <1>13, <1>14, <1>15, <1>16, <1>17, <1>18, <1>19, <1>20 DEF Next, HandlerStep, ClientStep

(* Every step keeps what is known of each call d.                          *)
LEMMA MeshCalls ==
  ASSUME MeshInv, [Next]_vars, NEW d \in Calls
  PROVE  Fresh(d)' /\ Passing(d)'
<1> DEFINE Goal == Fresh(d)' /\ Passing(d)'
<1> USE DEF MeshInv, TypeOK, Fresh, Passing, Genuine, Results, Returns, Handlers, lnVars, callVars, serverVars
<1>1. CASE SetHandler
  BY <1>1 DEF SetHandler
<1>2. CASE Listen
  BY <1>2 DEF Listen
<1>3. CASE CloseListener
  BY <1>3 DEF CloseListener
<1>4. CASE AcceptFails
  BY <1>4 DEF AcceptFails
<1>5. CASE AcceptCheck
  BY <1>5 DEF AcceptCheck
<1>6. CASE Stop
  BY <1>6 DEF Stop, Reset
<1>7. CASE Cancel
  BY <1>7 DEF Cancel
<1>8. ASSUME NEW c \in Calls, Accept(c) PROVE Goal
  BY <1>8 DEF Accept
<1>9. ASSUME NEW c \in Calls, ServerDecode(c) PROVE Goal
  BY <1>9 DEF ServerDecode
<1>10. ASSUME NEW c \in Calls, ServerDecodeFails(c) PROVE Goal
  BY <1>10 DEF ServerDecodeFails, Reset
<1>11. ASSUME NEW c \in Calls, Handler(c) PROVE Goal
  <2>1. PICK v \in Answers(c) : reply' = [reply EXCEPT ![c] = v]
    BY <1>11 DEF Handler
  <2>2. /\ ~down /\ server[c] \in Handlers /\ UNCHANGED <<lnVars, callVars, conn>>
        /\ server' = [server EXCEPT ![c] = "encode"] /\ ran' = [ran EXCEPT ![c] = ran[c] + 1]
    BY <1>11 DEF Handler
  <2>3. v \in {"ok", "expired", "done", "empty"} /\ (v = "ok" => due[c])
    BY <2>1 DEF Answers, TaskDeadlineRemaining
  <2>4. CASE d # c
    BY <2>1, <2>2, <2>4
  <2>5. CASE d = c
    <3>1. reply'[c] = v /\ server'[c] = "encode" /\ ran'[c] = 1
      BY <2>1, <2>2
    <3>2. /\ client[c] \notin Results \cup {"idle", "dial", "send"}
          /\ conn[c] \notin Results \cup {"backlog"}
      BY <2>2
    <3> QED
      BY <2>2, <2>3, <2>5, <3>1, <3>2
  <2> QED
    BY <2>4, <2>5
<1>12. ASSUME NEW c \in Calls, ServerEncode(c) PROVE Goal
  BY <1>12 DEF ServerEncode, Reset
<1>13. ASSUME NEW c \in Calls, Propagate(c) PROVE Goal
  BY <1>13 DEF Propagate
<1>14. ASSUME NEW c \in Calls, Dial(c) PROVE Goal
  BY <1>14 DEF Dial
<1>15. ASSUME NEW c \in Calls, DialFails(c) PROVE Goal
  BY <1>15 DEF DialFails, Return
<1>16. ASSUME NEW c \in Calls, Send(c) PROVE Goal
  BY <1>16 DEF Send
<1>17. ASSUME NEW c \in Calls, ReadResult(c) PROVE Goal
  BY <1>17 DEF ReadResult, Return
<1>18. ASSUME NEW c \in Calls, CallFails(c) PROVE Goal
  BY <1>18 DEF CallFails, Return
<1>19. ASSUME NEW c \in Calls, Silence(c) PROVE Goal
  BY <1>19 DEF Silence
<1>20. CASE UNCHANGED vars
  BY <1>20 DEF vars
<1> QED
  BY <1>1, <1>2, <1>3, <1>4, <1>5, <1>6, <1>7, <1>8, <1>9, <1>10, <1>11, <1>12, <1>13, <1>14, <1>15, <1>16, <1>17, <1>18, <1>19, <1>20 DEF Next, HandlerStep, ClientStep

(* A result that PropagateTask returns comes from the one execution of its *)
(* task on this call's connection, by the handler read there, or from the  *)
(* absence of a handler, whatever is registered, lost or stopped meanwhile.*)
THEOREM ResultsAreGenuine == Spec => []ResultGenuine
<1>1. MeshInv /\ [Next]_vars => MeshInv'
  BY MeshTypes, MeshCalls DEF MeshInv
<1>2. MeshInv => ResultGenuine
  BY DEF MeshInv, Fresh, Passing, Genuine, ResultGenuine
<1> QED
  BY MeshInitially, <1>1, <1>2, PTL DEF Spec
=============================================================================
