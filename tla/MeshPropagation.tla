-------------------------- MODULE MeshPropagation --------------------------
(***************************************************************************)
(* Passing tasks between nodes: MeshPropagator (core/mesh_propagation.go)  *)
(* with the task deadlines of core/mesh_timeout.go.                        *)
(*                                                                         *)
(* One node listens; each call is one PropagateTask of a client, over its  *)
(* own connection.  PropagateTask never retries: its caller may, after an  *)
(* error, and the later call is then a call of the same task.  A handler   *)
(* is whatever the node's owner registers: one that looks at the task's    *)
(* deadline and answers "deadline expired" or, if it is still ahead, "ok", *)
(* as in core/mesh_integration_test.go; or another one, as in              *)
(* core/mesh_propagation_test.go, whose result is "done" here, or nil,     *)
(* which reaches the caller as an empty result.  The three deadlines       *)
(* (the caller's context, the task, the server's 30 seconds) know nothing  *)
(* of each other and pass in any order: where one is set, it may have      *)
(* passed at every read or write.                                          *)
(***************************************************************************)
EXTENDS Naturals

CONSTANT Calls           \* calls of PropagateTask for one task, in order

ASSUME CallsAssumption == Calls \subseteq Nat

VARIABLES
  listen,      \* where Listen is
  lnOpen,      \* the listener is open
  quit,        \* p.quit is closed
  ctxDone,     \* Listen's context is cancelled
  down,        \* the listening process has died
  handler,     \* p.handler is set, to one of Handlers
  client,      \* where each call is, or what it returned
  limit,       \* each call's context has a deadline
  due,         \* each call's task has one (DeadlineUnixNs)
  conn,        \* the connection of each call
  server,      \* where handleConn is for each connection, or which handler it runs
  reply,       \* the PropagatedResult that handleConn will encode
  ran          \* history: how often a handler ran to its end for the call

lnVars == <<listen, lnOpen, quit, ctxDone, down, handler>>
callVars == <<client, limit, due>>
serverVars == <<server, reply, ran>>
vars == <<lnVars, callVars, conn, serverVars>>

Handlers == {"deadline", "other"}
Results == {"ok", "expired", "done", "empty", "nohandler"}
Returns == Results \cup {"error"}

TypeOK ==
  /\ listen \in {"idle", "accept", "check", "returned", "failed"}
  /\ lnOpen \in BOOLEAN /\ quit \in BOOLEAN /\ ctxDone \in BOOLEAN
  /\ down \in BOOLEAN /\ handler \in BOOLEAN
  /\ client \in [Calls -> {"idle", "dial", "send", "wait"} \cup Returns]
  /\ limit \in [Calls -> BOOLEAN] /\ due \in [Calls -> BOOLEAN]
  /\ ran \in [Calls -> Nat]
  /\ conn \in [Calls -> {"none", "backlog", "open", "task", "closed", "silent"} \cup Results]
  /\ server \in [Calls -> {"none", "decode", "encode", "closed"} \cup Handlers]
  /\ reply \in [Calls -> Results \cup {"none"}]

Init ==
  /\ listen = "idle" /\ lnOpen = FALSE /\ quit = FALSE /\ ctxDone = FALSE
  /\ down = FALSE /\ handler = FALSE
  /\ client = [c \in Calls |-> "idle"] /\ conn = [c \in Calls |-> "none"]
  /\ limit = [c \in Calls |-> FALSE] /\ due = [c \in Calls |-> FALSE]
  /\ server = [c \in Calls |-> "none"]
  /\ reply = [c \in Calls |-> "none"]
  /\ ran = [c \in Calls |-> 0]

----------------------------------------------------------------------------
(* The listening side.                                                     *)

(* The comment asks for SetHandler before Listen; the integration test     *)
(* calls it after.  A later call replaces the handler: each connection may *)
(* find another one.                                                       *)
SetHandler ==
  /\ ~handler /\ ~down /\ handler' = TRUE
  /\ UNCHANGED <<listen, lnOpen, quit, ctxDone, down, callVars, conn, serverVars>>

Listen ==
  /\ listen = "idle" /\ ~down
  /\ \E bound \in BOOLEAN : listen' = (IF bound THEN "accept" ELSE "failed") /\ lnOpen' = bound
  /\ UNCHANGED <<quit, ctxDone, down, handler, callVars, conn, serverVars>>

(* The goroutine of Listen that waits for ctx.Done or quit.  A closed      *)
(* listener refuses what waits in its backlog.                             *)
CloseListener ==
  /\ ~down /\ lnOpen /\ (quit \/ ctxDone)
  /\ lnOpen' = FALSE
  /\ conn' = [c \in Calls |-> IF conn[c] = "backlog" THEN "closed" ELSE conn[c]]
  /\ UNCHANGED <<listen, quit, ctxDone, down, handler, callVars, serverVars>>

Accept(c) ==
  /\ ~down /\ listen = "accept" /\ lnOpen /\ conn[c] = "backlog"
  /\ conn' = [conn EXCEPT ![c] = "open"]
  /\ server' = [server EXCEPT ![c] = "decode"]
  /\ UNCHANGED <<lnVars, callVars, reply, ran>>

(* Accept fails because the listener is closed, or for a passing reason.   *)
AcceptFails ==
  /\ ~down /\ listen = "accept" /\ listen' = "check"
  /\ UNCHANGED <<lnOpen, quit, ctxDone, down, handler, callVars, conn, serverVars>>

(* A select without the case of quit: Stop closes the listener, and the    *)
(* loop spins on its error.                                                *)
AcceptCheck_ContextOnlyBug ==
  /\ ~down /\ listen = "check"
  /\ listen' = (IF ctxDone THEN "returned" ELSE "accept")
  /\ UNCHANGED <<lnOpen, quit, ctxDone, down, handler, callVars, conn, serverVars>>

AcceptCheck ==
  /\ ~down /\ listen = "check"
  /\ listen' = (IF quit \/ ctxDone THEN "returned" ELSE "accept")
  /\ UNCHANGED <<lnOpen, quit, ctxDone, down, handler, callVars, conn, serverVars>>

(* The peer notices that its process died, unless its host vanished too.   *)
Reset(k) == IF k \in {"none", "silent"} THEN k ELSE "closed"

(* Closing quit a second time panics and takes the process down.           *)
Stop ==
  /\ ~down
  /\ quit' = TRUE /\ down' = quit
  /\ conn' = IF quit THEN [c \in Calls |-> Reset(conn[c])] ELSE conn
  /\ server' = IF quit THEN [c \in Calls |-> "closed"] ELSE server
  /\ UNCHANGED <<listen, lnOpen, ctxDone, handler, callVars, reply, ran>>

Cancel ==
  /\ ~ctxDone /\ ~down /\ ctxDone' = TRUE
  /\ UNCHANGED <<listen, lnOpen, quit, down, handler, callVars, conn, serverVars>>

----------------------------------------------------------------------------
(* handleConn and the handler it calls.                                    *)

(* A result prepared before the handler has returned.                      *)
ServerDecode_EarlyReplyBug(c) ==
  /\ ~down /\ server[c] = "decode" /\ conn[c] = "task"
  /\ server' = [server EXCEPT ![c] = "encode"]
  /\ reply' = [reply EXCEPT ![c] = IF handler THEN "ok" ELSE "nohandler"]
  /\ UNCHANGED <<lnVars, callVars, conn, ran>>

(* Decode returns the task if it comes in time; the registered handler is  *)
(* then read once, under the lock.                                         *)
ServerDecode(c) ==
  /\ ~down /\ server[c] = "decode" /\ conn[c] = "task"
  /\ IF handler
     THEN \E h \in Handlers : server' = [server EXCEPT ![c] = h] /\ UNCHANGED reply
     ELSE /\ server' = [server EXCEPT ![c] = "encode"]
          /\ reply' = [reply EXCEPT ![c] = "nohandler"]
  /\ UNCHANGED <<lnVars, callVars, conn, ran>>

(* It fails on the 30 second deadline, on a lost client and on a failed    *)
(* handshake: newTLSListener demands a certificate of this node's CA, and  *)
(* the client a name out of {nodeID, localhost, 127.0.0.1}.                *)
ServerDecodeFails(c) ==
  /\ ~down /\ server[c] = "decode"
  /\ server' = [server EXCEPT ![c] = "closed"]
  /\ conn' = [conn EXCEPT ![c] = Reset(@)]
  /\ UNCHANGED <<lnVars, callVars, reply, ran>>

(* TaskDeadlineRemaining: no deadline, or one that has passed, is          *)
(* (0, false).                                                             *)
TaskDeadlineRemaining(c) == IF due[c] THEN BOOLEAN ELSE {FALSE}

(* What the handler that was read answers.  A nil result is replaced by    *)
(* one with nothing but the task's ID.                                     *)
Answers(c) ==
  IF server[c] = "deadline"
  THEN {IF live THEN "ok" ELSE "expired" : live \in TaskDeadlineRemaining(c)}
  ELSE {"done", "empty"}

Handler(c) ==
  /\ ~down /\ server[c] \in Handlers
  /\ \E v \in Answers(c) : reply' = [reply EXCEPT ![c] = v]
  /\ server' = [server EXCEPT ![c] = "encode"]
  /\ ran' = [ran EXCEPT ![c] = @ + 1]
  /\ UNCHANGED <<lnVars, callVars, conn>>

(* Encode, then the deferred Close.  A result that comes after the         *)
(* connection's deadline, or whose client has gone, is lost.               *)
ServerEncode(c) ==
  /\ ~down /\ server[c] = "encode"
  /\ server' = [server EXCEPT ![c] = "closed"]
  /\ \E inTime \in BOOLEAN :
        conn' = [conn EXCEPT ![c] = IF @ = "task" /\ inTime THEN reply[c] ELSE Reset(@)]
  /\ reply' = [reply EXCEPT ![c] = "none"]
  /\ UNCHANGED <<lnVars, callVars, ran>>

----------------------------------------------------------------------------
(* The calling side.                                                       *)

Returned(c) == client[c] \in Returns

(* SetTaskDeadline stamps the task, and the context may have a deadline.   *)
Propagate(c) ==
  /\ client[c] = "idle" /\ \A d \in Calls : d < c => client[d] = "error"
  /\ client' = [client EXCEPT ![c] = "dial"]
  /\ \E l, d \in BOOLEAN : limit' = [limit EXCEPT ![c] = l] /\ due' = [due EXCEPT ![c] = d]
  /\ UNCHANGED <<lnVars, conn, serverVars>>

Dial(c) ==
  /\ client[c] = "dial" /\ lnOpen /\ ~down
  /\ conn' = [conn EXCEPT ![c] = "backlog"] /\ client' = [client EXCEPT ![c] = "send"]
  /\ UNCHANGED <<lnVars, limit, due, serverVars>>

(* The call returns, its context is done with and its connection closed.   *)
Return(c, value) ==
  /\ client' = [client EXCEPT ![c] = value]
  /\ limit' = [limit EXCEPT ![c] = FALSE]
  /\ conn' = [conn EXCEPT ![c] = IF @ = "none" THEN @ ELSE "closed"]
  /\ UNCHANGED <<lnVars, due, serverVars>>

DialFails(c) == client[c] = "dial" /\ (~lnOpen \/ down \/ limit[c]) /\ Return(c, "error")

(* The first write runs the handshake; then the task is on its way.        *)
Send(c) ==
  /\ client[c] = "send" /\ conn[c] = "open"
  /\ conn' = [conn EXCEPT ![c] = "task"] /\ client' = [client EXCEPT ![c] = "wait"]
  /\ UNCHANGED <<lnVars, limit, due, serverVars>>

ReadResult(c) == client[c] = "wait" /\ conn[c] \in Results /\ Return(c, conn[c])

(* The code without SetDeadline on the client's connection.                *)
CallFails_NoDeadlineBug(c) ==
  client[c] \in {"send", "wait"} /\ conn[c] = "closed" /\ Return(c, "error")

(* Encode or Decode fails: the connection is gone or its deadline over.    *)
CallFails(c) ==
  client[c] \in {"send", "wait"} /\ (conn[c] = "closed" \/ limit[c]) /\ Return(c, "error")

----------------------------------------------------------------------------
(* The network.                                                            *)

(* The peer's host vanishes: no answer and no reset.                       *)
Silence(c) ==
  /\ conn[c] \notin {"none", "closed", "silent"}
  /\ conn' = [conn EXCEPT ![c] = "silent"]
  /\ UNCHANGED <<lnVars, callVars, serverVars>>

----------------------------------------------------------------------------
HandlerStep(c) ==
  ServerDecode(c) \/ ServerDecodeFails(c) \/ Handler(c) \/ ServerEncode(c)

ClientStep(c) == Dial(c) \/ DialFails(c) \/ Send(c) \/ ReadResult(c) \/ CallFails(c)

Next ==
  \/ SetHandler \/ Listen \/ CloseListener \/ AcceptFails \/ AcceptCheck \/ Stop \/ Cancel
  \/ \E c \in Calls :
        \/ Accept(c) \/ HandlerStep(c) \/ Propagate(c) \/ ClientStep(c) \/ Silence(c)

Spec == Init /\ [][Next]_vars

(* Goroutines that can run do run, deadlines pass, handlers return, and an *)
(* Accept that is retried takes a waiting connection in the end.           *)
FairSpec ==
  /\ Spec /\ WF_vars(CloseListener) /\ WF_vars(AcceptFails /\ ~lnOpen) /\ WF_vars(AcceptCheck)
  /\ \A c \in Calls : SF_vars(Accept(c)) /\ WF_vars(HandlerStep(c)) /\ WF_vars(ClientStep(c))

----------------------------------------------------------------------------
(* A result belongs to the call that returns it, whatever handlers are     *)
(* registered and replaced meanwhile (PropagateTask, handleConn).  One     *)
(* that a handler gave, nil included, comes from an execution on this      *)
(* call's connection, and "ok" of a handler that looks at deadlines speaks *)
(* of a task with a deadline.  A call that is told there is no handler     *)
(* executed nothing; a call executes its task at most once, and not before *)
(* it has sent it.  Across calls nothing limits executions: an error may   *)
(* hide one, and a retry repeats it.                                       *)
ResultGenuine ==
  /\ TypeOK
  /\ \A c \in Calls :
        /\ client[c] \in {"ok", "expired", "done", "empty"} => ran[c] = 1
        /\ client[c] = "ok" => due[c]
        /\ client[c] = "nohandler" => ran[c] = 0
        /\ ran[c] <= 1
        /\ ran[c] = 1 => client[c] \notin {"idle", "dial", "send"}

(* Every call returns, whatever the listening node does, if its context    *)
(* has a deadline; without one only a silent peer can hold it.             *)
CallReturns ==
  \A c \in Calls : client[c] = "dial" ~> (Returned(c) \/ (~limit[c] /\ conn[c] = "silent"))

(* After Stop, or the end of its context, Listen returns, and no           *)
(* handleConn goroutine is left behind, whatever its client does.          *)
ListenerDrains ==
  /\ (listen = "accept" /\ (quit \/ ctxDone)) ~> (listen = "returned" \/ down)
  /\ \A c \in Calls : server[c] = "decode" ~> (server[c] = "closed" \/ down)
============================================================================
