------------------------------ MODULE AgentLoop ------------------------------
(***************************************************************************)
(* What a worker does with one task: executeEphemeral, dispatchTool and    *)
(* verifyToolOutput of core/event_loop.go, with the tool registry          *)
(* (core/tool.go) that other goroutines may extend meanwhile, the sandbox  *)
(* client (core/ipc_client.go) and the audit events.  "No state leaks      *)
(* outside this function": one task is enough.                             *)
(*                                                                         *)
(* A text is abstracted to the verdict of e.guard.Scan on it: "clean" or   *)
(* "flagged".  The LLM adapter and the tools are the environment.          *)
(***************************************************************************)
EXTENDS Naturals, Sequences, FiniteSets

CONSTANTS
  ToolNames,      \* names the LLM may call
  AlarmNames,     \* the names of these that contain "security_violation"
  MaxIterations,  \* maxAgentIterations
  MaxCalls        \* bound on the tool calls in one LLM response

ASSUME AlarmNamesAssumption == AlarmNames \subseteq ToolNames
ASSUME MaxIterationsAssumption == MaxIterations \in Nat \ {0}
ASSUME MaxCallsAssumption == MaxCalls \in Nat \ {0}

VARIABLES
  tools,      \* names in the engine's ToolRegistry
  sandbox,    \* whether WithSandbox attached a client
  input,      \* verdict on t.Input
  pc,         \* where executeEphemeral is
  iteration,  \* its loop counter
  messages,   \* the conversation
  manifests,  \* the tools named in the last LLM request
  calls,      \* res.ToolCalls of the current iteration
  results,    \* results collected for them so far
  outcome,    \* what executeEphemeral returned, "none" before
  audit,      \* the task's audit events, oldest first
  executed,   \* history: number of tool.Execute calls that returned
  forwarded   \* history: names of the tools sent to the sandbox

loopVars == <<pc, iteration, messages, manifests, calls, results, outcome>>
vars == <<tools, sandbox, input, loopVars, audit, executed, forwarded>>

Texts == {"clean", "flagged"}

(* A tool's answer as it is fed back: an output, an error message, or the  *)
(* error that the name could not be resolved.                              *)
Answers == [kind : {"output"}, text : Texts] \cup [kind : {"error", "unresolved"}, text : Texts]

CallSeqs == UNION {[1..n -> ToolNames] : n \in 1..MaxCalls}

Message(role, cs, rs, ms) == [role |-> role, calls |-> cs, results |-> rs, manifests |-> ms]

-----------------------------------------------------------------------------
Init ==
  /\ tools \in SUBSET ToolNames
  /\ sandbox \in BOOLEAN
  /\ input \in Texts
  /\ pc = "scan"
  /\ iteration = 0
  /\ messages = <<Message("system", <<>>, <<>>, {}), Message("user", <<>>, <<>>, {})>>
  /\ manifests = {}
  /\ calls = <<>>
  /\ results = <<>>
  /\ outcome = "none"
  /\ audit = <<>>
  /\ executed = 0
  /\ forwarded = {}

(* Operators whose name ends in _Bug are mistakes the properties below are *)
(* tested against; no specification uses them.                             *)

(* registration replaces the map *)
RegisterTool_ReplaceBug(n) ==
  /\ n \in ToolNames \ tools
  /\ tools' = {n}
  /\ UNCHANGED <<sandbox, input, loopVars, audit, executed, forwarded>>

(* ToolRegistry.Register of a new name, by any goroutine; a name that is   *)
(* taken is refused.  The engine's registry has no verifier.               *)
RegisterTool(n) ==
  /\ n \in ToolNames \ tools
  /\ tools' = tools \cup {n}
  /\ UNCHANGED <<sandbox, input, loopVars, audit, executed, forwarded>>

Return(o) == pc' = "done" /\ outcome' = o

(* The scan of the user input.                                             *)
ScanInput ==
  /\ pc = "scan"
  /\ IF input = "flagged"
     THEN Return("input_violation")
     ELSE pc' = "request" /\ UNCHANGED outcome
  /\ UNCHANGED <<tools, sandbox, input, iteration, messages, manifests, calls, results, audit, executed, forwarded>>

(* The head of the loop: log the request, call GenerateWithTools with the  *)
(* manifests registered by now.                                            *)
Request ==
  /\ pc = "request"
  /\ iteration < MaxIterations
  /\ audit' = Append(audit, "LLM_REQUEST")
  /\ manifests' = tools
  /\ pc' = "llm"
  /\ UNCHANGED <<tools, sandbox, input, iteration, messages, calls, results, outcome, executed, forwarded>>

MaxIterationsExceeded ==
  /\ pc = "request"
  /\ iteration = MaxIterations
  /\ Return("max_iterations")
  /\ UNCHANGED <<tools, sandbox, input, iteration, messages, manifests, calls, results, audit, executed, forwarded>>

(* GenerateWithTools fails, also because the five-minute context is over.  *)
LlmError ==
  /\ pc = "llm"
  /\ Return("llm_error")
  /\ UNCHANGED <<tools, sandbox, input, iteration, messages, manifests, calls, results, audit, executed, forwarded>>

LlmAnswer ==
  /\ pc = "llm"
  /\ Return("answer")
  /\ UNCHANGED <<tools, sandbox, input, iteration, messages, manifests, calls, results, audit, executed, forwarded>>

LlmToolCalls(cs) ==
  /\ pc = "llm"
  /\ calls' = cs
  /\ results' = <<>>
  /\ messages' = Append(messages, Message("assistant", cs, <<>>, manifests))
  /\ pc' = "dispatch"
  /\ UNCHANGED <<tools, sandbox, input, iteration, manifests, outcome, audit, executed, forwarded>>

-----------------------------------------------------------------------------
(* The call that dispatchTool is to serve.                                 *)
NextCall == calls[Len(results) + 1]

Answer(kind, text) ==
  /\ results' = Append(results, [kind |-> kind, text |-> text])
  /\ pc' = "dispatch"
  /\ UNCHANGED outcome

(* the audit event is forgotten *)
DispatchLocal_UnauditedBug ==
  /\ pc = "dispatch"
  /\ Len(results) < Len(calls)
  /\ NextCall \in tools
  /\ pc' = "execute"
  /\ UNCHANGED <<tools, sandbox, input, iteration, messages, manifests, calls, results, outcome, audit, executed, forwarded>>

(* A registered tool: log, then Execute.                                   *)
DispatchLocal ==
  /\ pc = "dispatch"
  /\ Len(results) < Len(calls)
  /\ NextCall \in tools
  /\ audit' = Append(audit, "TOOL_EXECUTE")
  /\ pc' = "execute"
  /\ UNCHANGED <<tools, sandbox, input, iteration, messages, manifests, calls, results, outcome, executed, forwarded>>

(* SandboxClient.ExecuteTool refuses a call without a signature before it  *)
(* sends anything.                                                         *)
SandboxRefuses(signature) == signature = ""

(* An unknown name with a sandbox: dispatchTool passes the signature "",   *)
(* logs the result and returns the client's error.  The client would       *)
(* otherwise forward the call.                                             *)
DispatchSandbox ==
  /\ pc = "dispatch"
  /\ Len(results) < Len(calls)
  /\ NextCall \notin tools
  /\ sandbox
  /\ forwarded' = IF SandboxRefuses("") THEN forwarded ELSE forwarded \cup {NextCall}
  /\ audit' = Append(audit, "TOOL_RESULT")
  /\ Answer("unresolved", "clean")
  /\ UNCHANGED <<tools, sandbox, input, iteration, messages, manifests, calls, executed>>

(* the lookup is repeated until the tool is there *)
DispatchNotFound_RetryBug ==
  /\ pc = "dispatch"
  /\ Len(results) < Len(calls)
  /\ NextCall \notin tools
  /\ ~sandbox
  /\ UNCHANGED vars

(* An unknown name without a sandbox: tool_not_found, with the name.       *)
DispatchNotFound ==
  /\ pc = "dispatch"
  /\ Len(results) < Len(calls)
  /\ NextCall \notin tools \cup AlarmNames
  /\ ~sandbox
  /\ Answer("unresolved", "clean")
  /\ UNCHANGED <<tools, sandbox, input, iteration, messages, manifests, calls, audit, executed, forwarded>>

(* The error quotes a name that itself reads like a violation, and ends    *)
(* the task.                                                               *)
DispatchAlarm ==
  /\ pc = "dispatch"
  /\ Len(results) < Len(calls)
  /\ NextCall \in AlarmNames \ tools
  /\ ~sandbox
  /\ Return("tool_violation_error")
  /\ UNCHANGED <<tools, sandbox, input, iteration, messages, manifests, calls, results, audit, executed, forwarded>>

(* verifyToolOutput is skipped *)
ToolOutput_UnscannedBug(text) ==
  /\ pc = "execute"
  /\ executed' = executed + 1
  /\ Answer("output", text)
  /\ UNCHANGED <<tools, sandbox, input, iteration, messages, manifests, calls, audit, forwarded>>

(* Execute succeeds: verifyToolOutput scans the output, and a rejected one *)
(* is logged and ends the task.                                            *)
ToolOutput(text) ==
  /\ pc = "execute"
  /\ executed' = executed + 1
  /\ IF text = "flagged"
     THEN /\ audit' = Append(audit, "SECURITY_VIOLATION")
          /\ Return("output_violation")
          /\ UNCHANGED results
     ELSE /\ Answer("output", text)
          /\ UNCHANGED audit
  /\ UNCHANGED <<tools, sandbox, input, iteration, messages, manifests, calls, forwarded>>

(* Execute fails: its error text is fed back, unless it names a            *)
(* security_violation.                                                     *)
ToolError(text) ==
  /\ pc = "execute"
  /\ executed' = executed + 1
  /\ Answer("error", text)
  /\ UNCHANGED <<tools, sandbox, input, iteration, messages, manifests, calls, audit, forwarded>>

ToolViolationError ==
  /\ pc = "execute"
  /\ executed' = executed + 1
  /\ Return("tool_violation_error")
  /\ UNCHANGED <<tools, sandbox, input, iteration, messages, manifests, calls, results, audit, forwarded>>

(* the conversation gets the answers before the last one is in *)
EndOfIteration_EarlyBug ==
  /\ pc = "dispatch"
  /\ Len(results) > 0
  /\ messages' = Append(messages, Message("tool", calls, results, {}))
  /\ iteration' = iteration + 1
  /\ pc' = "request"
  /\ UNCHANGED <<tools, sandbox, input, manifests, calls, results, outcome, audit, executed, forwarded>>

(* All calls are answered: the tool turn joins the conversation.           *)
EndOfIteration ==
  /\ pc = "dispatch"
  /\ Len(results) = Len(calls)
  /\ messages' = Append(messages, Message("tool", calls, results, {}))
  /\ iteration' = iteration + 1
  /\ pc' = "request"
  /\ UNCHANGED <<tools, sandbox, input, manifests, calls, results, outcome, audit, executed, forwarded>>

-----------------------------------------------------------------------------
LoopStep ==
  \/ ScanInput
  \/ Request
  \/ MaxIterationsExceeded
  \/ LlmError
  \/ LlmAnswer
  \/ \E cs \in CallSeqs : LlmToolCalls(cs)
  \/ DispatchLocal
  \/ DispatchSandbox
  \/ DispatchNotFound
  \/ DispatchAlarm
  \/ \E text \in Texts : ToolOutput(text)
  \/ \E text \in Texts : ToolError(text)
  \/ ToolViolationError
  \/ EndOfIteration

Next ==
  \/ LoopStep
  \/ \E n \in ToolNames : RegisterTool(n)

Spec == Init /\ [][Next]_vars

(* The worker runs on; GenerateWithTools and Execute return, at the latest *)
(* with the error of the context that expires after five minutes.          *)
FairSpec == Spec /\ WF_vars(LoopStep)

-----------------------------------------------------------------------------
(* Type invariant. *)
TypeOK ==
  /\ tools \subseteq ToolNames
  /\ sandbox \in BOOLEAN
  /\ input \in Texts
  /\ pc \in {"scan", "request", "llm", "dispatch", "execute", "done"}
  /\ iteration \in 0..MaxIterations
  /\ manifests \subseteq ToolNames
  /\ calls \in CallSeqs \cup {<<>>}
  /\ results \in Seq(Answers)
  /\ Len(results) <= Len(calls)
  /\ outcome \in {"none", "input_violation", "max_iterations", "llm_error", "answer",
                  "output_violation", "tool_violation_error"}
  /\ executed \in Nat
  /\ forwarded \subseteq ToolNames

Count(event) == Cardinality({i \in DOMAIN audit : audit[i] = event})

(* The conversation sent to the LLM is one it accepts: after the system    *)
(* and user turns, assistant turns with tool calls alternate with tool     *)
(* turns that answer exactly those calls, in their order.                  *)
ConversationWellFormed ==
  /\ TypeOK
  /\ \A i \in 3..Len(messages) :
       IF i % 2 = 1
       THEN messages[i].role = "assistant" /\ messages[i].calls # <<>>
       ELSE /\ messages[i].role = "tool"
            /\ messages[i].calls = messages[i - 1].calls
            /\ Len(messages[i].results) = Len(messages[i].calls)
  /\ pc \in {"request", "llm"} => Len(messages) = 2 + 2 * iteration

(* A tool output the guard rejects is never part of the conversation, and  *)
(* it ends the task with a violation in the audit trail.                   *)
RejectedOutputStops ==
  /\ \A i \in DOMAIN messages : \A k \in DOMAIN messages[i].results :
       messages[i].results[k].kind = "output" => messages[i].results[k].text = "clean"
  /\ Count("SECURITY_VIOLATION") > 0 <=> outcome = "output_violation"

(* A tool named in the manifests of a request is found when the response   *)
(* calls it, although registration goes on meanwhile: such a call is never *)
(* answered with tool_not_found or sent to the sandbox.                    *)
OfferedToolsResolve ==
  \A i \in DOMAIN messages : messages[i].role = "tool" =>
    \A k \in DOMAIN messages[i].results :
      messages[i].calls[k] \in messages[i - 1].manifests
        => messages[i].results[k].kind # "unresolved"

(* The audit trail accounts for the work: one event per LLM request, never *)
(* more requests than iterations, and one event for each tool execution,   *)
(* written before it starts.                                               *)
AuditComplete ==
  /\ Count("LLM_REQUEST") <= MaxIterations
  /\ Count("LLM_REQUEST") = iteration + (IF pc \in {"llm", "dispatch", "execute"}
                                            \/ outcome \notin {"none", "input_violation", "max_iterations"}
                                          THEN 1 ELSE 0)
  /\ Count("TOOL_EXECUTE") = executed + (IF pc = "execute" THEN 1 ELSE 0)

(* Every task ends, whatever the LLM answers.                              *)
Terminates == <>(pc = "done")

(* With a sandbox attached, "any tool call whose name is absent from the   *)
(* local registry is automatically forwarded" (core/event_loop.go:82-83).  *)
UnknownToolsForwarded ==
  sandbox => \A i \in DOMAIN messages : messages[i].role = "tool" =>
    \A k \in DOMAIN messages[i].results :
      messages[i].results[k].kind = "unresolved" => messages[i].calls[k] \in forwarded
=============================================================================
