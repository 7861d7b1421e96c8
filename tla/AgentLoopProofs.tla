--------------------------- MODULE AgentLoopProofs ---------------------------
(***************************************************************************)
(* The agent loop keeps its conversation well formed, lets no rejected     *)
(* output into it, resolves every tool it offered and audits all its work, *)
(* for any set of tools and any bounds.                                    *)
(***************************************************************************)
EXTENDS AgentLoop, FiniteSetTheorems, TLAPS

Messages ==
  [role : {"system", "user", "assistant", "tool"}, calls : CallSeqs \cup {<<>>},
   results : Seq(Answers), manifests : SUBSET ToolNames]

Events == {"LLM_REQUEST", "TOOL_EXECUTE", "TOOL_RESULT", "SECURITY_VIOLATION"}

(* The results rs answer the calls cs of a response to a request that      *)
(* offered the tools ms: none was rejected, and the offered ones resolve.  *)
Answered(cs, rs, ms) ==
  \A k \in DOMAIN rs :
    /\ rs[k].kind = "output" => rs[k].text = "clean"
    /\ cs[k] \in ms => rs[k].kind # "unresolved"

(* An answer that dispatchTool may give to the next call.                  *)
Admissible(a) ==
  /\ a.kind = "output" => a.text = "clean"
  /\ a.kind = "unresolved" => NextCall \notin tools

AssistantTurn(m) == m.role = "assistant" /\ m.calls # <<>> /\ m.results = <<>>

ToolTurn(m, before) ==
  /\ m.role = "tool"
  /\ m.calls = before.calls
  /\ Len(m.results) = Len(m.calls)
  /\ Answered(m.calls, m.results, before.manifests)

(* The turns of the conversation so far.                                   *)
Turns ==
  /\ \A i \in 1..2 : messages[i].role # "tool" /\ messages[i].results = <<>>
  /\ \A i \in 3..Len(messages) :
       IF i % 2 = 1 THEN AssistantTurn(messages[i]) ELSE ToolTurn(messages[i], messages[i - 1])

(* The task ended between the assistant's turn and the tools' turn.        *)
Interrupted == outcome \in {"output_violation", "tool_violation_error"}

Length ==
  Len(messages) = 2 + 2 * iteration + (IF pc \in {"dispatch", "execute"} \/ Interrupted THEN 1 ELSE 0)

(* A response is out: the iteration is under way, or the task ended in it. *)
InIteration ==
  pc \in {"llm", "dispatch", "execute"} \/ outcome \notin {"none", "input_violation", "max_iterations"}

(* The calls being served are those of the last turn, and what was offered *)
(* is still registered.                                                    *)
Serving ==
  /\ manifests \subseteq tools
  /\ pc \in {"dispatch", "execute"} =>
       /\ calls # <<>>
       /\ messages[Len(messages)].calls = calls
       /\ messages[Len(messages)].manifests = manifests
       /\ Answered(calls, results, manifests)
  /\ pc = "execute" => Len(results) < Len(calls)

LoopInv ==
  /\ TypeOK
  /\ messages \in Seq(Messages)
  /\ outcome = "none" <=> pc # "done"
  /\ InIteration => iteration < MaxIterations
  /\ Length
  /\ Turns
  /\ Serving

AuditInv ==
  /\ audit \in Seq(Events)
  /\ AuditComplete
  /\ Count("SECURITY_VIOLATION") = IF outcome = "output_violation" THEN 1 ELSE 0

-----------------------------------------------------------------------------
USE DEF loopVars

(* What is counted as an event is appended.                                *)
LEMMA CountAppend ==
  ASSUME audit \in Seq(Events), NEW e \in Events, NEW x \in Events, audit' = Append(audit, x)
  PROVE  /\ Count(e) \in Nat
         /\ Count(e)' = Count(e) + (IF x = e THEN 1 ELSE 0)
<1> DEFINE at == {i \in DOMAIN audit : audit[i] = e}
<1>1. Len(audit) \in Nat /\ DOMAIN audit = 1..Len(audit)
  OBVIOUS
<1>2. IsFiniteSet(1..Len(audit))
  BY <1>1, FS_Interval
<1>3. IsFiniteSet(at)
  BY <1>1, <1>2, FS_Subset
<1>4. Len(audit) + 1 \notin at
  BY <1>1
<1>5. {i \in DOMAIN audit' : audit'[i] = e} = IF x = e THEN at \cup {Len(audit) + 1} ELSE at
  BY <1>1
<1>6. Cardinality(at) \in Nat
  BY <1>3, FS_CardinalityType
<1>7. Cardinality(at \cup {Len(audit) + 1}) = Cardinality(at) + 1
  BY <1>3, <1>4, FS_AddElement
<1>8. Count(e) = Cardinality(at)
  BY DEF Count
<1>9. CASE x = e
  <2>1. Count(e)' = Cardinality(at \cup {Len(audit) + 1})
    BY <1>5, <1>9 DEF Count
  <2> QED
    BY <1>6, <1>7, <1>8, <1>9, <2>1
<1>10. CASE x # e
  <2>1. Count(e)' = Cardinality(at)
    BY <1>5, <1>10 DEF Count
  <2> QED
    BY <1>6, <1>8, <1>10, <2>1
<1> QED
  BY <1>9, <1>10

(* Appending a turn keeps the earlier ones.                                *)
LEMMA TurnAppend ==
  ASSUME LoopInv, NEW m \in Messages, messages' = Append(messages, m),
         IF Len(messages') % 2 = 1 THEN AssistantTurn(m) ELSE ToolTurn(m, messages[Len(messages)])
  PROVE  Turns' /\ messages' \in Seq(Messages) /\ Len(messages') = Len(messages) + 1
         /\ messages'[Len(messages')] = m
<1>1. /\ Len(messages) \in Nat /\ Len(messages) >= 2
      /\ Len(messages') = Len(messages) + 1 /\ messages'[Len(messages) + 1] = m
      /\ \A i \in 1..Len(messages) : messages'[i] = messages[i]
      /\ messages' \in Seq(Messages)
  BY MaxIterationsAssumption DEF LoopInv, Length, TypeOK
<1>2. \A i \in 1..2 : messages'[i].role # "tool" /\ messages'[i].results = <<>>
  BY <1>1 DEF LoopInv, Turns
<1>3. ASSUME NEW i \in 3..Len(messages')
      PROVE  IF i % 2 = 1 THEN AssistantTurn(messages'[i]) ELSE ToolTurn(messages'[i], messages'[i - 1])
  <2>1. CASE i = Len(messages')
    BY <1>1, <2>1
  <2>2. CASE i # Len(messages')
    <3>1. i \in 3..Len(messages) /\ i - 1 \in 1..Len(messages) /\ i \in 1..Len(messages)
      BY <1>1, <2>2
    <3> QED
      BY <1>1, <3>1 DEF LoopInv, Turns
  <2> QED
    BY <2>1, <2>2
<1> QED
  BY <1>1, <1>2, <1>3 DEF Turns

(* The same turns without a new one.                                       *)
LEMMA TurnsKept ==
  ASSUME LoopInv, UNCHANGED messages
  PROVE  Turns' /\ messages' \in Seq(Messages)
BY DEF LoopInv, Turns

(* The loop invariant holds when executeEphemeral is entered.              *)
LEMMA InitLoop == Init => LoopInv
<1> SUFFICES ASSUME Init PROVE LoopInv
  OBVIOUS
<1>1. TypeOK
  BY MaxIterationsAssumption DEF Init, TypeOK, CallSeqs
<1>2. /\ messages \in Seq(Messages) /\ Len(messages) = 2
      /\ messages[1] = Message("system", <<>>, <<>>, {}) /\ messages[2] = Message("user", <<>>, <<>>, {})
  BY DEF Init, Message, Messages
<1>3. Turns
  BY <1>2 DEF Turns, Message
<1>4. Length
  BY <1>2 DEF Init, Length, Interrupted
<1> QED
  BY <1>1, <1>2, <1>3, <1>4 DEF Init, LoopInv, InIteration, Serving

(* One more answer, to the next call.                                      *)
LEMMA AnswerAppend ==
  ASSUME LoopInv, Answered(calls, results, manifests), NEW a \in Answers, results' = Append(results, a),
         Admissible(a), Len(results) < Len(calls)
  PROVE  /\ Answered(calls, results', manifests)
         /\ results' \in Seq(Answers) /\ Len(results') <= Len(calls)
<1>1. results \in Seq(Answers) /\ calls \in CallSeqs \cup {<<>>}
  BY DEF LoopInv, TypeOK
<1>2. Len(calls) \in Nat
  BY <1>1 DEF CallSeqs
<1>3. /\ Len(results) \in Nat /\ DOMAIN results' = 1..(Len(results) + 1) /\ Len(results') = Len(results) + 1
      /\ results'[Len(results) + 1] = a /\ DOMAIN results = 1..Len(results)
      /\ \A k \in 1..Len(results) : results'[k] = results[k]
      /\ results' \in Seq(Answers)
  BY <1>1
<1>4. ASSUME NEW k \in DOMAIN results'
      PROVE  /\ results'[k].kind = "output" => results'[k].text = "clean"
             /\ calls[k] \in manifests => results'[k].kind # "unresolved"
  <2>1. CASE k = Len(results) + 1
    BY <1>3, <2>1 DEF NextCall, Admissible, LoopInv, Serving
  <2>2. CASE k \in 1..Len(results)
    BY <1>3, <2>2 DEF Answered
  <2> QED
    BY <1>3, <2>1, <2>2
<1> QED
  BY <1>2, <1>3, <1>4 DEF Answered

(* The turns alternate, so the parity of the conversation tells whose turn *)
(* is next.                                                                *)
LEMMA Parity ==
  ASSUME NEW n \in Nat
  PROVE  (2 + 2 * n + 1) % 2 = 1 /\ (2 + 2 * n + 1 + 1) % 2 = 0
OBVIOUS

(* Registration goes on beside the loop.                                   *)
LEMMA RegisterLoop == ASSUME LoopInv, NEW n \in ToolNames, RegisterTool(n) PROVE LoopInv'
<1>1. UNCHANGED <<sandbox, input, loopVars, audit, executed, forwarded>> /\ tools \subseteq tools' /\ tools' \subseteq ToolNames
  BY DEF RegisterTool, LoopInv, TypeOK
<1>2. TypeOK'
  BY <1>1 DEF LoopInv, TypeOK
<1>3. Serving'
  BY <1>1 DEF LoopInv, Serving, Answered
<1>4. Length' /\ (InIteration => iteration < MaxIterations)'
  BY <1>1 DEF LoopInv, Length, Interrupted, InIteration
<1> QED
  BY <1>1, <1>2, <1>3, <1>4, TurnsKept DEF LoopInv

(* Steps that leave the conversation, the calls and their results alone.   *)
LEMMA ControlLoop ==
  ASSUME LoopInv,
         \/ ScanInput \/ MaxIterationsExceeded \/ LlmError \/ LlmAnswer \/ DispatchLocal
         \/ ToolViolationError \/ DispatchAlarm \/ ToolOutput("flagged") \/ UNCHANGED vars
  PROVE  LoopInv'
<1> USE DEF ScanInput, MaxIterationsExceeded, LlmError, LlmAnswer, DispatchLocal, ToolViolationError,
            DispatchAlarm, ToolOutput, Return, vars
<1>1. UNCHANGED <<tools, sandbox, input, iteration, messages, manifests, calls, results, forwarded>>
  OBVIOUS
<1>2. executed' \in Nat
  BY DEF LoopInv, TypeOK
<1>3. TypeOK'
  BY <1>1, <1>2 DEF LoopInv, TypeOK
<1>4. /\ pc' \in {"dispatch", "execute"} \/ Interrupted' <=> pc \in {"dispatch", "execute"} \/ Interrupted
      /\ InIteration' => InIteration
      /\ outcome' = "none" <=> pc' # "done"
      /\ pc' \in {"dispatch", "execute"} => pc \in {"dispatch", "execute"}
      /\ pc' = "execute" => Len(results) < Len(calls)
  BY DEF LoopInv, Interrupted, InIteration, TypeOK, Serving
<1>5. Length' /\ (InIteration => iteration < MaxIterations)'
  BY <1>1, <1>4 DEF LoopInv, Length
<1>6. Serving'
  BY <1>1, <1>4 DEF LoopInv, Serving, Answered
<1> QED
  BY <1>1, <1>3, <1>4, <1>5, <1>6, TurnsKept DEF LoopInv

(* A request offers the tools that are registered by then.                 *)
LEMMA RequestLoop == ASSUME LoopInv, Request PROVE LoopInv'
<1>1. /\ UNCHANGED <<tools, sandbox, input, iteration, messages, calls, results, outcome, executed, forwarded>>
      /\ manifests' = tools /\ pc = "request" /\ pc' = "llm" /\ iteration < MaxIterations
  BY DEF Request
<1>2. TypeOK'
  BY <1>1 DEF LoopInv, TypeOK
<1>3. Length' /\ (InIteration => iteration < MaxIterations)' /\ Serving'
  BY <1>1 DEF LoopInv, Length, Interrupted, Serving
<1> QED
  BY <1>1, <1>2, <1>3, TurnsKept DEF LoopInv

(* A response with tool calls is the assistant's turn.                     *)
LEMMA CallsLoop == ASSUME LoopInv, NEW cs \in CallSeqs, LlmToolCalls(cs) PROVE LoopInv'
<1> DEFINE m == Message("assistant", cs, <<>>, manifests)
<1>1. /\ UNCHANGED <<tools, sandbox, input, iteration, manifests, outcome, executed, forwarded>>
      /\ calls' = cs /\ results' = <<>> /\ messages' = Append(messages, m)
      /\ pc = "llm" /\ pc' = "dispatch"
  BY DEF LlmToolCalls
<1>2. cs # <<>> /\ Len(cs) \in Nat
  BY DEF CallSeqs
<1>3. m \in Messages /\ AssistantTurn(m) /\ m.calls = cs /\ m.manifests = manifests
  BY <1>2 DEF Message, Messages, AssistantTurn, LoopInv, TypeOK
<1>4. iteration \in Nat /\ messages \in Seq(Messages) /\ Len(messages) = 2 + 2 * iteration /\ outcome = "none"
      /\ iteration < MaxIterations
  BY <1>1, MaxIterationsAssumption DEF LoopInv, TypeOK, Length, Interrupted, InIteration
<1> HIDE DEF m
<1>5. Len(messages') = 2 + 2 * iteration + 1
  BY <1>1, <1>3, <1>4
<1>6. Len(messages') % 2 = 1
  BY <1>4, <1>5, Parity
<1>7. /\ Turns' /\ messages' \in Seq(Messages) /\ messages'[Len(messages')] = m
  BY <1>1, <1>3, <1>6, TurnAppend
<1>8. TypeOK'
  BY <1>1, <1>2 DEF LoopInv, TypeOK
<1>9. Length'
  BY <1>1, <1>4, <1>5 DEF Length
<1>10. Serving'
  BY <1>1, <1>2, <1>3, <1>7 DEF LoopInv, Serving, Answered
<1> QED
  BY <1>1, <1>4, <1>7, <1>8, <1>9, <1>10 DEF LoopInv

(* Any answer to the next call that is not a rejected output.              *)
LEMMA AnswerLoop ==
  ASSUME LoopInv, \/ DispatchSandbox \/ DispatchNotFound \/ ToolOutput("clean")
                  \/ \E text \in Texts : ToolError(text)
  PROVE  LoopInv'
<1>1. PICK a \in Answers : results' = Append(results, a) /\ Admissible(a)
  <2>1. \A kind \in {"output", "error", "unresolved"}, text \in Texts : [kind |-> kind, text |-> text] \in Answers
    BY DEF Answers
  <2>2. CASE DispatchSandbox \/ DispatchNotFound
    <3>1. results' = Append(results, [kind |-> "unresolved", text |-> "clean"]) /\ NextCall \notin tools
      BY <2>2 DEF DispatchSandbox, DispatchNotFound, Answer
    <3> QED
      BY <2>1, <3>1 DEF Texts, Admissible
  <2>3. CASE ToolOutput("clean")
    <3>1. results' = Append(results, [kind |-> "output", text |-> "clean"])
      BY <2>3 DEF ToolOutput, Answer
    <3> QED
      BY <2>1, <3>1 DEF Texts, Admissible
  <2>4. ASSUME NEW text \in Texts, ToolError(text)
        PROVE  \E a \in Answers : results' = Append(results, a) /\ Admissible(a)
    <3>1. results' = Append(results, [kind |-> "error", text |-> text])
      BY <2>4 DEF ToolError, Answer
    <3> QED
      BY <2>1, <3>1 DEF Admissible
  <2> QED
    BY <2>2, <2>3, <2>4
<1>2. /\ UNCHANGED <<tools, sandbox, input, iteration, messages, manifests, calls, outcome>>
      /\ pc \in {"dispatch", "execute"} /\ pc' = "dispatch" /\ Len(results) < Len(calls)
  BY DEF LoopInv, Serving, DispatchSandbox, DispatchNotFound, ToolOutput, ToolError, Answer
<1>3. executed' \in Nat /\ forwarded' \subseteq ToolNames
  BY DEF LoopInv, TypeOK, DispatchSandbox, DispatchNotFound, ToolOutput, ToolError, SandboxRefuses
<1>4. Answered(calls, results, manifests)
  BY <1>2 DEF LoopInv, Serving
<1>5. Answered(calls, results', manifests) /\ results' \in Seq(Answers) /\ Len(results') <= Len(calls)
  BY <1>1, <1>2, <1>4, AnswerAppend
<1>6. TypeOK'
  BY <1>2, <1>3, <1>5 DEF LoopInv, TypeOK
<1>7. Length' /\ (InIteration => iteration < MaxIterations)'
  BY <1>2 DEF LoopInv, Length, Interrupted, InIteration
<1>8. Serving'
  BY <1>2, <1>5 DEF LoopInv, Serving
<1> QED
  BY <1>2, <1>6, <1>7, <1>8, TurnsKept DEF LoopInv

(* When every call has its answer the tools' turn joins the conversation.  *)
LEMMA EndLoop == ASSUME LoopInv, EndOfIteration PROVE LoopInv'
<1> DEFINE m == Message("tool", calls, results, {})
<1>1. /\ UNCHANGED <<tools, sandbox, input, manifests, calls, results, outcome, executed, forwarded>>
      /\ messages' = Append(messages, m) /\ iteration' = iteration + 1
      /\ pc = "dispatch" /\ pc' = "request" /\ Len(results) = Len(calls)
  BY DEF EndOfIteration
<1>2. iteration \in Nat /\ messages \in Seq(Messages) /\ Len(messages) = 2 + 2 * iteration + 1 /\ outcome = "none"
      /\ iteration < MaxIterations
  BY <1>1, MaxIterationsAssumption DEF LoopInv, TypeOK, Length, InIteration
<1>3. m \in Messages /\ m.role = "tool" /\ m.calls = calls /\ m.results = results
  BY DEF Message, Messages, LoopInv, TypeOK
<1>4. ToolTurn(m, messages[Len(messages)])
  BY <1>1, <1>3 DEF ToolTurn, LoopInv, Serving
<1> HIDE DEF m
<1>5. Len(messages') = 2 + 2 * iteration + 1 + 1
  BY <1>1, <1>2, <1>3
<1>6. Len(messages') % 2 = 0
  BY <1>2, <1>5, Parity
<1>7. Turns' /\ messages' \in Seq(Messages)
  BY <1>1, <1>3, <1>4, <1>6, TurnAppend
<1>8. TypeOK'
  BY <1>1, <1>2, MaxIterationsAssumption DEF LoopInv, TypeOK
<1>9. Length' /\ ~InIteration'
  BY <1>1, <1>2, <1>5 DEF Length, Interrupted, InIteration
<1>10. Serving'
  BY <1>1 DEF LoopInv, Serving
<1> QED
  BY <1>1, <1>2, <1>7, <1>8, <1>9, <1>10 DEF LoopInv

(* The loop invariant is inductive.                                        *)
LEMMA LoopStepInv == LoopInv /\ [Next]_vars => LoopInv'
<1> SUFFICES ASSUME LoopInv, [Next]_vars PROVE LoopInv'
  OBVIOUS
<1>1. ASSUME NEW text \in Texts, ToolOutput(text) PROVE LoopInv'
  BY <1>1, ControlLoop, AnswerLoop DEF Texts
<1> QED
  BY <1>1, RegisterLoop, ControlLoop, RequestLoop, CallsLoop, AnswerLoop, EndLoop DEF Next, LoopStep

(* The loop invariant holds in every reachable state of every task.        *)
THEOREM LoopCorrect == Spec => []LoopInv
<1> QED
  BY InitLoop, LoopStepInv, PTL DEF Spec

(* The conversation that GenerateWithTools is called with is well formed,  *)
(* for any number of tools, calls and iterations.                          *)
THEOREM ConversationsWellFormed == Spec => []ConversationWellFormed
<1>1. LoopInv => ConversationWellFormed
  <2> SUFFICES ASSUME LoopInv PROVE ConversationWellFormed
    OBVIOUS
  <2>1. \A i \in 3..Len(messages) :
          IF i % 2 = 1
          THEN messages[i].role = "assistant" /\ messages[i].calls # <<>>
          ELSE /\ messages[i].role = "tool"
               /\ messages[i].calls = messages[i - 1].calls
               /\ Len(messages[i].results) = Len(messages[i].calls)
    BY DEF LoopInv, Turns, AssistantTurn, ToolTurn
  <2>2. pc \in {"request", "llm"} => Len(messages) = 2 + 2 * iteration
    BY MaxIterationsAssumption DEF LoopInv, Length, Interrupted, TypeOK
  <2> QED
    BY <2>1, <2>2 DEF ConversationWellFormed, LoopInv
<1> QED
  BY <1>1, LoopCorrect, PTL

(* A tool that a request offered is found when the response calls it,      *)
(* whatever is registered meanwhile.                                       *)
THEOREM OfferedToolsAreFound == Spec => []OfferedToolsResolve
<1>1. LoopInv => OfferedToolsResolve
  <2> SUFFICES ASSUME LoopInv, NEW i \in DOMAIN messages, messages[i].role = "tool"
               PROVE  Answered(messages[i].calls, messages[i].results, messages[i - 1].manifests)
    BY DEF OfferedToolsResolve, Answered
  <2>1. i \in Nat /\ i \in 1..Len(messages) /\ Len(messages) \in Nat
    BY DEF LoopInv
  <2>2. i \notin 1..2
    BY DEF LoopInv, Turns
  <2>3. i \in 3..Len(messages)
    BY <2>1, <2>2
  <2> QED
    BY <2>3 DEF LoopInv, Turns, AssistantTurn, ToolTurn
<1> QED
  BY <1>1, LoopCorrect, PTL

-----------------------------------------------------------------------------
(* The trail is empty when executeEphemeral is entered.                    *)
LEMMA InitAudit == Init => AuditInv
<1> SUFFICES ASSUME Init PROVE AuditInv
  OBVIOUS
<1>1. \A e : Count(e) = 0
  <2>1. \A e : {i \in DOMAIN audit : audit[i] = e} = {}
    BY DEF Init
  <2> QED
    BY <2>1, FS_EmptySet DEF Count
<1> QED
  BY <1>1, MaxIterationsAssumption DEF Init, AuditInv, AuditComplete

(* Events that are not written are not counted.                            *)
LEMMA CountKept == ASSUME UNCHANGED audit, NEW e PROVE Count(e)' = Count(e)
BY DEF Count

(* Every step of the loop that must leave a trace leaves exactly one.      *)
LEMMA AuditStep == LoopInv /\ AuditInv /\ [Next]_vars => AuditInv'
<1> SUFFICES ASSUME LoopInv, AuditInv, [Next]_vars PROVE AuditInv'
  OBVIOUS
<1>1. /\ audit \in Seq(Events) /\ iteration \in Nat /\ executed \in Nat
      /\ outcome = "none" <=> pc # "done"
      /\ InIteration => iteration < MaxIterations
      /\ MaxIterations \in Nat
      /\ pc \in {"scan", "request", "llm", "dispatch", "execute", "done"}
      /\ iteration <= MaxIterations
  BY MaxIterationsAssumption DEF LoopInv, TypeOK, AuditInv
<1>2. /\ Count("LLM_REQUEST") = iteration + (IF InIteration THEN 1 ELSE 0)
      /\ Count("TOOL_EXECUTE") = executed + (IF pc = "execute" THEN 1 ELSE 0)
      /\ Count("SECURITY_VIOLATION") = IF outcome = "output_violation" THEN 1 ELSE 0
  BY DEF AuditInv, AuditComplete, InIteration
<1>3. ASSUME audit' \in Seq(Events), InIteration' => iteration' < MaxIterations,
             iteration' \in Nat, iteration' <= MaxIterations,
             Count("LLM_REQUEST")' = iteration' + (IF InIteration' THEN 1 ELSE 0),
             Count("TOOL_EXECUTE")' = executed' + (IF pc' = "execute" THEN 1 ELSE 0),
             Count("SECURITY_VIOLATION")' = IF outcome' = "output_violation" THEN 1 ELSE 0
      PROVE  AuditInv'
  BY <1>1, <1>3 DEF AuditInv, AuditComplete, InIteration
<1>4. LoopInv'
  BY LoopStepInv
<1>5. iteration' \in Nat /\ iteration' <= MaxIterations /\ (InIteration' => iteration' < MaxIterations)
  BY <1>4, MaxIterationsAssumption DEF LoopInv, TypeOK
<1>6. ASSUME UNCHANGED audit, ~Request, ~DispatchLocal, ~DispatchSandbox, ~ToolOutput("flagged")
      PROVE  AuditInv'
  <2>1. \A e : Count(e)' = Count(e)
    BY <1>6, CountKept
  <2>2. /\ iteration' + (IF InIteration' THEN 1 ELSE 0) = iteration + (IF InIteration THEN 1 ELSE 0)
        /\ executed' + (IF pc' = "execute" THEN 1 ELSE 0) = executed + (IF pc = "execute" THEN 1 ELSE 0)
        /\ outcome' = "output_violation" <=> outcome = "output_violation"
    BY <1>1, <1>6 DEF InIteration, Texts, Next, LoopStep, RegisterTool, ScanInput, MaxIterationsExceeded,
       LlmError, LlmAnswer, LlmToolCalls, DispatchNotFound, DispatchAlarm, ToolOutput, ToolError, ToolViolationError, EndOfIteration,
       Return, Answer, vars
  <2>3. audit' \in Seq(Events)
    BY <1>1, <1>6
  <2> QED
    BY <1>2, <1>3, <1>5, <2>1, <2>2, <2>3
<1>7. ASSUME NEW x \in Events, audit' = Append(audit, x)
      PROVE  /\ audit' \in Seq(Events)
             /\ Count("LLM_REQUEST")' = Count("LLM_REQUEST") + (IF x = "LLM_REQUEST" THEN 1 ELSE 0)
             /\ Count("TOOL_EXECUTE")' = Count("TOOL_EXECUTE") + (IF x = "TOOL_EXECUTE" THEN 1 ELSE 0)
             /\ Count("SECURITY_VIOLATION")' =
                  Count("SECURITY_VIOLATION") + (IF x = "SECURITY_VIOLATION" THEN 1 ELSE 0)
  <2>1. audit' \in Seq(Events)
    BY <1>1, <1>7
  <2> QED
    BY <1>1, <1>7, <2>1, CountAppend DEF Events
<1>8. CASE Request
  <2>1. /\ audit' = Append(audit, "LLM_REQUEST") /\ pc = "request" /\ pc' = "llm"
        /\ UNCHANGED <<iteration, executed, outcome>>
    BY <1>8 DEF Request
  <2> QED
    BY <1>1, <1>2, <1>3, <1>5, <1>7, <2>1 DEF InIteration, Events
<1>9. CASE DispatchLocal
  <2>1. /\ audit' = Append(audit, "TOOL_EXECUTE") /\ pc = "dispatch" /\ pc' = "execute"
        /\ UNCHANGED <<iteration, executed, outcome>>
    BY <1>9 DEF DispatchLocal
  <2> QED
    BY <1>1, <1>2, <1>3, <1>5, <1>7, <2>1 DEF InIteration, Events
<1>10. CASE DispatchSandbox
  <2>1. /\ audit' = Append(audit, "TOOL_RESULT") /\ pc = "dispatch" /\ pc' = "dispatch"
        /\ UNCHANGED <<iteration, executed, outcome>>
    BY <1>10 DEF DispatchSandbox, Answer
  <2> QED
    BY <1>1, <1>2, <1>3, <1>5, <1>7, <2>1 DEF InIteration, Events
<1>11. CASE ToolOutput("flagged")
  <2>1. /\ audit' = Append(audit, "SECURITY_VIOLATION") /\ pc = "execute" /\ pc' = "done"
        /\ executed' = executed + 1 /\ outcome' = "output_violation" /\ UNCHANGED iteration
    BY <1>11 DEF ToolOutput, Return
  <2> QED
    BY <1>1, <1>2, <1>3, <1>5, <1>7, <2>1 DEF InIteration, Events
<1>12. Request \/ DispatchLocal \/ DispatchSandbox \/ ToolOutput("flagged") \/ UNCHANGED audit
  BY DEF Texts, Next, LoopStep, RegisterTool, ScanInput, MaxIterationsExceeded,
       LlmError, LlmAnswer, LlmToolCalls, DispatchNotFound, DispatchAlarm, ToolOutput,
       ToolError, ToolViolationError, EndOfIteration, vars
<1> QED
  BY <1>6, <1>8, <1>9, <1>10, <1>11, <1>12

(* The audit invariant holds in every reachable state of every task.       *)
THEOREM AuditCorrect == Spec => []AuditInv
<1> QED
  BY InitAudit, AuditStep, LoopCorrect, PTL DEF Spec

(* One audit event for each LLM request and each tool execution, for any   *)
(* number of tools, calls and iterations.                                  *)
THEOREM WorkIsAudited == Spec => []AuditComplete
<1>1. AuditInv => AuditComplete
  BY DEF AuditInv
<1> QED
  BY <1>1, AuditCorrect, PTL

(* A rejected output never reaches the LLM, and ends the task with an      *)
(* event in the trail (verifyToolOutput, dispatchTool).                    *)
THEOREM RejectedOutputsStop == Spec => []RejectedOutputStops
<1>1. LoopInv /\ AuditInv => RejectedOutputStops
  <2> SUFFICES ASSUME LoopInv, AuditInv PROVE RejectedOutputStops
    OBVIOUS
  <2>1. ASSUME NEW i \in DOMAIN messages, NEW k \in DOMAIN messages[i].results,
               messages[i].results[k].kind = "output"
        PROVE  messages[i].results[k].text = "clean"
    <3>1. i \in Nat /\ i \in 1..Len(messages) /\ Len(messages) \in Nat
      BY DEF LoopInv
    <3>2. messages[i].results # <<>>
      OBVIOUS
    <3>3. i \notin 1..2
      BY <3>2 DEF LoopInv, Turns
    <3>4. i \in 3..Len(messages)
      BY <3>1, <3>3
    <3>5. ToolTurn(messages[i], messages[i - 1])
      BY <3>2, <3>4 DEF LoopInv, Turns, AssistantTurn
    <3> QED
      BY <2>1, <3>5 DEF ToolTurn, Answered
  <2>2. Count("SECURITY_VIOLATION") > 0 <=> outcome = "output_violation"
    BY DEF AuditInv
  <2> QED
    BY <2>1, <2>2 DEF RejectedOutputStops
<1> QED
  BY <1>1, LoopCorrect, AuditCorrect, PTL

=============================================================================
