---------------------------- MODULE EngineProofs ----------------------------
(***************************************************************************)
(* Proofs about the worker pool, for any number of jobs, objects, workers, *)
(* clients, consumers and callers of Stop, and any queue size.             *)
(***************************************************************************)
EXTENDS Engine, FiniteSetTheorems, TLAPS

(* The workers that Start spawned and that have not returned.              *)
Alive == {w \in Workers : wpc[w] \notin {"unborn", "dead"}}

(* The wait group counts the live workers.                                 *)
WgInv == wg = Cardinality(Alive)

(* A worker holds a task and a result exactly where its code has them.     *)
WorkerInv ==
  \A w \in Workers :
    /\ wtask[w] # Nil <=> wpc[w] \in {"execute", "send", "recycle"}
    /\ wres[w] # Nil <=> wpc[w] = "send"

(* How far the shutdown has come: which channels are closed, who runs it,  *)
(* and that no worker survives the closing of taskQueue.                   *)
StopInv ==
  /\ stopOnce = "new" => closed = {}
  /\ stopOnce # "new" => \A w \in Workers : wpc[w] # "unborn"
  /\ stopOnce = "done" => closed = Channels
  /\ "taskQueue" \in closed => \A w \in Workers : wpc[w] = "dead"
  /\ "resultQueue" \in closed => "taskQueue" \in closed
  /\ \A s \in Stoppers :
       /\ spc[s] = "wait" => stopOnce = "running" /\ closed = {"quit"}
       /\ spc[s] = "closeResults" =>
            stopOnce = "running" /\ closed = {"quit", "taskQueue"}
       /\ spc[s] = "returned" => stopOnce = "done"
  /\ \A s, t \in Stoppers :
       spc[s] \in {"wait", "closeResults"} /\ spc[t] \in {"wait", "closeResults"} => s = t

ControlInv == TypeOK /\ WgInv /\ WorkerInv /\ StopInv /\ NoEnginePanic

-----------------------------------------------------------------------------
USE DEF taskVars, resultVars, stopVars, workerVars, userVars, history

(* There are finitely many live workers, so their number makes sense.      *)
LEMMA AliveFinite == IsFiniteSet(Alive)
BY WorkersAssumption, FS_Subset DEF Alive

(* The control invariant holds of a new engine.                            *)
LEMMA InitControl == Init => ControlInv
<1> SUFFICES ASSUME Init PROVE ControlInv
  OBVIOUS
<1>1. TypeOK
  BY QueueSizeAssumption DEF Init, TypeOK
<1>2. WgInv
  <2>1. Alive = {}
    BY DEF Init, Alive
  <2>2. QED
    BY <2>1, FS_EmptySet DEF Init, WgInv
<1>3. WorkerInv /\ StopInv /\ NoEnginePanic
  BY DEF Init, WorkerInv, StopInv, NoEnginePanic
<1>4. QED
  BY <1>1, <1>2, <1>3 DEF ControlInv

(* Only Start and a worker that leaves its loop change the wait group.     *)
LEMMA WgStep == ControlInv /\ [Next]_vars => WgInv'
<1> SUFFICES ASSUME ControlInv, [Next]_vars PROVE WgInv'
  OBVIOUS
<1> USE DEF ControlInv
<1>1. CASE Start
  <2>1. Alive = {} /\ Alive' = Workers
    BY <1>1 DEF Start, Alive, TypeOK
  <2>2. QED
    BY <1>1, <2>1, FS_EmptySet, FS_CardinalityType, WorkersAssumption DEF Start, WgInv
<1>2. ASSUME NEW w \in Workers, WorkerQuit(w) PROVE WgInv'
  <2>1. w \in Alive /\ Alive' = Alive \ {w}
    BY <1>2 DEF WorkerQuit, Alive, TypeOK
  <2>2. QED
    BY <1>2, <2>1, AliveFinite, FS_RemoveElement DEF WorkerQuit, WgInv
<1>3. ASSUME wg' = wg, Alive' = Alive PROVE WgInv'
  BY <1>3 DEF WgInv
<1>4. ASSUME NEW w \in Workers, WorkerStep(w), ~WorkerQuit(w)
      PROVE  wg' = wg /\ Alive' = Alive
  BY <1>4 DEF WorkerStep, WorkerTake, WorkerFinish, WorkerSend, WorkerRecycle, Alive, TypeOK
<1>5. ASSUME UNCHANGED <<wg, wpc>> PROVE wg' = wg /\ Alive' = Alive
  BY <1>5 DEF Alive
<1>6. CASE UNCHANGED vars
  BY <1>3, <1>5, <1>6 DEF vars
<1>7. ASSUME NEW c \in Clients, ClientStep(c) PROVE UNCHANGED <<wg, wpc>>
  BY <1>7 DEF ClientStep, GetTask, SubmitAccepted, SubmitFull, SubmitClosed
<1>8. ASSUME NEW c \in Consumers, ConsumerStep(c) PROVE UNCHANGED <<wg, wpc>>
  BY <1>8 DEF ConsumerStep, Receive, RecycleResult
<1>9. ASSUME NEW s \in Stoppers, StopStep(s) PROVE UNCHANGED <<wg, wpc>>
  BY <1>9 DEF StopStep, StopFirst, StopLate, StopUnblocked, StopWait, StopCloseResults
<1>10. QED
  BY <1>1, <1>2, <1>3, <1>4, <1>5, <1>6, <1>7, <1>8, <1>9 DEF Next

(* While the wait group is positive there is a live worker; at zero there  *)
(* is none.                                                                *)
LEMMA WgZero == ControlInv => (wg = 0 <=> Alive = {})
BY AliveFinite, FS_EmptySet DEF ControlInv, WgInv

(* Receiving from a channel leaves a sequence of the same elements, one    *)
(* shorter.                                                                *)
LEMMA PopSeq ==
  ASSUME NEW S, NEW q \in Seq(S), q # <<>>
  PROVE  /\ Head(q) \in S
         /\ Tail(q) \in Seq(S)
         /\ Len(Tail(q)) = Len(q) - 1
         /\ Len(q) \in Nat \ {0}
         /\ \A i \in 1..Len(Tail(q)) : Tail(q)[i] = q[i + 1]
         /\ Head(q) = q[1]
OBVIOUS

(* Typing.  The wait group stays a natural number because it counts the    *)
(* live workers.                                                           *)
LEMMA TypeStep == ControlInv /\ [Next]_vars => TypeOK'
<1> SUFFICES ASSUME ControlInv, [Next]_vars PROVE TypeOK'
  OBVIOUS
<1> USE DEF ControlInv
<1>1. ASSUME Start PROVE TypeOK'
  BY <1>1, FS_CardinalityType, WorkersAssumption DEF Start, TypeOK, WgInv, WorkerInv, StopInv, Channels
<1>2. ASSUME NEW c \in Clients, NEW j \in Jobs, GetTask(c, j) PROVE TypeOK'
  BY <1>2 DEF GetTask, TaskPoolGet, TypeOK, WgInv, WorkerInv, StopInv, Channels
<1>3. ASSUME NEW c \in Clients, SubmitAccepted(c) PROVE TypeOK'
  BY <1>3, QueueSizeAssumption DEF SubmitAccepted, TypeOK
<1>4. ASSUME NEW c \in Clients, SubmitFull(c) PROVE TypeOK'
  BY <1>4 DEF SubmitFull, TypeOK, WgInv, WorkerInv, StopInv, Channels
<1>5. ASSUME NEW c \in Clients, SubmitClosed(c) PROVE TypeOK'
  BY <1>5 DEF SubmitClosed, TypeOK, WgInv, WorkerInv, StopInv, Channels
<1>6. ASSUME NEW w \in Workers, WorkerQuit(w) PROVE TypeOK'
  BY <1>6, WgZero DEF WorkerQuit, TypeOK, Alive
<1>7. ASSUME NEW w \in Workers, WorkerTake(w) PROVE TypeOK'
  <2>1. taskQueue # <<>>
    BY <1>7 DEF WorkerTake, StopInv
  <2>2. Head(taskQueue) \in TaskObj /\ Tail(taskQueue) \in Seq(TaskObj)
        /\ Len(Tail(taskQueue)) <= QueueSize
    BY <2>1, PopSeq, QueueSizeAssumption DEF TypeOK
  <2>3. QED
    BY <1>7, <2>1, <2>2 DEF WorkerTake, TypeOK
<1>8. ASSUME NEW w \in Workers, WorkerFinish(w) PROVE TypeOK'
  BY <1>8 DEF WorkerFinish, ResultPoolGet, TypeOK, WgInv, WorkerInv, StopInv, Channels
<1>9. ASSUME NEW w \in Workers, WorkerSend(w) PROVE TypeOK'
  BY <1>9, QueueSizeAssumption DEF WorkerSend, TypeOK, WgInv, WorkerInv, StopInv, Channels
<1>10. ASSUME NEW w \in Workers, WorkerRecycle(w) PROVE TypeOK'
  BY <1>10 DEF WorkerRecycle, TypeOK, WgInv, WorkerInv, StopInv, Channels
<1>11. ASSUME NEW k \in Consumers, Receive(k) PROVE TypeOK'
  <2>1. Head(resultQueue) \in ResultObj /\ Tail(resultQueue) \in Seq(ResultObj)
        /\ Len(Tail(resultQueue)) <= QueueSize
    BY <1>11, PopSeq, QueueSizeAssumption DEF Receive, TypeOK
  <2>2. QED
    BY <1>11, <2>1 DEF Receive, TypeOK
<1>12. ASSUME NEW k \in Consumers, RecycleResult(k) PROVE TypeOK'
  BY <1>12 DEF RecycleResult, TypeOK, WgInv, WorkerInv, StopInv, Channels
<1>13. ASSUME NEW s \in Stoppers, StopFirst(s) PROVE TypeOK'
  BY <1>13 DEF StopFirst, Close, TypeOK, WgInv, WorkerInv, StopInv, Channels
<1>14. ASSUME NEW s \in Stoppers, StopLate(s) PROVE TypeOK'
  BY <1>14 DEF StopLate, TypeOK, WgInv, WorkerInv, StopInv, Channels
<1>15. ASSUME NEW s \in Stoppers, StopUnblocked(s) PROVE TypeOK'
  BY <1>15 DEF StopUnblocked, TypeOK, WgInv, WorkerInv, StopInv, Channels
<1>16. ASSUME NEW s \in Stoppers, StopWait(s) PROVE TypeOK'
  BY <1>16 DEF StopWait, Close, TypeOK, WgInv, WorkerInv, StopInv, Channels
<1>17. ASSUME NEW s \in Stoppers, StopCloseResults(s) PROVE TypeOK'
  BY <1>17 DEF StopCloseResults, Close, TypeOK, WgInv, WorkerInv, StopInv, Channels
<1>18. CASE UNCHANGED vars
  BY <1>18 DEF vars, TypeOK, WgInv, WorkerInv, StopInv, Channels
<1>19. QED
  BY <1>1, <1>2, <1>3, <1>4, <1>5, <1>6, <1>7, <1>8, <1>9, <1>10, <1>11, <1>12, <1>13, <1>14, <1>15, <1>16, <1>17, <1>18
     DEF Next, ClientStep, WorkerStep, ConsumerStep, StopStep

(* What a worker holds fits the place in its loop where it is.             *)
LEMMA WorkerStepInv == ControlInv /\ [Next]_vars => WorkerInv'
<1> SUFFICES ASSUME ControlInv, [Next]_vars PROVE WorkerInv'
  OBVIOUS
<1> USE DEF ControlInv
<1>1. ASSUME Start PROVE WorkerInv'
  BY <1>1 DEF Start, TypeOK, WorkerInv, StopInv
<1>2. ASSUME NEW c \in Clients, NEW j \in Jobs, GetTask(c, j) PROVE WorkerInv'
  BY <1>2 DEF GetTask, TaskPoolGet, TypeOK, WorkerInv, StopInv
<1>3. ASSUME NEW c \in Clients, SubmitAccepted(c) PROVE WorkerInv'
  BY <1>3 DEF SubmitAccepted, TypeOK, WorkerInv, StopInv
<1>4. ASSUME NEW c \in Clients, SubmitFull(c) PROVE WorkerInv'
  BY <1>4 DEF SubmitFull, TypeOK, WorkerInv, StopInv
<1>5. ASSUME NEW c \in Clients, SubmitClosed(c) PROVE WorkerInv'
  BY <1>5 DEF SubmitClosed, TypeOK, WorkerInv, StopInv
<1>6. ASSUME NEW w \in Workers, WorkerQuit(w) PROVE WorkerInv'
  BY <1>6 DEF WorkerQuit, TypeOK, WorkerInv, StopInv
<1>7. ASSUME NEW w \in Workers, WorkerTake(w) PROVE WorkerInv'
  <2>1. taskQueue # <<>>
    BY <1>7 DEF WorkerTake, StopInv
  <2>2. Head(taskQueue) # Nil
    BY <2>1, PopSeq, NilAssumption DEF TypeOK
  <2>3. QED
    BY <1>7, <2>1, <2>2 DEF WorkerTake, TypeOK, WorkerInv
<1>8. ASSUME NEW w \in Workers, WorkerFinish(w) PROVE WorkerInv'
  BY <1>8, NilAssumption DEF WorkerFinish, ResultPoolGet, TypeOK, WorkerInv
<1>9. ASSUME NEW w \in Workers, WorkerSend(w) PROVE WorkerInv'
  BY <1>9 DEF WorkerSend, TypeOK, WorkerInv, StopInv
<1>10. ASSUME NEW w \in Workers, WorkerRecycle(w) PROVE WorkerInv'
  BY <1>10 DEF WorkerRecycle, TypeOK, WorkerInv, StopInv
<1>11. ASSUME NEW k \in Consumers, Receive(k) PROVE WorkerInv'
  BY <1>11 DEF Receive, TypeOK, WorkerInv, StopInv
<1>12. ASSUME NEW k \in Consumers, RecycleResult(k) PROVE WorkerInv'
  BY <1>12 DEF RecycleResult, TypeOK, WorkerInv, StopInv
<1>13. ASSUME NEW s \in Stoppers, StopFirst(s) PROVE WorkerInv'
  BY <1>13 DEF StopFirst, Close, TypeOK, WorkerInv, StopInv
<1>14. ASSUME NEW s \in Stoppers, StopLate(s) PROVE WorkerInv'
  BY <1>14 DEF StopLate, TypeOK, WorkerInv, StopInv
<1>15. ASSUME NEW s \in Stoppers, StopUnblocked(s) PROVE WorkerInv'
  BY <1>15 DEF StopUnblocked, TypeOK, WorkerInv, StopInv
<1>16. ASSUME NEW s \in Stoppers, StopWait(s) PROVE WorkerInv'
  BY <1>16 DEF StopWait, Close, TypeOK, WorkerInv, StopInv
<1>17. ASSUME NEW s \in Stoppers, StopCloseResults(s) PROVE WorkerInv'
  BY <1>17 DEF StopCloseResults, Close, TypeOK, WorkerInv, StopInv
<1>18. CASE UNCHANGED vars
  BY <1>18 DEF vars, TypeOK, WorkerInv, StopInv
<1>19. QED
  BY <1>1, <1>2, <1>3, <1>4, <1>5, <1>6, <1>7, <1>8, <1>9, <1>10, <1>11, <1>12, <1>13, <1>14, <1>15, <1>16, <1>17, <1>18
     DEF Next, ClientStep, WorkerStep, ConsumerStep, StopStep

(* The shutdown's order: quit, then the last worker, then the queues.      *)
LEMMA StopStepInv == ControlInv /\ [Next]_vars => StopInv'
<1> SUFFICES ASSUME ControlInv, [Next]_vars PROVE StopInv'
  OBVIOUS
<1> USE DEF ControlInv
<1>1. ASSUME Start PROVE StopInv'
  BY <1>1 DEF Start, TypeOK, WorkerInv, StopInv
<1>2. ASSUME NEW c \in Clients, NEW j \in Jobs, GetTask(c, j) PROVE StopInv'
  BY <1>2 DEF GetTask, TaskPoolGet, TypeOK, WorkerInv, StopInv
<1>3. ASSUME NEW c \in Clients, SubmitAccepted(c) PROVE StopInv'
  BY <1>3 DEF SubmitAccepted, TypeOK, WorkerInv, StopInv
<1>4. ASSUME NEW c \in Clients, SubmitFull(c) PROVE StopInv'
  BY <1>4 DEF SubmitFull, TypeOK, WorkerInv, StopInv
<1>5. ASSUME NEW c \in Clients, SubmitClosed(c) PROVE StopInv'
  BY <1>5 DEF SubmitClosed, TypeOK, WorkerInv, StopInv
<1>6. ASSUME NEW w \in Workers, WorkerQuit(w) PROVE StopInv'
  BY <1>6 DEF WorkerQuit, TypeOK, WorkerInv, StopInv
<1>7. ASSUME NEW w \in Workers, WorkerTake(w) PROVE StopInv'
  BY <1>7 DEF WorkerTake, TypeOK, WorkerInv, StopInv
<1>8. ASSUME NEW w \in Workers, WorkerFinish(w) PROVE StopInv'
  BY <1>8 DEF WorkerFinish, ResultPoolGet, TypeOK, WorkerInv, StopInv
<1>9. ASSUME NEW w \in Workers, WorkerSend(w) PROVE StopInv'
  BY <1>9 DEF WorkerSend, TypeOK, WorkerInv, StopInv
<1>10. ASSUME NEW w \in Workers, WorkerRecycle(w) PROVE StopInv'
  BY <1>10 DEF WorkerRecycle, TypeOK, WorkerInv, StopInv
<1>11. ASSUME NEW k \in Consumers, Receive(k) PROVE StopInv'
  BY <1>11 DEF Receive, TypeOK, WorkerInv, StopInv
<1>12. ASSUME NEW k \in Consumers, RecycleResult(k) PROVE StopInv'
  BY <1>12 DEF RecycleResult, TypeOK, WorkerInv, StopInv
<1>13. ASSUME NEW s \in Stoppers, StopFirst(s) PROVE StopInv'
  BY <1>13 DEF StopFirst, Close, TypeOK, WorkerInv, StopInv
<1>14. ASSUME NEW s \in Stoppers, StopLate(s) PROVE StopInv'
  BY <1>14 DEF StopLate, TypeOK, WorkerInv, StopInv
<1>15. ASSUME NEW s \in Stoppers, StopUnblocked(s) PROVE StopInv'
  BY <1>15 DEF StopUnblocked, TypeOK, WorkerInv, StopInv
<1>16. ASSUME NEW s \in Stoppers, StopWait(s) PROVE StopInv'
  <2>1. \A x \in Workers : wpc[x] = "dead"
    BY <1>16, WgZero DEF StopWait, StopInv, Alive
  <2>2. QED
    BY <1>16, <2>1 DEF StopWait, Close, TypeOK, StopInv
<1>17. ASSUME NEW s \in Stoppers, StopCloseResults(s) PROVE StopInv'
  BY <1>17 DEF StopCloseResults, Close, TypeOK, StopInv, Channels
<1>18. CASE UNCHANGED vars
  BY <1>18 DEF vars, TypeOK, WorkerInv, StopInv
<1>19. QED
  BY <1>1, <1>2, <1>3, <1>4, <1>5, <1>6, <1>7, <1>8, <1>9, <1>10, <1>11, <1>12, <1>13, <1>14, <1>15, <1>16, <1>17, <1>18
     DEF Next, ClientStep, WorkerStep, ConsumerStep, StopStep

(* No step of Start, of a worker or of Stop panics.                        *)
LEMMA PanicStep == ControlInv /\ [Next]_vars => NoEnginePanic'
<1> SUFFICES ASSUME ControlInv, [Next]_vars PROVE NoEnginePanic'
  OBVIOUS
<1> USE DEF ControlInv
<1>1. ASSUME Start PROVE NoEnginePanic'
  BY <1>1 DEF Start, TypeOK, WorkerInv, StopInv, NoEnginePanic
<1>2. ASSUME NEW c \in Clients, NEW j \in Jobs, GetTask(c, j) PROVE NoEnginePanic'
  BY <1>2 DEF GetTask, TaskPoolGet, TypeOK, WorkerInv, StopInv, NoEnginePanic
<1>3. ASSUME NEW c \in Clients, SubmitAccepted(c) PROVE NoEnginePanic'
  BY <1>3 DEF SubmitAccepted, TypeOK, WorkerInv, StopInv, NoEnginePanic
<1>4. ASSUME NEW c \in Clients, SubmitFull(c) PROVE NoEnginePanic'
  BY <1>4 DEF SubmitFull, TypeOK, WorkerInv, StopInv, NoEnginePanic
<1>5. ASSUME NEW c \in Clients, SubmitClosed(c) PROVE NoEnginePanic'
  BY <1>5 DEF SubmitClosed, TypeOK, WorkerInv, StopInv, NoEnginePanic
<1>6. ASSUME NEW w \in Workers, WorkerQuit(w) PROVE NoEnginePanic'
  BY <1>6 DEF WorkerQuit, TypeOK, WorkerInv, StopInv, NoEnginePanic
<1>7. ASSUME NEW w \in Workers, WorkerTake(w) PROVE NoEnginePanic'
  BY <1>7 DEF WorkerTake, TypeOK, WorkerInv, StopInv, NoEnginePanic
<1>8. ASSUME NEW w \in Workers, WorkerFinish(w) PROVE NoEnginePanic'
  BY <1>8 DEF WorkerFinish, ResultPoolGet, TypeOK, WorkerInv, StopInv, NoEnginePanic
<1>9. ASSUME NEW w \in Workers, WorkerSend(w) PROVE NoEnginePanic'
  BY <1>9 DEF WorkerSend, TypeOK, WorkerInv, StopInv, NoEnginePanic
<1>10. ASSUME NEW w \in Workers, WorkerRecycle(w) PROVE NoEnginePanic'
  BY <1>10 DEF WorkerRecycle, TypeOK, WorkerInv, StopInv, NoEnginePanic
<1>11. ASSUME NEW k \in Consumers, Receive(k) PROVE NoEnginePanic'
  BY <1>11 DEF Receive, TypeOK, WorkerInv, StopInv, NoEnginePanic
<1>12. ASSUME NEW k \in Consumers, RecycleResult(k) PROVE NoEnginePanic'
  BY <1>12 DEF RecycleResult, TypeOK, WorkerInv, StopInv, NoEnginePanic
<1>13. ASSUME NEW s \in Stoppers, StopFirst(s) PROVE NoEnginePanic'
  BY <1>13 DEF StopFirst, Close, TypeOK, WorkerInv, StopInv, NoEnginePanic
<1>14. ASSUME NEW s \in Stoppers, StopLate(s) PROVE NoEnginePanic'
  BY <1>14 DEF StopLate, TypeOK, WorkerInv, StopInv, NoEnginePanic
<1>15. ASSUME NEW s \in Stoppers, StopUnblocked(s) PROVE NoEnginePanic'
  BY <1>15 DEF StopUnblocked, TypeOK, WorkerInv, StopInv, NoEnginePanic
<1>16. ASSUME NEW s \in Stoppers, StopWait(s) PROVE NoEnginePanic'
  BY <1>16 DEF StopWait, Close, TypeOK, WorkerInv, StopInv, NoEnginePanic
<1>17. ASSUME NEW s \in Stoppers, StopCloseResults(s) PROVE NoEnginePanic'
  BY <1>17 DEF StopCloseResults, Close, TypeOK, WorkerInv, StopInv, NoEnginePanic
<1>18. CASE UNCHANGED vars
  BY <1>18 DEF vars, TypeOK, WorkerInv, StopInv, NoEnginePanic
<1>19. QED
  BY <1>1, <1>2, <1>3, <1>4, <1>5, <1>6, <1>7, <1>8, <1>9, <1>10, <1>11, <1>12, <1>13, <1>14, <1>15, <1>16, <1>17, <1>18
     DEF Next, ClientStep, WorkerStep, ConsumerStep, StopStep

-----------------------------------------------------------------------------
(* The control of the pool: typing, the wait group and the shutdown.       *)
THEOREM ControlCorrect == Spec => []ControlInv
<1>1. Init => ControlInv
  BY InitControl
<1>2. ControlInv /\ [Next]_vars => ControlInv'
  BY WgStep, TypeStep, WorkerStepInv, StopStepInv, PanicStep DEF ControlInv
<1>3. QED
  BY <1>1, <1>2, PTL DEF Spec

(* Every variable keeps its type; in particular neither channel ever holds *)
(* more than its capacity and the wait group never goes negative, which    *)
(* would make wg.Done panic.                                               *)
THEOREM TypeCorrect == Spec => []TypeOK
<1>1. ControlInv => TypeOK
  BY DEF ControlInv
<1>2. QED
  BY <1>1, ControlCorrect, PTL

(* No worker and no Stop call panics, however many goroutines submit,      *)
(* receive and stop, and in whatever order.                                *)
THEOREM EngineNeverPanics == Spec => []NoEnginePanic
<1>1. ControlInv => NoEnginePanic
  BY DEF ControlInv
<1>2. QED
  BY <1>1, ControlCorrect, PTL

(* Every Stop call that has returned finds all workers gone and all        *)
(* channels closed, also when another goroutine ran the shutdown.          *)
THEOREM StopReturnsLast == Spec => []StopIsLast
<1>1. ControlInv => StopIsLast
  BY DEF ControlInv, StopInv, StopIsLast, Channels
<1>2. QED
  BY <1>1, ControlCorrect, PTL

(* Shutdown is safe for any number of workers, clients and Stop calls.     *)
THEOREM ShutdownIsSafe == Spec => []ShutdownSafe
  BY TypeCorrect, EngineNeverPanics, StopReturnsLast, PTL DEF ShutdownSafe

-----------------------------------------------------------------------------
(* Nobody waits for everybody.                                             *)

(* While a call of Stop waits and the process is up, one of these can go   *)
(* on by itself: a late caller, because the Once is done; the caller that  *)
(* runs the shutdown; or a worker.  Or else every live worker is at its    *)
(* send to a full resultQueue, the one thing that only a consumer ends.    *)
ShutdownMoves ==
  Up => \A s \in Stoppers : spc[s] \in {"blocked", "wait", "closeResults"} =>
    \/ stopOnce = "done"
    \/ \E t \in Stoppers : spc[t] = "closeResults" \/ (spc[t] = "wait" /\ wg = 0)
    \/ \E w \in Workers :
         \/ wpc[w] \in {"execute", "recycle"}
         \/ wpc[w] = "select" /\ "quit" \in closed
         \/ wpc[w] = "send" /\ Len(resultQueue) < QueueSize
    \/ Len(resultQueue) = QueueSize /\ \A w \in Alive : wpc[w] = "send"

(* The Once that is not done has a caller inside it.                       *)
RunnerInv ==
  /\ stopOnce = "running" => \E t \in Stoppers : spc[t] \in {"wait", "closeResults"}
  /\ \A s \in Stoppers : spc[s] = "blocked" => stopOnce # "new"

(* Only the caller inside the Once ends it.                                *)
LEMMA RunnerStep == ControlInv /\ RunnerInv /\ [Next]_vars => RunnerInv'
<1> SUFFICES ASSUME ControlInv, RunnerInv, [Next]_vars PROVE RunnerInv'
  OBVIOUS
<1>1. spc \in [Stoppers -> {"idle", "blocked", "wait", "closeResults", "returned"}] /\ StopInv
  BY DEF ControlInv, TypeOK
<1>2. ASSUME UNCHANGED <<spc, stopOnce>> PROVE RunnerInv'
  BY <1>2 DEF RunnerInv
<1>3. ASSUME Start \/ UNCHANGED vars PROVE UNCHANGED <<spc, stopOnce>>
  BY <1>3 DEF Start, vars
<1>4. ASSUME NEW c \in Clients, ClientStep(c) PROVE UNCHANGED <<spc, stopOnce>>
  BY <1>4 DEF ClientStep, GetTask, SubmitAccepted, SubmitFull, SubmitClosed
<1>5. ASSUME NEW w \in Workers, WorkerStep(w) PROVE UNCHANGED <<spc, stopOnce>>
  BY <1>5 DEF WorkerStep, WorkerQuit, WorkerTake, WorkerFinish, WorkerSend, WorkerRecycle
<1>6. ASSUME NEW c \in Consumers, ConsumerStep(c) PROVE UNCHANGED <<spc, stopOnce>>
  BY <1>6 DEF ConsumerStep, Receive, RecycleResult
<1>7. ASSUME NEW s \in Stoppers, StopFirst(s) PROVE RunnerInv'
  <2>1. spc'[s] = "wait" /\ stopOnce' = "running"
    BY <1>1, <1>7 DEF StopFirst
  <2> QED
    BY <2>1 DEF RunnerInv
<1>8. ASSUME NEW s \in Stoppers, StopLate(s) \/ StopUnblocked(s) PROVE RunnerInv'
  <2>1. /\ stopOnce' = stopOnce /\ spc[s] \in {"idle", "blocked"}
        /\ stopOnce # "new"
        /\ \A t \in Stoppers : t # s => spc'[t] = spc[t]
    BY <1>1, <1>8 DEF StopLate, StopUnblocked
  <2> QED
    BY <2>1 DEF RunnerInv
<1>9. ASSUME NEW s \in Stoppers, StopWait(s) PROVE RunnerInv'
  <2>1. spc'[s] = "closeResults" /\ stopOnce' = stopOnce /\ stopOnce = "running"
    BY <1>1, <1>9 DEF StopWait, StopInv
  <2> QED
    BY <2>1 DEF RunnerInv
<1>10. ASSUME NEW s \in Stoppers, StopCloseResults(s) PROVE RunnerInv'
  BY <1>10 DEF StopCloseResults, RunnerInv
<1> QED
  BY <1>2, <1>3, <1>4, <1>5, <1>6, <1>7, <1>8, <1>9, <1>10 DEF Next, StopStep

(* Shutdown cannot deadlock, for any number of workers, queue size and     *)
(* callers, as long as results are received.                               *)
THEOREM ShutdownIsNeverStuck == Spec => []ShutdownMoves
<1>1. Init => RunnerInv
  BY DEF Init, RunnerInv
<1>2. ASSUME ControlInv, RunnerInv PROVE ShutdownMoves
  <2> SUFFICES ASSUME NEW s \in Stoppers, spc[s] \in {"blocked", "wait", "closeResults"}, stopOnce # "done",
                      \A t \in Stoppers : spc[t] # "closeResults" /\ ~(spc[t] = "wait" /\ wg = 0),
                      \A w \in Workers :
                        /\ wpc[w] \notin {"execute", "recycle"}
                        /\ ~(wpc[w] = "select" /\ "quit" \in closed)
                        /\ ~(wpc[w] = "send" /\ Len(resultQueue) < QueueSize)
               PROVE  Len(resultQueue) = QueueSize /\ \A w \in Alive : wpc[w] = "send"
    BY DEF ShutdownMoves
  <2>1. stopOnce = "running"
    BY <1>2 DEF RunnerInv, ControlInv, TypeOK, StopInv
  <2>2. PICK t \in Stoppers : spc[t] = "wait" /\ wg # 0
    BY <1>2, <2>1 DEF RunnerInv
  <2>3. closed = {"quit"}
    BY <1>2, <2>2 DEF ControlInv, StopInv
  <2>4. Alive # {}
    BY <1>2, <2>2, WgZero
  <2>5. \A w \in Alive : wpc[w] = "send"
    BY <1>2, <2>3 DEF Alive, ControlInv, TypeOK
  <2>6. PICK w \in Workers : wpc[w] = "send"
    BY <2>4, <2>5 DEF Alive
  <2>7. Len(resultQueue) \in Nat /\ Len(resultQueue) <= QueueSize /\ QueueSize \in Nat
    BY <1>2, QueueSizeAssumption DEF ControlInv, TypeOK
  <2>8. ~(Len(resultQueue) < QueueSize)
    BY <2>6
  <2> QED
    BY <2>5, <2>7, <2>8
<1> QED
  BY <1>1, <1>2, RunnerStep, ControlCorrect, PTL DEF Spec

-----------------------------------------------------------------------------
(* ExclusiveTask, spelled out kind of holder by kind of holder.            *)
OwnTask ==
  /\ taskPool \cap taskNew = {}
  /\ \A c \in Clients : ctask[c] \notin taskPool \cup taskNew
  /\ \A i \in 1..Len(taskQueue) : taskQueue[i] \notin taskPool \cup taskNew
  /\ \A w \in Workers : wtask[w] \notin taskPool \cup taskNew
  /\ \A c, d \in Clients : ctask[c] = ctask[d] /\ ctask[c] # Nil => c = d
  /\ \A i, k \in 1..Len(taskQueue) : taskQueue[i] = taskQueue[k] => i = k
  /\ \A w, x \in Workers : wtask[w] = wtask[x] /\ wtask[w] # Nil => w = x
  /\ \A c \in Clients, i \in 1..Len(taskQueue) : ctask[c] # taskQueue[i]
  /\ \A c \in Clients, w \in Workers : ctask[c] = wtask[w] => ctask[c] = Nil
  /\ \A i \in 1..Len(taskQueue), w \in Workers : taskQueue[i] # wtask[w]

OwnResult ==
  /\ resultPool \cap resultNew = {}
  /\ \A c \in Consumers : held[c] \notin resultPool \cup resultNew
  /\ \A i \in 1..Len(resultQueue) : resultQueue[i] \notin resultPool \cup resultNew
  /\ \A w \in Workers : wres[w] \notin resultPool \cup resultNew
  /\ \A c, d \in Consumers : held[c] = held[d] /\ held[c] # Nil => c = d
  /\ \A i, k \in 1..Len(resultQueue) : resultQueue[i] = resultQueue[k] => i = k
  /\ \A w, x \in Workers : wres[w] = wres[x] /\ wres[w] # Nil => w = x
  /\ \A c \in Consumers, i \in 1..Len(resultQueue) : held[c] # resultQueue[i]
  /\ \A c \in Consumers, w \in Workers : held[c] = wres[w] => held[c] = Nil
  /\ \A i \in 1..Len(resultQueue), w \in Workers : resultQueue[i] # wres[w]

(* No step makes a second holder of a Task pointer.                        *)
LEMMA OwnTaskStep ==
  ControlInv /\ OwnTask /\ [Next]_vars => OwnTask'
<1> SUFFICES ASSUME ControlInv /\ OwnTask, [Next]_vars PROVE OwnTask'
  OBVIOUS
<1>1. ASSUME UNCHANGED <<taskPool, taskNew, taskQueue, ctask, wtask>> PROVE OwnTask'
  BY <1>1 DEF OwnTask
<1>2. ASSUME NEW c \in Clients, NEW j \in Jobs, GetTask(c, j) PROVE OwnTask'
  BY <1>2, NilAssumption DEF GetTask, TaskPoolGet, OwnTask, ControlInv, TypeOK
<1>3. ASSUME NEW c \in Clients, SubmitAccepted(c) PROVE OwnTask'
  <2> DEFINE q == taskQueue
  <2>1. ctask[c] \in TaskObj /\ ctask[c] # Nil /\ taskQueue' = Append(q, ctask[c])
    BY <1>3 DEF SubmitAccepted, ControlInv, TypeOK
  <2>2. /\ Len(q) \in Nat
        /\ 1..Len(taskQueue') = 1..Len(q) \cup {Len(q) + 1}
        /\ taskQueue'[Len(q) + 1] = ctask[c]
        /\ \A i \in 1..Len(q) : taskQueue'[i] = q[i] /\ i # Len(q) + 1
    BY <2>1 DEF ControlInv, TypeOK
  <2>3. /\ ctask' = [ctask EXCEPT ![c] = Nil]
        /\ UNCHANGED <<taskPool, taskNew, wtask>>
    BY <1>3 DEF SubmitAccepted
  <2>4. Nil \notin TaskObj /\ \A i \in 1..Len(q) : q[i] \in TaskObj
    BY NilAssumption DEF ControlInv, TypeOK
  <2> HIDE DEF q
  <2>5. QED
    BY <2>1, <2>2, <2>3, <2>4 DEF OwnTask, ControlInv, TypeOK, q
<1>4. ASSUME NEW c \in Clients, SubmitFull(c) PROVE OwnTask'
  BY <1>4, NilAssumption DEF SubmitFull, OwnTask, ControlInv, TypeOK
<1>5. ASSUME NEW w \in Workers, WorkerTake(w) PROVE OwnTask'
  <2>1. taskQueue # <<>>
    BY <1>5 DEF WorkerTake, ControlInv, StopInv
  <2>2. /\ Len(taskQueue) \in Nat \ {0}
        /\ Len(taskQueue') = Len(taskQueue) - 1
        /\ \A i \in 1..Len(taskQueue') :
             taskQueue'[i] = taskQueue[i + 1] /\ i + 1 \in 1..Len(taskQueue)
        /\ 1 \in 1..Len(taskQueue)
        /\ \A i \in 1..Len(taskQueue') : i \in Nat /\ i + 1 # 1
        /\ \A i, k \in 1..Len(taskQueue') : i + 1 = k + 1 => i = k
    BY <1>5, <2>1, PopSeq DEF WorkerTake, ControlInv, TypeOK
  <2>3. /\ wtask' = [wtask EXCEPT ![w] = taskQueue[1]]
        /\ wtask[w] = Nil
        /\ UNCHANGED <<taskPool, taskNew, ctask>>
    BY <1>5, <2>1, PopSeq DEF WorkerTake, ControlInv, TypeOK, WorkerInv
  <2>4. Nil \notin TaskObj /\ taskQueue[1] \in TaskObj
    BY <2>1, PopSeq, NilAssumption DEF ControlInv, TypeOK
  <2>5. \A i, l \in 1..Len(taskQueue') : taskQueue'[i] = taskQueue'[l] => i = l
    BY <2>2 DEF OwnTask
  <2>6. \A i \in 1..Len(taskQueue') :
          \E l \in 1..Len(taskQueue) : l # 1 /\ taskQueue'[i] = taskQueue[l]
    BY <2>2
  <2>7. 1 \in 1..Len(taskQueue)
    BY <2>2
  <2>8. wtask \in [Workers -> TaskObj \cup {Nil}]
    BY DEF ControlInv, TypeOK
  <2>9. \A i \in 1..Len(taskQueue') : taskQueue'[i] # taskQueue[1]
    BY <2>6, <2>7 DEF OwnTask
  <2>10. \A x \in Workers : wtask'[x] = IF x = w THEN taskQueue[1] ELSE wtask[x]
    BY <2>3, <2>8
  <2>11. /\ (taskPool \cap taskNew)' = {}
         /\ \A c \in Clients : ctask'[c] \notin (taskPool \cup taskNew)'
         /\ \A c, d \in Clients : ctask'[c] = ctask'[d] /\ ctask'[c] # Nil => c = d
    BY <2>3 DEF OwnTask
  <2>12. \A i \in 1..Len(taskQueue') : taskQueue'[i] \notin (taskPool \cup taskNew)'
    BY <2>3, <2>6 DEF OwnTask
  <2>13. \A x \in Workers : wtask'[x] \notin (taskPool \cup taskNew)'
    BY <2>3, <2>7, <2>10 DEF OwnTask
  <2>14. \A x, y \in Workers : wtask'[x] = wtask'[y] /\ wtask'[x] # Nil => x = y
    BY <2>7, <2>10 DEF OwnTask
  <2>15. \A c \in Clients, i \in 1..Len(taskQueue') : ctask'[c] # taskQueue'[i]
    BY <2>3, <2>6 DEF OwnTask
  <2>16. \A c \in Clients, x \in Workers : ctask'[c] = wtask'[x] => ctask'[c] = Nil
    BY <2>3, <2>7, <2>10 DEF OwnTask
  <2>17. \A i \in 1..Len(taskQueue'), x \in Workers : taskQueue'[i] # wtask'[x]
    BY <2>6, <2>9, <2>10 DEF OwnTask
  <2>18. QED
    BY <2>5, <2>11, <2>12, <2>13, <2>14, <2>15, <2>16, <2>17 DEF OwnTask
<1>6. ASSUME NEW w \in Workers, WorkerRecycle(w) PROVE OwnTask'
  <2>1. wtask[w] # Nil /\ wtask[w] \in TaskObj
    BY <1>6 DEF WorkerRecycle, ControlInv, WorkerInv, TypeOK
  <2>2. QED
    BY <1>6, <2>1, NilAssumption DEF WorkerRecycle, OwnTask, ControlInv, TypeOK
<1>7. QED
  BY <1>1, <1>2, <1>3, <1>4, <1>5, <1>6 DEF Next, vars, ClientStep, WorkerStep,
     ConsumerStep, StopStep, Start, SubmitClosed, WorkerQuit, WorkerFinish, ResultPoolGet,
     WorkerSend, Receive, RecycleResult, StopFirst, Close, StopLate, StopUnblocked,
     StopWait, Close, StopCloseResults, Close

(* No step makes a second holder of a Result pointer.                      *)
LEMMA OwnResultStep ==
  ControlInv /\ OwnResult /\ [Next]_vars => OwnResult'
<1> SUFFICES ASSUME ControlInv /\ OwnResult, [Next]_vars PROVE OwnResult'
  OBVIOUS
<1>1. ASSUME UNCHANGED <<resultPool, resultNew, resultQueue, held, wres>> PROVE OwnResult'
  BY <1>1 DEF OwnResult
<1>2. ASSUME NEW w \in Workers, WorkerFinish(w) PROVE OwnResult'
  <2>1. PICK o \in resultPool \cup resultNew :
          /\ resultPool' = resultPool \ {o}
          /\ resultNew' = resultNew \ {o}
          /\ wres' = [wres EXCEPT ![w] = o]
    BY <1>2 DEF WorkerFinish, ResultPoolGet
  <2>2. UNCHANGED <<resultQueue, held>>
    BY <1>2 DEF WorkerFinish
  <2>3. o \in ResultObj /\ Nil \notin ResultObj
    BY <2>1, NilAssumption DEF ControlInv, TypeOK
  <2>4. \A x \in Workers : wres'[x] = IF x = w THEN o ELSE wres[x]
    BY <2>1 DEF ControlInv, TypeOK
  <2>5. /\ (resultPool \cap resultNew)' = {}
        /\ \A c \in Consumers : held'[c] \notin (resultPool \cup resultNew)'
        /\ \A i \in 1..Len(resultQueue') : resultQueue'[i] \notin (resultPool \cup resultNew)'
        /\ \A c, d \in Consumers : held'[c] = held'[d] /\ held'[c] # Nil => c = d
        /\ \A i, k \in 1..Len(resultQueue') : resultQueue'[i] = resultQueue'[k] => i = k
        /\ \A c \in Consumers, i \in 1..Len(resultQueue') : held'[c] # resultQueue'[i]
    BY <2>1, <2>2 DEF OwnResult
  <2>6. \A x \in Workers : wres'[x] \notin (resultPool \cup resultNew)'
    BY <2>1, <2>4 DEF OwnResult
  <2>7. \A x, y \in Workers : wres'[x] = wres'[y] /\ wres'[x] # Nil => x = y
    BY <2>1, <2>4 DEF OwnResult
  <2>8. \A c \in Consumers, x \in Workers : held'[c] = wres'[x] => held'[c] = Nil
    BY <2>1, <2>2, <2>4 DEF OwnResult
  <2>9. \A i \in 1..Len(resultQueue'), x \in Workers : resultQueue'[i] # wres'[x]
    BY <2>1, <2>2, <2>4 DEF OwnResult
  <2>10. QED
    BY <2>5, <2>6, <2>7, <2>8, <2>9 DEF OwnResult
<1>3. ASSUME NEW w \in Workers, WorkerSend(w) PROVE OwnResult'
  <2> DEFINE q == resultQueue
  <2>1. wres[w] \in ResultObj /\ wres[w] # Nil /\ resultQueue' = Append(q, wres[w])
    BY <1>3 DEF WorkerSend, ControlInv, TypeOK, WorkerInv
  <2>2. /\ Len(q) \in Nat
        /\ 1..Len(resultQueue') = 1..Len(q) \cup {Len(q) + 1}
        /\ resultQueue'[Len(q) + 1] = wres[w]
        /\ \A i \in 1..Len(q) : resultQueue'[i] = q[i] /\ i # Len(q) + 1
    BY <2>1 DEF ControlInv, TypeOK
  <2>3. /\ wres' = [wres EXCEPT ![w] = Nil]
        /\ UNCHANGED <<resultPool, resultNew, held>>
    BY <1>3 DEF WorkerSend
  <2>4. Nil \notin ResultObj /\ \A i \in 1..Len(q) : q[i] \in ResultObj
    BY NilAssumption DEF ControlInv, TypeOK
  <2> HIDE DEF q
  <2>5. QED
    BY <2>1, <2>2, <2>3, <2>4 DEF OwnResult, ControlInv, TypeOK, q
<1>4. ASSUME NEW k \in Consumers, Receive(k) PROVE OwnResult'
  <2>1. resultQueue # <<>>
    BY <1>4 DEF Receive
  <2>2. /\ Len(resultQueue) \in Nat \ {0}
        /\ Len(resultQueue') = Len(resultQueue) - 1
        /\ \A i \in 1..Len(resultQueue') :
             resultQueue'[i] = resultQueue[i + 1] /\ i + 1 \in 1..Len(resultQueue)
        /\ 1 \in 1..Len(resultQueue)
        /\ \A i \in 1..Len(resultQueue') : i \in Nat /\ i + 1 # 1
        /\ \A i, m \in 1..Len(resultQueue') : i + 1 = m + 1 => i = m
    BY <1>4, <2>1, PopSeq DEF Receive, ControlInv, TypeOK
  <2>3. /\ held' = [held EXCEPT ![k] = resultQueue[1]]
        /\ held[k] = Nil
        /\ UNCHANGED <<resultPool, resultNew, wres>>
    BY <1>4, <2>1, PopSeq DEF Receive, ControlInv, TypeOK
  <2>4. Nil \notin ResultObj /\ resultQueue[1] \in ResultObj
    BY <2>1, PopSeq, NilAssumption DEF ControlInv, TypeOK
  <2>5. \A i, l \in 1..Len(resultQueue') : resultQueue'[i] = resultQueue'[l] => i = l
    BY <2>2 DEF OwnResult
  <2>6. \A i \in 1..Len(resultQueue') :
          \E l \in 1..Len(resultQueue) : l # 1 /\ resultQueue'[i] = resultQueue[l]
    BY <2>2
  <2>7. 1 \in 1..Len(resultQueue)
    BY <2>2
  <2>8. held \in [Consumers -> ResultObj \cup {Nil}]
    BY DEF ControlInv, TypeOK
  <2>9. \A i \in 1..Len(resultQueue') : resultQueue'[i] # resultQueue[1]
    BY <2>6, <2>7 DEF OwnResult
  <2>10. \A c \in Consumers : held'[c] = IF c = k THEN resultQueue[1] ELSE held[c]
    BY <2>3, <2>8
  <2>11. /\ (resultPool \cap resultNew)' = {}
         /\ \A x \in Workers : wres'[x] \notin (resultPool \cup resultNew)'
         /\ \A x, y \in Workers : wres'[x] = wres'[y] /\ wres'[x] # Nil => x = y
    BY <2>3 DEF OwnResult
  <2>12. \A i \in 1..Len(resultQueue') : resultQueue'[i] \notin (resultPool \cup resultNew)'
    BY <2>3, <2>6 DEF OwnResult
  <2>13. \A c \in Consumers : held'[c] \notin (resultPool \cup resultNew)'
    BY <2>3, <2>7, <2>10 DEF OwnResult
  <2>14. \A c, d \in Consumers : held'[c] = held'[d] /\ held'[c] # Nil => c = d
    BY <2>7, <2>10 DEF OwnResult
  <2>15. \A i \in 1..Len(resultQueue'), x \in Workers : resultQueue'[i] # wres'[x]
    BY <2>3, <2>6 DEF OwnResult
  <2>16. \A c \in Consumers, x \in Workers : held'[c] = wres'[x] => held'[c] = Nil
    BY <2>3, <2>7, <2>10 DEF OwnResult
  <2>17. \A c \in Consumers, i \in 1..Len(resultQueue') : held'[c] # resultQueue'[i]
    BY <2>6, <2>9, <2>10 DEF OwnResult
  <2>18. QED
    BY <2>5, <2>11, <2>12, <2>13, <2>14, <2>15, <2>16, <2>17 DEF OwnResult
<1>5. ASSUME NEW k \in Consumers, RecycleResult(k) PROVE OwnResult'
  <2>1. held[k] # Nil /\ held[k] \in ResultObj
    BY <1>5 DEF RecycleResult, ControlInv, TypeOK
  <2>2. QED
    BY <1>5, <2>1, NilAssumption DEF RecycleResult, OwnResult, ControlInv, TypeOK
<1>6. QED
  BY <1>1, <1>2, <1>3, <1>4, <1>5 DEF Next, vars, ClientStep, WorkerStep, ConsumerStep,
     StopStep, Start, GetTask, TaskPoolGet, SubmitAccepted, SubmitFull, SubmitClosed,
     WorkerQuit, WorkerTake, WorkerRecycle, StopFirst, Close, StopLate, StopUnblocked,
     StopWait, Close, StopCloseResults, Close

(* A new engine has handed out no pointer yet.                             *)
LEMMA InitOwn == Init => OwnTask /\ OwnResult
BY NilAssumption DEF Init, OwnTask, OwnResult

(* The spelled-out form gives the form the model checker checks.           *)
LEMMA OwnTaskIsExclusive == ControlInv /\ OwnTask => ExclusiveTask
<1> SUFFICES ASSUME ControlInv, OwnTask PROVE ExclusiveTask
  OBVIOUS
<1>1. ASSUME NEW h \in TaskHolders
      PROVE  \/ h[1] = "client" /\ h[2] \in Clients /\ h = <<"client", h[2]>> /\ TaskAt(h) = ctask[h[2]]
             \/ h[1] = "worker" /\ h[2] \in Workers /\ h = <<"worker", h[2]>> /\ TaskAt(h) = wtask[h[2]]
             \/ h[1] = "queue" /\ h = <<"queue", h[2]>> /\ TaskAt(h) = Nil
             \/ /\ h[1] = "queue" /\ h = <<"queue", h[2]>>
                /\ h[2] \in 1..Len(taskQueue) /\ TaskAt(h) = taskQueue[h[2]]
  <2>1. CASE h \in {"client"} \X Clients
    BY <2>1 DEF TaskAt
  <2>2. CASE h \in {"worker"} \X Workers
    BY <2>2 DEF TaskAt
  <2>3. CASE h \in {"queue"} \X (1..QueueSize)
    <3>1. h[1] = "queue" /\ h = <<"queue", h[2]>> /\ h[2] \in 1..QueueSize
      BY <2>3
    <3>2. TaskAt(h) = IF h[2] <= Len(taskQueue) THEN taskQueue[h[2]] ELSE Nil
      BY <3>1 DEF TaskAt
    <3>3. QED
      BY <3>1, <3>2, QueueSizeAssumption DEF ControlInv, TypeOK
  <2>4. QED
    BY <2>1, <2>2, <2>3 DEF TaskHolders
<1>2. ASSUME NEW g \in TaskHolders, NEW h \in TaskHolders, TaskAt(g) = TaskAt(h), TaskAt(g) # Nil
      PROVE  g = h
  BY <1>2, <1>1 DEF OwnTask
<1>3. ASSUME NEW h \in TaskHolders PROVE TaskAt(h) \notin taskPool \cup taskNew
  BY <1>1, NilAssumption DEF OwnTask, ControlInv, TypeOK
<1>4. QED
  BY <1>2, <1>3 DEF ExclusiveTask, OwnTask

(* The same of Result pointers.                                            *)
LEMMA OwnResultIsExclusive == ControlInv /\ OwnResult => ExclusiveResult
<1> SUFFICES ASSUME ControlInv, OwnResult PROVE ExclusiveResult
  OBVIOUS
<1>1. ASSUME NEW h \in ResultHolders
      PROVE  \/ h[1] = "consumer" /\ h[2] \in Consumers /\ h = <<"consumer", h[2]>> /\ ResultAt(h) = held[h[2]]
             \/ h[1] = "worker" /\ h[2] \in Workers /\ h = <<"worker", h[2]>> /\ ResultAt(h) = wres[h[2]]
             \/ h[1] = "queue" /\ h = <<"queue", h[2]>> /\ ResultAt(h) = Nil
             \/ /\ h[1] = "queue" /\ h = <<"queue", h[2]>>
                /\ h[2] \in 1..Len(resultQueue) /\ ResultAt(h) = resultQueue[h[2]]
  <2>1. CASE h \in {"consumer"} \X Consumers
    BY <2>1 DEF ResultAt
  <2>2. CASE h \in {"worker"} \X Workers
    BY <2>2 DEF ResultAt
  <2>3. CASE h \in {"queue"} \X (1..QueueSize)
    <3>1. h[1] = "queue" /\ h = <<"queue", h[2]>> /\ h[2] \in 1..QueueSize
      BY <2>3
    <3>2. ResultAt(h) = IF h[2] <= Len(resultQueue) THEN resultQueue[h[2]] ELSE Nil
      BY <3>1 DEF ResultAt
    <3>3. QED
      BY <3>1, <3>2, QueueSizeAssumption DEF ControlInv, TypeOK
  <2>4. QED
    BY <2>1, <2>2, <2>3 DEF ResultHolders
<1>2. ASSUME NEW g \in ResultHolders, NEW h \in ResultHolders, ResultAt(g) = ResultAt(h), ResultAt(g) # Nil
      PROVE  g = h
  BY <1>2, <1>1 DEF OwnResult
<1>3. ASSUME NEW h \in ResultHolders PROVE ResultAt(h) \notin resultPool \cup resultNew
  BY <1>1, NilAssumption DEF OwnResult, ControlInv, TypeOK
<1>4. QED
  BY <1>2, <1>3 DEF ExclusiveResult, OwnResult

(* Ownership of the pooled structs, for every instance: at no time do two  *)
(* of client, queue slot, worker and pool share a Task pointer.            *)
THEOREM TasksExclusive == Spec => []ExclusiveTask
<1>1. Init => OwnTask
  BY InitOwn
<1>2. ControlInv /\ OwnTask /\ [Next]_vars => OwnTask'
  BY OwnTaskStep
<1>3. QED
  BY <1>1, <1>2, OwnTaskIsExclusive, ControlCorrect, PTL DEF Spec

(* The same of Result pointers.                                            *)
THEOREM ResultsExclusive == Spec => []ExclusiveResult
<1>1. Init => OwnResult
  BY InitOwn
<1>2. ControlInv /\ OwnResult /\ [Next]_vars => OwnResult'
  BY OwnResultStep
<1>3. QED
  BY <1>1, <1>2, OwnResultIsExclusive, ControlCorrect, PTL DEF Spec

(* Every step that puts a record into a pool has blanked it.               *)
LEMMA ScrubStep ==
  ControlInv /\ PooledScrubbed /\ [Next]_vars => PooledScrubbed'
<1> SUFFICES ASSUME ControlInv /\ PooledScrubbed, [Next]_vars PROVE PooledScrubbed'
  OBVIOUS
<1>1. ASSUME UNCHANGED <<task, taskPool, result, resultPool>> PROVE PooledScrubbed'
  BY <1>1 DEF PooledScrubbed
<1>2. ASSUME NEW c \in Clients, NEW j \in Jobs, GetTask(c, j) PROVE PooledScrubbed'
  BY <1>2 DEF GetTask, TaskPoolGet, PooledScrubbed, ControlInv, TypeOK
<1>3. ASSUME NEW w \in Workers, WorkerFinish(w) PROVE PooledScrubbed'
  <2>1. PICK o \in resultPool \cup resultNew :
          /\ resultPool' = resultPool \ {o}
          /\ result' = [result EXCEPT ![o] = task[wtask[w]]]
    BY <1>3 DEF WorkerFinish, ResultPoolGet
  <2>2. UNCHANGED <<task, taskPool>>
    BY <1>3 DEF WorkerFinish
  <2>3. QED
    BY <2>1, <2>2 DEF PooledScrubbed, ControlInv, TypeOK
<1>4. ASSUME NEW w \in Workers, WorkerRecycle(w) PROVE PooledScrubbed'
  <2>1. wtask[w] \in TaskObj
    BY <1>4 DEF WorkerRecycle, ControlInv, WorkerInv, TypeOK
  <2>2. QED
    BY <1>4, <2>1 DEF WorkerRecycle, PooledScrubbed, ControlInv, TypeOK
<1>5. ASSUME NEW k \in Consumers, RecycleResult(k) PROVE PooledScrubbed'
  BY <1>5 DEF RecycleResult, PooledScrubbed, ControlInv, TypeOK
<1>6. QED
  BY <1>1, <1>2, <1>3, <1>4, <1>5 DEF Next, vars, ClientStep, WorkerStep, ConsumerStep,
     StopStep, Start, SubmitAccepted, SubmitFull, SubmitClosed, WorkerQuit, WorkerTake,
     WorkerSend, Receive, StopFirst, Close, StopLate, StopUnblocked, StopWait, Close,
     StopCloseResults, Close

(* No struct waits in a pool with the text of the job it served: what the  *)
(* next client or worker gets is blank.                                    *)
THEOREM PoolsScrubbed == Spec => []PooledScrubbed
<1>1. Init => PooledScrubbed
  BY DEF Init, PooledScrubbed
<1>2. ControlInv /\ PooledScrubbed /\ [Next]_vars => PooledScrubbed'
  BY ScrubStep
<1>3. QED
  BY <1>1, <1>2, ControlCorrect, PTL DEF Spec

(* Pooling is invisible, whatever the sizes of the pools and queues.       *)
THEOREM OwnershipHolds == Spec => []Ownership
  BY TasksExclusive, ResultsExclusive, PoolsScrubbed, PTL DEF Ownership

-----------------------------------------------------------------------------
(* The engine keeps account of its jobs and implements TaskService.        *)

(* The job of each busy worker, and of each client that holds a task.      *)
Running == [w \in BusyWorkers |-> task[wtask[w]]]
Filling == [c \in {k \in Clients : ctask[k] # Nil} |-> task[ctask[c]]]

jobView == <<WaitingJobs, Running, ReadyJobs, Filling>>

(* Each accepted job is in one place, and the jobs that clients have not   *)
(* submitted yet are in none.                                              *)
JobInv ==
  /\ IsInjective(WaitingJobs) /\ IsInjective(Running) /\ IsInjective(ReadyJobs) /\ IsInjective(Filling)
  /\ Range(WaitingJobs) \cap Range(Running) = {}
  /\ Range(WaitingJobs) \cap Range(ReadyJobs) = {}
  /\ Range(Running) \cap Range(ReadyJobs) = {}
  /\ received \cap (Range(WaitingJobs) \cup Range(Running) \cup Range(ReadyJobs)) = {}
  /\ accepted = Range(WaitingJobs) \cup Range(Running) \cup Range(ReadyJobs) \cup received
  /\ accepted \subseteq offered
  /\ Range(Filling) \subseteq offered \ accepted

(* A result on its way names the task it is the result of.                 *)
SendInv == \A w \in Workers : wpc[w] = "send" => result[wres[w]] = task[wtask[w]]

OwnInv == ControlInv /\ OwnTask /\ OwnResult

(* What each step does to the jobs, through the pointers.                  *)

(* Writing to a Result struct that is not in resultQueue changes no job.   *)
LEMMA WriteResult ==
  ASSUME OwnInv, NEW o \in ResultObj, NEW v, result' = [result EXCEPT ![o] = v],
         UNCHANGED <<task, taskQueue, wtask, ctask, resultQueue, BusyWorkers>>,
         \A i \in 1..Len(resultQueue) : resultQueue[i] # o
  PROVE  UNCHANGED jobView
<1>1. WaitingJobs' = WaitingJobs /\ Running' = Running /\ Filling' = Filling
  BY DEF WaitingJobs, Running, Filling
<1>2. \A i \in 1..Len(resultQueue) : result'[resultQueue[i]] = result[resultQueue[i]]
  BY DEF OwnInv, ControlInv, TypeOK
<1>3. ReadyJobs' = ReadyJobs
  BY <1>2 DEF ReadyJobs
<1> QED
  BY <1>1, <1>3 DEF jobView

(* The values and the injectivity of a sequence that grows or shrinks by   *)
(* one element, and of a function that gains or loses a point.             *)
LEMMA AppendView ==
  ASSUME NEW S, NEW q \in Seq(S), NEW e \in S
  PROVE  /\ Range(Append(q, e)) = Range(q) \cup {e}
         /\ IsInjective(q) /\ e \notin Range(q) => IsInjective(Append(q, e))
<1>1. /\ DOMAIN q = 1..Len(q) /\ DOMAIN Append(q, e) = 1..(Len(q) + 1) /\ Len(q) \in Nat
      /\ \A i \in 1..Len(q) : Append(q, e)[i] = q[i]
      /\ Append(q, e)[Len(q) + 1] = e
      /\ 1..(Len(q) + 1) = 1..Len(q) \cup {Len(q) + 1}
  OBVIOUS
<1> QED
  BY <1>1 DEF Range, IsInjective

(* Taking the head of a queue without repetitions takes its value.         *)
LEMMA TailView ==
  ASSUME NEW S, NEW q \in Seq(S), q # <<>>
  PROVE  /\ Head(q) \in Range(q)
         /\ IsInjective(q) => IsInjective(Tail(q)) /\ Range(Tail(q)) = Range(q) \ {Head(q)}
<1>1. /\ Len(q) \in Nat \ {0} /\ Len(Tail(q)) = Len(q) - 1
      /\ DOMAIN q = 1..Len(q) /\ DOMAIN Tail(q) = 1..(Len(q) - 1) /\ Head(q) = q[1]
      /\ \A i \in 1..(Len(q) - 1) : Tail(q)[i] = q[i + 1] /\ i + 1 \in 1..Len(q) /\ i + 1 # 1
  BY PopSeq
<1>2. \A k \in 1..Len(q) : k # 1 => k - 1 \in 1..(Len(q) - 1) /\ Tail(q)[k - 1] = q[k]
  BY <1>1
<1>3. Head(q) \in Range(q)
  BY <1>1 DEF Range
<1>4. ASSUME IsInjective(q) PROVE IsInjective(Tail(q))
  BY <1>1, <1>4 DEF IsInjective
<1>5. ASSUME IsInjective(q) PROVE Range(Tail(q)) = Range(q) \ {Head(q)}
  <2>1. \A k \in 1..Len(q) : k # 1 => q[k] # q[1]
    BY <1>1, <1>5 DEF IsInjective
  <2>2. Range(Tail(q)) \subseteq Range(q) \ {Head(q)}
    BY <1>1, <2>1 DEF Range
  <2>3. ASSUME NEW v \in Range(q), v # Head(q) PROVE v \in Range(Tail(q))
    <3>1. PICK k \in 1..Len(q) : q[k] = v
      BY <1>1 DEF Range
    <3>2. k - 1 \in DOMAIN Tail(q) /\ Tail(q)[k - 1] = v
      BY <1>1, <1>2, <2>3, <3>1
    <3> QED
      BY <3>2 DEF Range
  <2> QED
    BY <2>2, <2>3
<1> QED
  BY <1>3, <1>4, <1>5

(* A new key adds its value.                                               *)
LEMMA AddView ==
  ASSUME NEW f, NEW x, x \notin DOMAIN f, NEW v, NEW g, DOMAIN g = DOMAIN f \cup {x},
         g[x] = v, \A y \in DOMAIN f : g[y] = f[y]
  PROVE  /\ Range(g) = Range(f) \cup {v}
         /\ IsInjective(f) /\ v \notin Range(f) => IsInjective(g)
BY DEF Range, IsInjective

(* A key that goes takes its value, if values do not repeat.               *)
LEMMA RemoveView ==
  ASSUME NEW f, NEW x \in DOMAIN f, NEW g, DOMAIN g = DOMAIN f \ {x},
         \A y \in DOMAIN g : g[y] = f[y]
  PROVE  /\ f[x] \in Range(f)
         /\ IsInjective(f) => IsInjective(g) /\ Range(g) = Range(f) \ {f[x]}
BY DEF Range, IsInjective

(* The views are sequences and functions of jobs.                          *)
LEMMA ViewTypes ==
  ASSUME OwnInv
  PROVE  /\ WaitingJobs \in Seq(Jobs \cup {NoJob}) /\ Len(WaitingJobs) = Len(taskQueue)
         /\ ReadyJobs \in Seq(Jobs \cup {NoJob}) /\ Len(ReadyJobs) = Len(resultQueue)
         /\ \A w \in BusyWorkers : wtask[w] \in TaskObj
<1>1. Len(taskQueue) \in Nat /\ \A i \in 1..Len(taskQueue) : task[taskQueue[i]] \in Jobs \cup {NoJob}
  BY DEF OwnInv, ControlInv, TypeOK
<1>2. Len(resultQueue) \in Nat /\ \A i \in 1..Len(resultQueue) : result[resultQueue[i]] \in Jobs \cup {NoJob}
  BY DEF OwnInv, ControlInv, TypeOK
<1>3. \A w \in BusyWorkers : wtask[w] \in TaskObj
  BY DEF OwnInv, ControlInv, TypeOK, WorkerInv, BusyWorkers
<1> QED
  BY <1>1, <1>2, <1>3 DEF WaitingJobs, ReadyJobs

(* GetTask fills a struct that nobody holds.                               *)
LEMMA GetTaskEffect ==
  ASSUME OwnInv, NEW c \in Clients, NEW j \in Jobs, GetTask(c, j)
  PROVE  /\ UNCHANGED <<WaitingJobs, Running, ReadyJobs>>
         /\ c \notin DOMAIN Filling
         /\ DOMAIN Filling' = DOMAIN Filling \cup {c}
         /\ Filling'[c] = j /\ \A k \in DOMAIN Filling : Filling'[k] = Filling[k]
<1>1. PICK o \in TaskPoolGet : task' = [task EXCEPT ![o] = j] /\ ctask' = [ctask EXCEPT ![c] = o]
  BY DEF GetTask
<1>2. /\ ctask[c] = Nil /\ UNCHANGED <<taskQueue, result, resultQueue, wpc, wtask>>
      /\ o \in TaskObj /\ o # Nil
  BY <1>1, NilAssumption DEF GetTask, TaskPoolGet, OwnInv, ControlInv, TypeOK
<1>3. /\ \A i \in 1..Len(taskQueue) : taskQueue[i] # o /\ taskQueue[i] \in TaskObj
      /\ \A w \in BusyWorkers : wtask[w] # o
      /\ \A k \in Clients : ctask[k] # o
  BY <1>1 DEF TaskPoolGet, OwnInv, OwnTask, BusyWorkers, ControlInv, TypeOK
<1>4. task \in [TaskObj -> Jobs \cup {NoJob}] /\ ctask \in [Clients -> TaskObj \cup {Nil}]
  BY DEF OwnInv, ControlInv, TypeOK
<1>5. WaitingJobs' = WaitingJobs
  BY <1>1, <1>2, <1>3, <1>4 DEF WaitingJobs
<1>6. BusyWorkers' = BusyWorkers
  BY <1>2 DEF BusyWorkers
<1>7. Running' = Running
  BY <1>1, <1>2, <1>3, <1>4, <1>6, ViewTypes DEF Running
<1>8. ReadyJobs' = ReadyJobs
  BY <1>2 DEF ReadyJobs
<1>9. {k \in Clients : ctask'[k] # Nil} = {k \in Clients : ctask[k] # Nil} \cup {c} /\ c \notin DOMAIN Filling
  BY <1>1, <1>2, <1>4 DEF Filling
<1>10. \A k \in {l \in Clients : ctask'[l] # Nil} : task'[ctask'[k]] = IF k = c THEN j ELSE task[ctask[k]]
  BY <1>1, <1>2, <1>3, <1>4
<1>11. Filling' = [k \in DOMAIN Filling \cup {c} |-> IF k = c THEN j ELSE Filling[k]]
  BY <1>9, <1>10 DEF Filling
<1>12. \A k \in DOMAIN Filling \cup {c} : Filling'[k] = IF k = c THEN j ELSE Filling[k]
  BY <1>11
<1> QED
  BY <1>5, <1>7, <1>8, <1>9, <1>11, <1>12

(* Submit moves a job from its client to the end of the queue.             *)
LEMMA SubmitEffect ==
  ASSUME OwnInv, NEW c \in Clients, SubmitAccepted(c)
  PROVE  /\ c \in DOMAIN Filling
         /\ DOMAIN Filling' = DOMAIN Filling \ {c} /\ \A k \in DOMAIN Filling' : Filling'[k] = Filling[k]
         /\ WaitingJobs' = Append(WaitingJobs, Filling[c])
         /\ Filling[c] \in Jobs \cup {NoJob}
         /\ UNCHANGED <<Running, ReadyJobs>>
<1>1. /\ ctask[c] # Nil /\ ctask[c] \in TaskObj
      /\ taskQueue' = Append(taskQueue, ctask[c]) /\ ctask' = [ctask EXCEPT ![c] = Nil]
      /\ UNCHANGED <<task, result, resultQueue, wpc, wtask>>
  BY DEF SubmitAccepted, OwnInv, ControlInv, TypeOK
<1>2. ctask \in [Clients -> TaskObj \cup {Nil}] /\ taskQueue \in Seq(TaskObj) /\ task \in [TaskObj -> Jobs \cup {NoJob}]
  BY DEF OwnInv, ControlInv, TypeOK
<1>3. {k \in Clients : ctask'[k] # Nil} = {k \in Clients : ctask[k] # Nil} \ {c}
  BY <1>1, <1>2
<1>4. c \in DOMAIN Filling /\ Filling' = [k \in DOMAIN Filling \ {c} |-> Filling[k]]
  BY <1>1, <1>2, <1>3 DEF Filling
<1>5. Filling[c] = task[ctask[c]]
  BY <1>1 DEF Filling
<1>6. /\ Len(taskQueue') = Len(taskQueue) + 1 /\ taskQueue'[Len(taskQueue) + 1] = ctask[c]
      /\ \A i \in 1..Len(taskQueue) : taskQueue'[i] = taskQueue[i]
      /\ Len(taskQueue) \in Nat
  BY <1>1, <1>2
<1>7. WaitingJobs' \in Seq(Jobs \cup {NoJob}) /\ Append(WaitingJobs, Filling[c]) \in Seq(Jobs \cup {NoJob})
  BY <1>1, <1>2, <1>5, <1>6, ViewTypes DEF WaitingJobs
<1>8. Len(WaitingJobs') = Len(taskQueue) + 1 /\ Len(Append(WaitingJobs, Filling[c])) = Len(taskQueue) + 1
  BY <1>1, <1>2, <1>5, <1>6, <1>7, ViewTypes DEF WaitingJobs
<1>9. \A i \in 1..(Len(taskQueue) + 1) : WaitingJobs'[i] = Append(WaitingJobs, Filling[c])[i]
  BY <1>1, <1>2, <1>5, <1>6, ViewTypes DEF WaitingJobs
<1>10. WaitingJobs' = Append(WaitingJobs, Filling[c])
  BY <1>7, <1>8, <1>9
<1>11. UNCHANGED <<Running, ReadyJobs>>
  BY <1>1 DEF Running, ReadyJobs, BusyWorkers
<1> QED
  BY <1>1, <1>2, <1>4, <1>5, <1>10, <1>11

(* A worker takes the oldest job of the queue.                             *)
LEMMA TakeEffect ==
  ASSUME OwnInv, NEW w \in Workers, WorkerTake(w)
  PROVE  /\ WaitingJobs # <<>> /\ WaitingJobs' = Tail(WaitingJobs)
         /\ w \notin DOMAIN Running
         /\ DOMAIN Running' = DOMAIN Running \cup {w}
         /\ Running'[w] = Head(WaitingJobs) /\ \A x \in DOMAIN Running : Running'[x] = Running[x]
         /\ UNCHANGED <<ReadyJobs, Filling>>
<1>1. /\ wpc[w] = "select" /\ taskQueue # <<>>
      /\ wtask' = [wtask EXCEPT ![w] = Head(taskQueue)] /\ taskQueue' = Tail(taskQueue)
      /\ wpc' = [wpc EXCEPT ![w] = "execute"]
      /\ UNCHANGED <<task, ctask, result, resultQueue>>
  BY DEF WorkerTake, OwnInv, ControlInv, StopInv
<1>2. /\ taskQueue \in Seq(TaskObj) /\ task \in [TaskObj -> Jobs \cup {NoJob}]
      /\ wtask \in [Workers -> TaskObj \cup {Nil}] /\ wpc = [x \in Workers |-> wpc[x]]
  BY DEF OwnInv, ControlInv, TypeOK
<1>3. /\ Len(taskQueue) \in Nat \ {0} /\ Len(taskQueue') = Len(taskQueue) - 1
      /\ \A i \in 1..Len(taskQueue') : taskQueue'[i] = taskQueue[i + 1] /\ i + 1 \in 1..Len(taskQueue)
      /\ Head(taskQueue) = taskQueue[1] /\ 1 \in 1..Len(taskQueue) /\ taskQueue' \in Seq(TaskObj)
  BY <1>1, <1>2, PopSeq
<1>4. WaitingJobs # <<>> /\ Head(WaitingJobs) = task[Head(taskQueue)]
  BY <1>3, ViewTypes DEF WaitingJobs
<1>5. /\ Tail(WaitingJobs) \in Seq(Jobs \cup {NoJob}) /\ Len(Tail(WaitingJobs)) = Len(taskQueue) - 1
      /\ \A i \in 1..(Len(taskQueue) - 1) : Tail(WaitingJobs)[i] = WaitingJobs[i + 1]
  BY <1>4, ViewTypes, PopSeq
<1>6. WaitingJobs' \in Seq(Jobs \cup {NoJob}) /\ Len(WaitingJobs') = Len(taskQueue) - 1
  BY <1>1, <1>2, <1>3 DEF WaitingJobs
<1>7. \A i \in 1..(Len(taskQueue) - 1) : WaitingJobs'[i] = Tail(WaitingJobs)[i]
  BY <1>1, <1>3, <1>5 DEF WaitingJobs
<1>8. WaitingJobs' = Tail(WaitingJobs)
  BY <1>5, <1>6, <1>7
<1>9. w \notin BusyWorkers /\ BusyWorkers' = BusyWorkers \cup {w}
  BY <1>1, <1>2 DEF BusyWorkers
<1>10. \A x \in BusyWorkers' : task'[wtask'[x]] = IF x = w THEN Head(WaitingJobs) ELSE task[wtask[x]]
  BY <1>1, <1>2, <1>4 DEF BusyWorkers
<1>11. Running' = [x \in DOMAIN Running \cup {w} |-> IF x = w THEN Head(WaitingJobs) ELSE Running[x]]
  BY <1>9, <1>10 DEF Running
<1>12. UNCHANGED <<ReadyJobs, Filling>>
  BY <1>1 DEF ReadyJobs, Filling
<1>13. w \notin DOMAIN Running
  BY <1>9 DEF Running
<1>14. \A x \in DOMAIN Running \cup {w} : Running'[x] = IF x = w THEN Head(WaitingJobs) ELSE Running[x]
  BY <1>11
<1> QED
  BY <1>4, <1>8, <1>11, <1>12, <1>13, <1>14

(* GetResult fills a struct that nobody holds, and the result names the    *)
(* task.                                                                   *)
LEMMA FinishEffect ==
  ASSUME OwnInv, NEW w \in Workers, WorkerFinish(w)
  PROVE  /\ UNCHANGED jobView
         /\ SendInv => SendInv'
<1>1. PICK o \in ResultPoolGet : result' = [result EXCEPT ![o] = task[wtask[w]]] /\ wres' = [wres EXCEPT ![w] = o]
  BY DEF WorkerFinish
<1>2. /\ o \in ResultObj /\ o # Nil /\ wpc[w] = "execute" /\ wpc' = [wpc EXCEPT ![w] = "send"]
      /\ UNCHANGED <<task, taskQueue, wtask, ctask, resultQueue>>
  BY <1>1, NilAssumption DEF WorkerFinish, ResultPoolGet, OwnInv, ControlInv, TypeOK
<1>3. /\ \A i \in 1..Len(resultQueue) : resultQueue[i] # o
      /\ \A x \in Workers : wres[x] # o
  BY <1>1 DEF ResultPoolGet, OwnInv, OwnResult
<1>4. BusyWorkers' = BusyWorkers
  BY <1>2 DEF BusyWorkers, OwnInv, ControlInv, TypeOK
<1>5. UNCHANGED jobView
  BY <1>1, <1>2, <1>3, <1>4, WriteResult
<1>6. /\ result \in [ResultObj -> Jobs \cup {NoJob}] /\ wres \in [Workers -> ResultObj \cup {Nil}]
      /\ wpc = [x \in Workers |-> wpc[x]]
      /\ \A x \in Workers : wpc[x] = "send" => wres[x] \in ResultObj
  BY DEF OwnInv, ControlInv, TypeOK, WorkerInv
<1>7. SendInv => SendInv'
  BY <1>1, <1>2, <1>3, <1>6 DEF SendInv
<1> QED
  BY <1>5, <1>7

(* The send moves a job from its worker to the end of resultQueue.         *)
LEMMA SendEffect ==
  ASSUME OwnInv, SendInv, NEW w \in Workers, WorkerSend(w)
  PROVE  /\ w \in DOMAIN Running
         /\ DOMAIN Running' = DOMAIN Running \ {w} /\ \A x \in DOMAIN Running' : Running'[x] = Running[x]
         /\ ReadyJobs' = Append(ReadyJobs, Running[w])
         /\ Running[w] \in Jobs \cup {NoJob}
         /\ Len(resultQueue) < QueueSize
         /\ UNCHANGED <<WaitingJobs, Filling>>
<1>1. /\ wpc[w] = "send" /\ wpc' = [wpc EXCEPT ![w] = "recycle"]
      /\ resultQueue' = Append(resultQueue, wres[w])
      /\ UNCHANGED <<task, taskQueue, ctask, wtask, result>>
      /\ wres[w] \in ResultObj /\ wtask[w] \in TaskObj
      /\ Len(resultQueue) < QueueSize
  BY DEF WorkerSend, OwnInv, ControlInv, TypeOK, WorkerInv, StopInv
<1>2. /\ resultQueue \in Seq(ResultObj) /\ result \in [ResultObj -> Jobs \cup {NoJob}]
      /\ task \in [TaskObj -> Jobs \cup {NoJob}] /\ wpc = [x \in Workers |-> wpc[x]]
  BY DEF OwnInv, ControlInv, TypeOK
<1>3. w \in BusyWorkers /\ BusyWorkers' = BusyWorkers \ {w}
  BY <1>1, <1>2 DEF BusyWorkers
<1>4. /\ w \in DOMAIN Running /\ Running[w] = task[wtask[w]] /\ Running[w] = result[wres[w]]
      /\ Running' = [x \in DOMAIN Running \ {w} |-> Running[x]]
  BY <1>1, <1>3 DEF Running, SendInv
<1>5. /\ Len(resultQueue') = Len(resultQueue) + 1 /\ resultQueue'[Len(resultQueue) + 1] = wres[w]
      /\ \A i \in 1..Len(resultQueue) : resultQueue'[i] = resultQueue[i]
      /\ Len(resultQueue) \in Nat
  BY <1>1, <1>2
<1>6. ReadyJobs' \in Seq(Jobs \cup {NoJob}) /\ Append(ReadyJobs, Running[w]) \in Seq(Jobs \cup {NoJob})
  BY <1>1, <1>2, <1>4, <1>5, ViewTypes DEF ReadyJobs
<1>7. Len(ReadyJobs') = Len(resultQueue) + 1 /\ Len(Append(ReadyJobs, Running[w])) = Len(resultQueue) + 1
  BY <1>1, <1>2, <1>4, <1>5, <1>6, ViewTypes DEF ReadyJobs
<1>8. \A i \in 1..(Len(resultQueue) + 1) : ReadyJobs'[i] = Append(ReadyJobs, Running[w])[i]
  BY <1>1, <1>2, <1>4, <1>5, ViewTypes DEF ReadyJobs
<1>9. ReadyJobs' = Append(ReadyJobs, Running[w])
  BY <1>6, <1>7, <1>8
<1>10. UNCHANGED <<WaitingJobs, Filling>>
  BY <1>1 DEF WaitingJobs, Filling
<1> QED
  BY <1>1, <1>2, <1>4, <1>9, <1>10

(* The worker clears a struct that it alone holds.                         *)
LEMMA RecycleEffect ==
  ASSUME OwnInv, NEW w \in Workers, WorkerRecycle(w)
  PROVE  UNCHANGED jobView
<1>1. /\ wpc[w] = "recycle" /\ wpc' = [wpc EXCEPT ![w] = "select"]
      /\ task' = [task EXCEPT ![wtask[w]] = NoJob] /\ wtask' = [wtask EXCEPT ![w] = Nil]
      /\ UNCHANGED <<taskQueue, ctask, result, resultQueue>>
      /\ wtask[w] \in TaskObj /\ wtask[w] # Nil
  BY DEF WorkerRecycle, OwnInv, ControlInv, TypeOK, WorkerInv
<1>2. /\ task \in [TaskObj -> Jobs \cup {NoJob}] /\ wpc = [x \in Workers |-> wpc[x]]
      /\ wtask \in [Workers -> TaskObj \cup {Nil}] /\ ctask \in [Clients -> TaskObj \cup {Nil}]
      /\ taskQueue \in Seq(TaskObj)
  BY DEF OwnInv, ControlInv, TypeOK
<1>3. /\ \A i \in 1..Len(taskQueue) : taskQueue[i] # wtask[w]
      /\ \A x \in Workers : x # w => wtask[x] # wtask[w]
      /\ \A c \in Clients : ctask[c] # wtask[w]
  BY <1>1 DEF OwnInv, OwnTask
<1>4. WaitingJobs' = WaitingJobs
  BY <1>1, <1>2, <1>3 DEF WaitingJobs
<1>5. w \notin BusyWorkers /\ BusyWorkers' = BusyWorkers
  BY <1>1, <1>2 DEF BusyWorkers
<1>6. \A x \in BusyWorkers : x \in Workers /\ task'[wtask'[x]] = task[wtask[x]]
  BY <1>1, <1>2, <1>3, <1>5, ViewTypes DEF BusyWorkers
<1>7. Running' = Running
  BY <1>5, <1>6 DEF Running
<1>8. ReadyJobs' = ReadyJobs
  BY <1>1 DEF ReadyJobs
<1>9. Filling' = Filling
  BY <1>1, <1>2, <1>3 DEF Filling
<1> QED
  BY <1>4, <1>7, <1>8, <1>9 DEF jobView

(* A consumer receives the oldest result.                                  *)
LEMMA ReceiveEffect ==
  ASSUME OwnInv, NEW k \in Consumers, Receive(k)
  PROVE  /\ ReadyJobs # <<>> /\ ReadyJobs' = Tail(ReadyJobs)
         /\ received' = received \cup {Head(ReadyJobs)}
         /\ UNCHANGED <<WaitingJobs, Running, Filling>>
<1>1. /\ resultQueue # <<>> /\ resultQueue' = Tail(resultQueue)
      /\ received' = received \cup {result[Head(resultQueue)]}
      /\ UNCHANGED <<task, taskQueue, ctask, wtask, wpc, result>>
  BY DEF Receive
<1>2. resultQueue \in Seq(ResultObj) /\ result \in [ResultObj -> Jobs \cup {NoJob}]
  BY DEF OwnInv, ControlInv, TypeOK
<1>3. /\ Len(resultQueue) \in Nat \ {0} /\ Len(resultQueue') = Len(resultQueue) - 1
      /\ \A i \in 1..Len(resultQueue') : resultQueue'[i] = resultQueue[i + 1] /\ i + 1 \in 1..Len(resultQueue)
      /\ Head(resultQueue) = resultQueue[1] /\ 1 \in 1..Len(resultQueue) /\ resultQueue' \in Seq(ResultObj)
  BY <1>1, <1>2, PopSeq
<1>4. ReadyJobs # <<>> /\ Head(ReadyJobs) = result[Head(resultQueue)]
  BY <1>3, ViewTypes DEF ReadyJobs
<1>5. /\ Tail(ReadyJobs) \in Seq(Jobs \cup {NoJob}) /\ Len(Tail(ReadyJobs)) = Len(resultQueue) - 1
      /\ \A i \in 1..(Len(resultQueue) - 1) : Tail(ReadyJobs)[i] = ReadyJobs[i + 1]
  BY <1>4, ViewTypes, PopSeq
<1>6. ReadyJobs' \in Seq(Jobs \cup {NoJob}) /\ Len(ReadyJobs') = Len(resultQueue) - 1
  BY <1>1, <1>2, <1>3 DEF ReadyJobs
<1>7. \A i \in 1..(Len(resultQueue) - 1) : ReadyJobs'[i] = Tail(ReadyJobs)[i]
  BY <1>1, <1>3, <1>5 DEF ReadyJobs
<1>8. ReadyJobs' = Tail(ReadyJobs)
  BY <1>5, <1>6, <1>7
<1>9. UNCHANGED <<WaitingJobs, Running, Filling>>
  BY <1>1 DEF WaitingJobs, Running, Filling, BusyWorkers
<1> QED
  BY <1>1, <1>4, <1>8, <1>9

(* RecycleResult clears a struct that the consumer alone holds.            *)
LEMMA RecycleResultEffect ==
  ASSUME OwnInv, NEW k \in Consumers, RecycleResult(k)
  PROVE  /\ UNCHANGED jobView
         /\ SendInv => SendInv'
<1>1. /\ held[k] \in ResultObj /\ held[k] # Nil /\ result' = [result EXCEPT ![held[k]] = NoJob]
      /\ UNCHANGED <<task, taskQueue, wtask, ctask, resultQueue, wpc, wres>>
  BY DEF RecycleResult, OwnInv, ControlInv, TypeOK
<1>2. BusyWorkers' = BusyWorkers
  BY <1>1 DEF BusyWorkers
<1>3. /\ \A i \in 1..Len(resultQueue) : resultQueue[i] # held[k]
      /\ \A x \in Workers : wres[x] # held[k]
  BY <1>1 DEF OwnInv, OwnResult
<1>4. UNCHANGED jobView
  BY <1>1, <1>2, <1>3, WriteResult
<1>5. \A x \in Workers : wpc[x] = "send" => wres[x] \in ResultObj
  BY DEF OwnInv, ControlInv, TypeOK, WorkerInv
<1>6. SendInv => SendInv'
  BY <1>1, <1>3, <1>5 DEF SendInv, OwnInv, ControlInv, TypeOK
<1> QED
  BY <1>4, <1>6

(* The remaining steps touch neither the jobs nor what is known of them.   *)
OtherStep ==
  \/ Start
  \/ \E c \in Clients : SubmitClosed(c)
  \/ \E w \in Workers : WorkerQuit(w)
  \/ \E s \in Stoppers : StopStep(s)
  \/ UNCHANGED vars

(* They leave every view of the jobs alone.                                *)
LEMMA OtherEffect ==
  ASSUME OwnInv, OtherStep
  PROVE  UNCHANGED <<WaitingJobs, Running, ReadyJobs, Filling, accepted, received, offered>> /\ (SendInv => SendInv')
<1>1. UNCHANGED <<task, taskQueue, ctask, wtask, result, resultQueue, wres, accepted, received, offered>>
  BY DEF OtherStep, vars, Start, SubmitClosed, WorkerQuit, StopStep, StopFirst, StopLate, StopUnblocked,
         StopWait, StopCloseResults
<1>2. \A w \in Workers : wpc'[w] = wpc[w] \/ (wpc[w] = "unborn" /\ wpc'[w] = "select")
                                         \/ (wpc[w] = "select" /\ wpc'[w] = "dead")
  BY DEF OtherStep, vars, Start, SubmitClosed, WorkerQuit, StopStep, StopFirst, StopLate, StopUnblocked,
         StopWait, StopCloseResults, OwnInv, ControlInv, TypeOK
<1>3. BusyWorkers' = BusyWorkers
  BY <1>2 DEF BusyWorkers
<1>4. UNCHANGED <<WaitingJobs, Running, ReadyJobs, Filling>>
  BY <1>1, <1>3 DEF WaitingJobs, Running, ReadyJobs, Filling
<1>5. SendInv => SendInv'
  BY <1>1, <1>2 DEF SendInv
<1> QED
  BY <1>1, <1>4, <1>5

(* A result keeps naming its task until it has been sent.                  *)
LEMMA SendStep == OwnInv /\ SendInv /\ [Next]_vars => SendInv'
<1> SUFFICES ASSUME OwnInv, SendInv, [Next]_vars PROVE SendInv'
  OBVIOUS
<1>1. \A w \in Workers : wpc[w] = "send" => wtask[w] \in TaskObj /\ wtask[w] # Nil /\ wres[w] \in ResultObj
  BY DEF OwnInv, ControlInv, TypeOK, WorkerInv
<1>2. ASSUME NEW c \in Clients, NEW j \in Jobs, GetTask(c, j) PROVE SendInv'
  <2>1. PICK o \in TaskPoolGet : task' = [task EXCEPT ![o] = j]
    BY <1>2 DEF GetTask
  <2>2. \A w \in Workers : wtask[w] # o
    BY <2>1 DEF TaskPoolGet, OwnInv, OwnTask
  <2>3. UNCHANGED <<wpc, wtask, wres, result>>
    BY <1>2 DEF GetTask
  <2> QED
    BY <1>1, <2>1, <2>2, <2>3 DEF SendInv, OwnInv, ControlInv, TypeOK
<1>3. ASSUME NEW c \in Clients, SubmitAccepted(c) \/ SubmitFull(c) PROVE SendInv'
  BY <1>3 DEF SubmitAccepted, SubmitFull, SendInv
<1>4. ASSUME NEW w \in Workers, WorkerTake(w) PROVE SendInv'
  <2>1. /\ wpc' = [wpc EXCEPT ![w] = "execute"] /\ UNCHANGED <<task, result, wres>>
        /\ \A x \in Workers : x # w => wtask'[x] = wtask[x]
    BY <1>4 DEF WorkerTake, OwnInv, ControlInv, StopInv, TypeOK
  <2> QED
    BY <2>1 DEF SendInv, OwnInv, ControlInv, TypeOK
<1>5. ASSUME NEW w \in Workers, WorkerFinish(w) PROVE SendInv'
  BY <1>5, FinishEffect
<1>6. ASSUME NEW w \in Workers, WorkerSend(w) PROVE SendInv'
  BY <1>6 DEF WorkerSend, SendInv, OwnInv, ControlInv, TypeOK
<1>7. ASSUME NEW w \in Workers, WorkerRecycle(w) PROVE SendInv'
  <2>1. /\ wpc[w] = "recycle" /\ wpc' = [wpc EXCEPT ![w] = "select"] /\ wtask[w] # Nil
        /\ task' = [task EXCEPT ![wtask[w]] = NoJob] /\ wtask' = [wtask EXCEPT ![w] = Nil]
        /\ UNCHANGED <<result, wres>>
    BY <1>7 DEF WorkerRecycle, OwnInv, ControlInv, WorkerInv
  <2>2. \A x \in Workers : x # w => wtask[x] # wtask[w]
    BY <2>1 DEF OwnInv, OwnTask
  <2> QED
    BY <1>1, <2>1, <2>2 DEF SendInv, OwnInv, ControlInv, TypeOK
<1>8. ASSUME NEW k \in Consumers, Receive(k) PROVE SendInv'
  BY <1>8 DEF Receive, SendInv
<1>9. ASSUME NEW k \in Consumers, RecycleResult(k) PROVE SendInv'
  BY <1>9, RecycleResultEffect
<1>10. CASE OtherStep
  BY <1>10, OtherEffect
<1> QED
  BY <1>2, <1>3, <1>4, <1>5, <1>6, <1>7, <1>8, <1>9, <1>10
     DEF Next, OtherStep, ClientStep, WorkerStep, ConsumerStep

(* Every step moves a job from one place to the next one.                  *)
LEMMA JobStep == OwnInv /\ SendInv /\ JobInv /\ [Next]_vars => JobInv'
<1> SUFFICES ASSUME OwnInv, SendInv, JobInv, [Next]_vars PROVE JobInv'
  OBVIOUS
<1>1. ASSUME UNCHANGED <<WaitingJobs, Running, ReadyJobs, Filling, accepted, received, offered>> PROVE JobInv'
  BY <1>1 DEF JobInv
<1>inj. IsInjective(WaitingJobs) /\ IsInjective(Running) /\ IsInjective(ReadyJobs) /\ IsInjective(Filling)
  BY DEF JobInv
<1>2. ASSUME NEW c \in Clients, NEW j \in Jobs, GetTask(c, j) PROVE JobInv'
  <2>1. j \notin offered /\ offered' = offered \cup {j} /\ UNCHANGED <<accepted, received>>
    BY <1>2 DEF GetTask
  <2>2. j \notin Range(Filling)
    BY <2>1 DEF JobInv
  <2>3. /\ c \notin DOMAIN Filling
        /\ DOMAIN Filling' = DOMAIN Filling \cup {c}
        /\ Filling'[c] = j /\ \A k \in DOMAIN Filling : Filling'[k] = Filling[k]
    BY <1>2, GetTaskEffect
  <2>4. Range(Filling') = Range(Filling) \cup {j} /\ IsInjective(Filling')
    BY <1>inj, <2>2, <2>3, AddView
  <2>5. UNCHANGED <<WaitingJobs, Running, ReadyJobs>>
    BY <1>2, GetTaskEffect
  <2> QED
    BY <2>1, <2>4, <2>5 DEF JobInv
<1>3. ASSUME NEW c \in Clients, SubmitAccepted(c) PROVE JobInv'
  <2>1. /\ c \in DOMAIN Filling /\ DOMAIN Filling' = DOMAIN Filling \ {c}
        /\ \A k \in DOMAIN Filling' : Filling'[k] = Filling[k]
        /\ WaitingJobs' = Append(WaitingJobs, Filling[c]) /\ Filling[c] \in Jobs \cup {NoJob}
        /\ UNCHANGED <<Running, ReadyJobs>>
    BY <1>3, SubmitEffect
  <2>2. accepted' = accepted \cup {Filling[c]} /\ UNCHANGED <<received, offered>>
    BY <1>3, <2>1 DEF SubmitAccepted, Filling
  <2>3. Filling[c] \in Range(Filling) /\ IsInjective(Filling') /\ Range(Filling') = Range(Filling) \ {Filling[c]}
    BY <1>inj, <2>1, RemoveView
  <2>4. Filling[c] \notin Range(WaitingJobs) \cup Range(Running) \cup Range(ReadyJobs) \cup received
    BY <2>3 DEF JobInv
  <2>5. WaitingJobs \in Seq(Jobs \cup {NoJob})
    BY ViewTypes
  <2>6. IsInjective(WaitingJobs') /\ Range(WaitingJobs') = Range(WaitingJobs) \cup {Filling[c]}
    BY <1>inj, <2>1, <2>4, <2>5, AppendView
  <2> QED
    BY <2>1, <2>2, <2>3, <2>4, <2>6 DEF JobInv
<1>4. ASSUME NEW c \in Clients, SubmitFull(c) PROVE JobInv'
  <2>1. /\ c \in DOMAIN Filling /\ DOMAIN Filling' = DOMAIN Filling \ {c}
        /\ \A k \in DOMAIN Filling' : Filling'[k] = Filling[k]
    BY <1>4 DEF SubmitFull, Filling, OwnInv, ControlInv, TypeOK
  <2>2. UNCHANGED <<WaitingJobs, Running, ReadyJobs, accepted, received, offered>>
    BY <1>4 DEF SubmitFull, WaitingJobs, Running, ReadyJobs, BusyWorkers
  <2>3. IsInjective(Filling') /\ Range(Filling') = Range(Filling) \ {Filling[c]}
    BY <1>inj, <2>1, RemoveView
  <2> QED
    BY <2>2, <2>3 DEF JobInv
<1>5. ASSUME NEW w \in Workers, WorkerTake(w) PROVE JobInv'
  <2>1. UNCHANGED <<accepted, received, offered>>
    BY <1>5 DEF WorkerTake
  <2>2. PICK h : h = Head(WaitingJobs)
    OBVIOUS
  <2>3. WaitingJobs # <<>> /\ WaitingJobs' = Tail(WaitingJobs) /\ WaitingJobs \in Seq(Jobs \cup {NoJob})
    BY <1>5, TakeEffect, ViewTypes
  <2>4. h \in Range(WaitingJobs) /\ IsInjective(WaitingJobs') /\ Range(WaitingJobs') = Range(WaitingJobs) \ {h}
    BY <1>inj, <2>2, <2>3, TailView
  <2>5. h \notin Range(Running)
    BY <2>4 DEF JobInv
  <2>6. /\ w \notin DOMAIN Running
        /\ DOMAIN Running' = DOMAIN Running \cup {w}
        /\ Running'[w] = h /\ \A x \in DOMAIN Running : Running'[x] = Running[x]
    BY <1>5, <2>2, TakeEffect
  <2>7. IsInjective(Running') /\ Range(Running') = Range(Running) \cup {h}
    BY <1>inj, <2>5, <2>6, AddView
  <2>8. UNCHANGED <<ReadyJobs, Filling>>
    BY <1>5, TakeEffect
  <2> QED
    BY <2>1, <2>4, <2>7, <2>8 DEF JobInv
<1>6. ASSUME NEW w \in Workers, WorkerSend(w) PROVE JobInv'
  <2>1. UNCHANGED <<accepted, received, offered>>
    BY <1>6 DEF WorkerSend
  <2>2. /\ w \in DOMAIN Running /\ DOMAIN Running' = DOMAIN Running \ {w}
        /\ \A x \in DOMAIN Running' : Running'[x] = Running[x]
        /\ ReadyJobs' = Append(ReadyJobs, Running[w]) /\ Running[w] \in Jobs \cup {NoJob}
        /\ ReadyJobs \in Seq(Jobs \cup {NoJob})
        /\ UNCHANGED <<WaitingJobs, Filling>>
    BY <1>6, SendEffect, ViewTypes
  <2>3. /\ Running[w] \in Range(Running)
        /\ IsInjective(Running') /\ Range(Running') = Range(Running) \ {Running[w]}
    BY <1>inj, <2>2, RemoveView
  <2>4. Running[w] \notin Range(ReadyJobs)
    BY <2>3 DEF JobInv
  <2>5. IsInjective(ReadyJobs') /\ Range(ReadyJobs') = Range(ReadyJobs) \cup {Running[w]}
    BY <1>inj, <2>2, <2>4, AppendView
  <2> QED
    BY <2>1, <2>2, <2>3, <2>5 DEF JobInv
<1>7. ASSUME NEW k \in Consumers, Receive(k) PROVE JobInv'
  <2>1. UNCHANGED <<accepted, offered>>
    BY <1>7 DEF Receive
  <2>2. /\ ReadyJobs # <<>> /\ ReadyJobs' = Tail(ReadyJobs) /\ ReadyJobs \in Seq(Jobs \cup {NoJob})
        /\ received' = received \cup {Head(ReadyJobs)}
        /\ UNCHANGED <<WaitingJobs, Running, Filling>>
    BY <1>7, ReceiveEffect, ViewTypes
  <2>3. /\ Head(ReadyJobs) \in Range(ReadyJobs)
        /\ IsInjective(ReadyJobs') /\ Range(ReadyJobs') = Range(ReadyJobs) \ {Head(ReadyJobs)}
    BY <1>inj, <2>2, TailView
  <2> QED
    BY <2>1, <2>2, <2>3 DEF JobInv
<1>8. ASSUME NEW w \in Workers, WorkerFinish(w) PROVE JobInv'
  BY <1>1, <1>8, FinishEffect DEF WorkerFinish, jobView
<1>9. ASSUME NEW w \in Workers, WorkerRecycle(w) PROVE JobInv'
  BY <1>1, <1>9, RecycleEffect DEF WorkerRecycle, jobView
<1>10. ASSUME NEW k \in Consumers, RecycleResult(k) PROVE JobInv'
  BY <1>1, <1>10, RecycleResultEffect DEF RecycleResult, jobView
<1>11. CASE OtherStep
  BY <1>1, <1>11, OtherEffect
<1> QED
  BY <1>2, <1>3, <1>4, <1>5, <1>6, <1>7, <1>8, <1>9, <1>10, <1>11
     DEF Next, OtherStep, ClientStep, WorkerStep, ConsumerStep

(* A new engine holds no job.                                              *)
LEMMA InitJobs == Init => SendInv /\ JobInv
<1> SUFFICES ASSUME Init PROVE SendInv /\ JobInv
  OBVIOUS
<1>1. SendInv
  BY DEF Init, SendInv
<1>2. DOMAIN WaitingJobs = {} /\ DOMAIN Running = {} /\ DOMAIN ReadyJobs = {} /\ DOMAIN Filling = {}
  BY DEF Init, WaitingJobs, Running, ReadyJobs, Filling, BusyWorkers
<1>3. /\ IsInjective(WaitingJobs) /\ IsInjective(Running) /\ IsInjective(ReadyJobs) /\ IsInjective(Filling)
      /\ Range(WaitingJobs) = {} /\ Range(Running) = {} /\ Range(ReadyJobs) = {} /\ Range(Filling) = {}
  BY <1>2 DEF Range, IsInjective
<1>4. accepted = {} /\ received = {} /\ offered = {}
  BY DEF Init
<1> QED
  BY <1>1, <1>3, <1>4 DEF JobInv

(* The inductive invariant of the service: the pool's control and          *)
(* ownership, and what they mean for the jobs.                             *)
ServiceInv == OwnInv /\ SendInv /\ JobInv

(* The service invariant holds in every reachable state.                   *)
THEOREM ServiceCorrect == Spec => []ServiceInv
<1>1. Init => OwnTask /\ OwnResult /\ SendInv /\ JobInv
  BY InitOwn, InitJobs
<1>2. ControlInv /\ OwnTask /\ OwnResult /\ [Next]_vars => OwnTask' /\ OwnResult'
  BY OwnTaskStep, OwnResultStep
<1>3. ControlInv /\ OwnTask /\ OwnResult /\ SendInv /\ JobInv /\ [Next]_vars => SendInv' /\ JobInv'
  BY SendStep, JobStep DEF OwnInv
<1> QED
  BY <1>1, <1>2, <1>3, ControlCorrect, PTL DEF Spec, ServiceInv, OwnInv

(* A job that is on its way is at one place of the engine's: the pointers  *)
(* that lead to it are as many as the service's views say.                 *)
LEMMA PlaceOf ==
  ASSUME ServiceInv, NEW j \in Jobs, NEW p \in Places(j)
  PROVE  \/ p = <<"waiting", p[2]>> /\ p[2] \in DOMAIN WaitingJobs /\ WaitingJobs[p[2]] = j
         \/ /\ p = <<"running", p[2]>> /\ wpc[p[2]] = "execute"
            /\ p[2] \in DOMAIN Running /\ Running[p[2]] = j
         \/ /\ p = <<"sending", p[2]>> /\ wpc[p[2]] = "send"
            /\ p[2] \in DOMAIN Running /\ Running[p[2]] = j
         \/ p = <<"ready", p[2]>> /\ p[2] \in DOMAIN ReadyJobs /\ ReadyJobs[p[2]] = j
         \/ p = <<"received", j>> /\ j \in received
<1>1. DOMAIN taskQueue = 1..Len(taskQueue) /\ DOMAIN resultQueue = 1..Len(resultQueue)
  BY DEF ServiceInv, OwnInv, ControlInv, TypeOK
<1>2. CASE p \in {"waiting"} \X {i \in DOMAIN taskQueue : task[taskQueue[i]] = j}
  BY <1>1, <1>2 DEF WaitingJobs
<1>3. CASE p \in {"running"} \X {w \in Workers : wpc[w] = "execute" /\ task[wtask[w]] = j}
  BY <1>3 DEF Running, BusyWorkers
<1>4. CASE p \in {"sending"} \X {w \in Workers : wpc[w] = "send" /\ result[wres[w]] = j}
  BY <1>4 DEF Running, BusyWorkers, ServiceInv, SendInv
<1>5. CASE p \in {"ready"} \X {i \in DOMAIN resultQueue : result[resultQueue[i]] = j}
  BY <1>1, <1>5 DEF ReadyJobs
<1>6. CASE p \in {"received"} \X (received \cap {j})
  BY <1>6
<1> QED
  BY <1>2, <1>3, <1>4, <1>5, <1>6 DEF Places

(* Every accepted job has a place.                                         *)
LEMMA HasPlace ==
  ASSUME ServiceInv, NEW j \in Jobs, j \in accepted
  PROVE  Places(j) # {}
<1>1. DOMAIN taskQueue = 1..Len(taskQueue) /\ DOMAIN resultQueue = 1..Len(resultQueue)
  BY DEF ServiceInv, OwnInv, ControlInv, TypeOK
<1>2. j \in Range(WaitingJobs) \cup Range(Running) \cup Range(ReadyJobs) \cup received
  BY DEF ServiceInv, JobInv
<1>3. CASE j \in Range(WaitingJobs)
  <2>1. PICK i \in DOMAIN WaitingJobs : WaitingJobs[i] = j
    BY <1>3 DEF Range
  <2>2. i \in DOMAIN taskQueue /\ task[taskQueue[i]] = j
    BY <1>1, <2>1 DEF WaitingJobs
  <2>3. <<"waiting", i>> \in {"waiting"} \X {k \in DOMAIN taskQueue : task[taskQueue[k]] = j}
    BY <2>2
  <2> QED
    BY <2>3 DEF Places
<1>4. CASE j \in Range(Running)
  <2>1. PICK w \in DOMAIN Running : Running[w] = j
    BY <1>4 DEF Range
  <2>2. w \in Workers /\ wpc[w] \in {"execute", "send"} /\ task[wtask[w]] = j
    BY <2>1 DEF Running, BusyWorkers
  <2>3. CASE wpc[w] = "execute"
    <3>1. <<"running", w>> \in {"running"} \X {x \in Workers : wpc[x] = "execute" /\ task[wtask[x]] = j}
      BY <2>2, <2>3
    <3> QED
      BY <3>1 DEF Places
  <2>4. CASE wpc[w] = "send"
    <3>1. <<"sending", w>> \in {"sending"} \X {x \in Workers : wpc[x] = "send" /\ result[wres[x]] = j}
      BY <2>2, <2>4 DEF ServiceInv, SendInv
    <3> QED
      BY <3>1 DEF Places
  <2> QED
    BY <2>2, <2>3, <2>4
<1>5. CASE j \in Range(ReadyJobs)
  <2>1. PICK i \in DOMAIN ReadyJobs : ReadyJobs[i] = j
    BY <1>5 DEF Range
  <2>2. i \in DOMAIN resultQueue /\ result[resultQueue[i]] = j
    BY <1>1, <2>1 DEF ReadyJobs
  <2>3. <<"ready", i>> \in {"ready"} \X {k \in DOMAIN resultQueue : result[resultQueue[k]] = j}
    BY <2>2
  <2> QED
    BY <2>3 DEF Places
<1>6. CASE j \in received
  <2>1. <<"received", j>> \in {"received"} \X (received \cap {j})
    BY <1>6
  <2> QED
    BY <2>1 DEF Places
<1> QED
  BY <1>2, <1>3, <1>4, <1>5, <1>6

(* No accepted job is lost, executed twice or delivered twice, and no      *)
(* refused one is executed (core/event_loop.go, Submit to RecycleResult),  *)
(* whatever the numbers of goroutines and the queue sizes.                 *)
THEOREM JobsAccounted == Spec => []Accounted
<1>1. ServiceInv => Accounted
  <2> SUFFICES ASSUME ServiceInv PROVE Accounted
    OBVIOUS
  <2>1. ASSUME NEW j \in Jobs, NEW p \in Places(j)
        PROVE  /\ p[1] = "waiting" => j \in Range(WaitingJobs)
               /\ p[1] \in {"running", "sending"} => j \in Range(Running)
               /\ p[1] = "ready" => j \in Range(ReadyJobs)
               /\ p[1] = "received" => j \in received
               /\ p[1] \in {"waiting", "running", "sending", "ready", "received"}
    BY PlaceOf DEF Range
  <2>2. ASSUME NEW j \in Jobs, NEW p \in Places(j) PROVE j \in accepted
    BY <2>1 DEF ServiceInv, JobInv
  <2>3. ASSUME NEW j \in Jobs, NEW p \in Places(j), NEW q \in Places(j) PROVE p = q
    <3>1. \/ p[1] = q[1]
          \/ p[1] \in {"running", "sending"} /\ q[1] \in {"running", "sending"}
      BY <2>1 DEF ServiceInv, JobInv
    <3>2. IsInjective(WaitingJobs) /\ IsInjective(Running) /\ IsInjective(ReadyJobs)
      BY DEF ServiceInv, JobInv
    <3> QED
      BY <3>1, <3>2, PlaceOf DEF IsInjective
  <2>4. ASSUME NEW j \in Jobs, j \in accepted PROVE \E p \in Places(j) : Places(j) = {p}
    <3>1. PICK p \in Places(j) : TRUE
      BY <2>4, HasPlace
    <3>2. Places(j) = {p}
      BY <2>3
    <3> QED
      BY <3>2
  <2>5. ASSUME NEW j \in Jobs, j \notin accepted PROVE Places(j) = {}
    BY <2>2, <2>5
  <2> QED
    BY <2>4, <2>5 DEF Accounted, ServiceInv, JobInv
<1> QED
  BY <1>1, ServiceCorrect, PTL

-----------------------------------------------------------------------------
(* The workers suffice: a worker that takes a job makes one more job       *)
(* running than there were, and no more than there are workers.            *)
LEMMA RunningBound ==
  ASSUME ServiceInv, NEW w \in Workers, wpc[w] = "select"
  PROVE  Cardinality(RunningJobs) < Cardinality(Workers)
<1>1. w \notin BusyWorkers /\ BusyWorkers \subseteq Workers \ {w}
  BY DEF BusyWorkers
<1>2. IsFiniteSet(Workers \ {w}) /\ Cardinality(Workers \ {w}) = Cardinality(Workers) - 1
  BY WorkersAssumption, FS_RemoveElement
<1>3. IsFiniteSet(BusyWorkers) /\ Cardinality(BusyWorkers) <= Cardinality(Workers \ {w})
  BY <1>1, <1>2, FS_Subset
<1>4. Running \in Surjection(BusyWorkers, RunningJobs)
  BY DEF Running, RunningJobs, Surjection
<1>5. IsFiniteSet(RunningJobs) /\ Cardinality(RunningJobs) <= Cardinality(BusyWorkers)
  BY <1>3, <1>4, FS_Surjection
<1>6. Cardinality(RunningJobs) \in Nat /\ Cardinality(BusyWorkers) \in Nat /\ Cardinality(Workers) \in Nat
  BY <1>3, <1>5, WorkersAssumption, FS_CardinalityType
<1> QED
  BY <1>2, <1>3, <1>5, <1>6

(* Each step of the pool is a step of the service or changes nothing that  *)
(* the service shows.                                                      *)
LEMMA ServiceStep == ServiceInv /\ [Next]_vars => [Service!Next]_(Service!vars)
<1> SUFFICES ASSUME ServiceInv, [Next]_vars PROVE [Service!Next]_(Service!vars)
  OBVIOUS
<1>0. OwnInv /\ SendInv /\ JobInv /\ RunningJobs = Range(Running) /\ RunningJobs' = Range(Running')
  BY DEF ServiceInv, RunningJobs, Running, Range
<1>1. ASSUME UNCHANGED <<WaitingJobs, Running, ReadyJobs, accepted, received, closed>>
      PROVE  [Service!Next]_(Service!vars)
  <2>1. UNCHANGED <<RunningJobs, Mode>>
    BY <1>0, <1>1 DEF Mode
  <2> QED
    BY <1>1, <2>1 DEF Service!vars
<1>2. ASSUME NEW c \in Clients, NEW j \in Jobs, GetTask(c, j) PROVE [Service!Next]_(Service!vars)
  BY <1>0, <1>1, <1>2, GetTaskEffect DEF GetTask
<1>3. ASSUME NEW c \in Clients, SubmitAccepted(c) PROVE [Service!Next]_(Service!vars)
  <2> DEFINE j == Filling[c]
  <2>1. /\ c \in DOMAIN Filling /\ WaitingJobs' = Append(WaitingJobs, j)
        /\ UNCHANGED <<Running, ReadyJobs>>
    BY <1>0, <1>3, SubmitEffect
  <2>2. accepted' = accepted \cup {j} /\ UNCHANGED <<received, closed>> /\ "taskQueue" \notin closed
    BY <1>3, <2>1 DEF SubmitAccepted, Filling
  <2>3. j \in Range(Filling)
    BY <2>1 DEF Range
  <2>4. j \in Jobs /\ j \notin accepted
    BY <1>0, <2>3 DEF JobInv, OwnInv, ControlInv, TypeOK
  <2>5. Len(WaitingJobs) < QueueSize
    BY <1>0, <1>3, ViewTypes DEF SubmitAccepted
  <2>6. UNCHANGED <<RunningJobs, Mode>> /\ Mode # "stopped"
    BY <1>0, <2>1, <2>2 DEF Mode
  <2> HIDE DEF j
  <2>7. Service!Accept(j)
    BY <2>1, <2>2, <2>4, <2>5, <2>6 DEF Service!Accept
  <2> QED
    BY <2>4, <2>7 DEF Service!Next
<1>4. ASSUME NEW w \in Workers, WorkerTake(w) PROVE [Service!Next]_(Service!vars)
  <2>1. PICK h : h = Head(WaitingJobs)
    OBVIOUS
  <2>2. WaitingJobs # <<>> /\ WaitingJobs' = Tail(WaitingJobs) /\ WaitingJobs \in Seq(Jobs \cup {NoJob})
    BY <1>0, <1>4, TakeEffect, ViewTypes
  <2>3. h \in Range(WaitingJobs)
    BY <2>1, <2>2, TailView
  <2>4. h \notin RunningJobs
    BY <1>0, <2>3 DEF JobInv
  <2>5. /\ w \notin DOMAIN Running
        /\ DOMAIN Running' = DOMAIN Running \cup {w}
        /\ Running'[w] = h /\ \A x \in DOMAIN Running : Running'[x] = Running[x]
    BY <1>0, <1>4, <2>1, TakeEffect
  <2>6. Range(Running') = Range(Running) \cup {h}
    BY <2>5 DEF Range
  <2>7. RunningJobs' = RunningJobs \cup {h}
    BY <1>0, <2>6
  <2>8. UNCHANGED <<ReadyJobs, accepted, received, closed>>
    BY <1>0, <1>4, TakeEffect DEF WorkerTake
  <2>9. UNCHANGED Mode /\ Mode # "stopped"
    BY <1>0, <1>4, <2>8 DEF Mode, WorkerTake, OwnInv, ControlInv, StopInv
  <2>10. Cardinality(RunningJobs) < Cardinality(Workers)
    BY <1>4, RunningBound DEF WorkerTake
  <2>11. Service!Cardinality(RunningJobs) = Cardinality(RunningJobs)
    BY DEF Cardinality, Service!Cardinality, IsFiniteSet, Service!IsFiniteSet
  <2>12. Service!Begin
    BY <2>1, <2>11, <2>2, <2>4, <2>7, <2>8, <2>9, <2>10 DEF Service!Begin
  <2> QED
    BY <2>12 DEF Service!Next
<1>5. ASSUME NEW w \in Workers, WorkerSend(w) PROVE [Service!Next]_(Service!vars)
  <2> DEFINE j == Running[w]
  <2>1. /\ w \in DOMAIN Running /\ DOMAIN Running' = DOMAIN Running \ {w}
        /\ \A x \in DOMAIN Running' : Running'[x] = Running[x]
    BY <1>0, <1>5, SendEffect
  <2>2. IsInjective(Running)
    BY <1>0 DEF JobInv
  <2>3. j \in Range(Running) /\ Range(Running') = Range(Running) \ {j}
    BY <2>1, <2>2 DEF Range, IsInjective
  <2>4. ReadyJobs' = Append(ReadyJobs, j) /\ UNCHANGED WaitingJobs /\ Len(ReadyJobs) < QueueSize
    BY <1>0, <1>5, SendEffect, ViewTypes
  <2>5. UNCHANGED <<accepted, received, Mode>>
    BY <1>5 DEF WorkerSend, Mode
  <2>6. j \in Jobs
    BY <1>0, <2>3 DEF JobInv, OwnInv, ControlInv, TypeOK
  <2> HIDE DEF j
  <2>7. Service!Finish(j)
    BY <1>0, <2>3, <2>4, <2>5 DEF Service!Finish
  <2> QED
    BY <2>6, <2>7 DEF Service!Next
<1>6. ASSUME NEW k \in Consumers, Receive(k) PROVE [Service!Next]_(Service!vars)
  <2>1. /\ ReadyJobs # <<>> /\ ReadyJobs' = Tail(ReadyJobs) /\ ReadyJobs \in Seq(Jobs \cup {NoJob})
        /\ received' = received \cup {Head(ReadyJobs)}
        /\ UNCHANGED <<WaitingJobs, Running>>
    BY <1>0, <1>6, ReceiveEffect, ViewTypes
  <2>2. Head(ReadyJobs) \in Range(ReadyJobs)
    BY <2>1, TailView
  <2>3. Head(ReadyJobs) \notin received
    BY <1>0, <2>2 DEF JobInv
  <2>4. UNCHANGED <<accepted, RunningJobs, Mode>>
    BY <1>0, <1>6, <2>1 DEF Receive, Mode
  <2>5. Service!Deliver
    BY <2>1, <2>3, <2>4 DEF Service!Deliver
  <2> QED
    BY <2>5 DEF Service!Next
<1>7. ASSUME NEW c \in Clients, SubmitFull(c) PROVE [Service!Next]_(Service!vars)
  BY <1>1, <1>7 DEF SubmitFull, WaitingJobs, Running, ReadyJobs, BusyWorkers
<1>8. ASSUME NEW w \in Workers, WorkerFinish(w) PROVE [Service!Next]_(Service!vars)
  BY <1>0, <1>1, <1>8, FinishEffect DEF WorkerFinish, jobView
<1>9. ASSUME NEW w \in Workers, WorkerRecycle(w) PROVE [Service!Next]_(Service!vars)
  BY <1>0, <1>1, <1>9, RecycleEffect DEF WorkerRecycle, jobView
<1>10. ASSUME NEW k \in Consumers, RecycleResult(k) PROVE [Service!Next]_(Service!vars)
  BY <1>0, <1>1, <1>10, RecycleResultEffect DEF RecycleResult, jobView
<1>11. CASE OtherStep
  <2>1. UNCHANGED <<WaitingJobs, Running, ReadyJobs, accepted, received>>
    BY <1>0, <1>11, OtherEffect
  <2>2. UNCHANGED RunningJobs
    BY <1>0, <2>1
  <2>3. ASSUME NEW s \in Stoppers, StopFirst(s) PROVE Service!BeginStop
    <3>1. Mode = "open" /\ Mode' = "stopping"
      BY <1>0, <2>3 DEF StopFirst, Close, Mode, OwnInv, ControlInv, StopInv
    <3> QED
      BY <2>1, <2>2, <3>1 DEF Service!BeginStop
  <2>4. ASSUME NEW s \in Stoppers, StopWait(s) PROVE Service!CompleteStop
    <3>1. closed = {"quit"} /\ closed' = {"quit", "taskQueue"}
      BY <1>0, <2>4 DEF StopWait, Close, OwnInv, ControlInv, StopInv
    <3>2. Mode = "stopping" /\ Mode' = "stopped"
      BY <3>1 DEF Mode
    <3>3. Alive = {}
      BY <1>0, <2>4, WgZero DEF StopWait, OwnInv
    <3>4. RunningJobs = {}
      BY <3>3 DEF Alive, RunningJobs, BusyWorkers
    <3> QED
      BY <2>1, <2>2, <3>2, <3>4 DEF Service!CompleteStop
  <2>5. ASSUME NEW s \in Stoppers, StopCloseResults(s) PROVE [Service!Next]_(Service!vars)
    <3>1. UNCHANGED Mode
      BY <2>5 DEF StopCloseResults, Close, Mode
    <3> QED
      BY <2>1, <2>2, <3>1 DEF Service!vars
  <2>6. CASE UNCHANGED closed
    BY <1>1, <2>1, <2>6
  <2>7. \/ \E s \in Stoppers : StopFirst(s) \/ StopWait(s) \/ StopCloseResults(s)
        \/ UNCHANGED closed
    BY <1>11 DEF OtherStep, vars, Start, SubmitClosed, WorkerQuit, StopStep, StopLate, StopUnblocked
  <2> QED
    BY <2>3, <2>4, <2>5, <2>6, <2>7 DEF Service!Next
<1> QED
  BY <1>2, <1>3, <1>4, <1>5, <1>6, <1>7, <1>8, <1>9, <1>10, <1>11
     DEF Next, OtherStep, ClientStep, WorkerStep, ConsumerStep

(* The worker pool implements TaskService for every instance: first come,  *)
(* first served, each job run once by one of the workers, results in the   *)
(* order they were finished, and nothing after Stop has closed the queues. *)
THEOREM EngineImplementsService == Spec => ImplementsService
<1>1. Init => Service!Init
  <2> SUFFICES ASSUME Init PROVE Service!Init
    OBVIOUS
  <2>1. WaitingJobs = <<>> /\ ReadyJobs = <<>> /\ RunningJobs = {} /\ Mode = "open"
    BY DEF Init, WaitingJobs, ReadyJobs, RunningJobs, BusyWorkers, Mode
  <2> QED
    BY <2>1 DEF Init, Service!Init
<1>2. ServiceInv /\ [Next]_vars => [Service!Next]_(Service!vars)
  BY ServiceStep
<1> QED
  BY <1>1, <1>2, ServiceCorrect, PTL DEF Spec, ImplementsService, Service!Spec

=============================================================================
