------------------------------- MODULE Engine -------------------------------
(***************************************************************************)
(* The worker pool of core/event_loop.go.  Clients take a Task from a      *)
(* sync.Pool, fill it and offer it to a bounded channel; workers take      *)
(* tasks, execute them and send a pooled Result on a second bounded        *)
(* channel; consumers receive the results and recycle them; Stop closes    *)
(* quit, waits for the workers and closes both channels.                   *)
(*                                                                         *)
(* Tasks and Results are passed by pointer and reused, so the model keeps  *)
(* a heap of Task objects and a heap of Result objects: what a pointer     *)
(* holder sees is what the heap says at that moment.  The text of a task   *)
(* (ID, System, Input) is one value, the job it stands for; a scrubbed     *)
(* object holds NoJob.  What executeEphemeral computes is the subject of   *)
(* module AgentLoop.                                                       *)
(***************************************************************************)
EXTENDS Naturals, Sequences, FiniteSets

CONSTANTS
  Jobs,       \* what clients ask for: the text of a task, submitted once each
  TaskObj,    \* addresses of Task structs
  ResultObj,  \* addresses of Result structs
  Workers,    \* worker goroutines started by Start
  Clients,    \* goroutines that call GetTask and Submit
  Consumers,  \* goroutines that receive from Results()
  Stoppers,   \* goroutines that call Stop
  QueueSize,  \* capacity of taskQueue and of resultQueue
  Nil,        \* the nil pointer
  NoJob       \* the empty strings of a scrubbed or zero struct

ASSUME QueueSizeAssumption == QueueSize \in Nat \ {0}
ASSUME NilAssumption == Nil \notin TaskObj \cup ResultObj
ASSUME NoJobAssumption == NoJob \notin Jobs
ASSUME WorkersAssumption == IsFiniteSet(Workers) /\ Workers # {}

VARIABLES
  task,        \* heap of Task structs
  taskNew,     \* Task addresses not yet allocated
  taskPool,    \* Task addresses in e.taskPool
  taskQueue,   \* e.taskQueue
  result,      \* heap of Result structs
  resultNew,   \* Result addresses not yet allocated
  resultPool,  \* Result addresses in e.resultPool
  resultQueue, \* e.resultQueue
  closed,      \* the channels that are closed
  wg,          \* the counter of e.wg
  stopOnce,    \* e.stopOnce: "new", "running" or "done"
  wpc,         \* where each worker is in its loop
  wtask,       \* variable t of each worker
  wres,        \* variable res of each worker
  ctask,         \* the task each client holds, Nil if none
  held,        \* the result each consumer holds, Nil if none
  spc,         \* where each caller of Stop is
  panic,       \* what brought the process down, "none" while it is up
  offered,     \* history: jobs put into a task by a client
  accepted,    \* history: jobs for which Submit returned nil
  received     \* history: jobs whose result a consumer received

taskVars   == <<task, taskNew, taskPool, taskQueue>>
resultVars == <<result, resultNew, resultPool, resultQueue>>
stopVars   == <<closed, stopOnce, spc>>
workerVars == <<wg, wpc, wtask, wres>>
userVars   == <<ctask, held>>
history    == <<offered, accepted, received>>
vars == <<taskVars, resultVars, stopVars, workerVars, userVars, panic, history>>

Channels == {"quit", "taskQueue", "resultQueue"}

(* A panic in any goroutine ends the process: no action is enabled then.   *)
Up == panic = "none"

-----------------------------------------------------------------------------
(* NewEngine: empty channels and pools, no worker.                         *)
Init ==
  /\ task = [o \in TaskObj |-> NoJob]
  /\ taskNew = TaskObj
  /\ taskPool = {}
  /\ taskQueue = <<>>
  /\ result = [o \in ResultObj |-> NoJob]
  /\ resultNew = ResultObj
  /\ resultPool = {}
  /\ resultQueue = <<>>
  /\ closed = {}
  /\ wg = 0
  /\ stopOnce = "new"
  /\ wpc = [w \in Workers |-> "unborn"]
  /\ wtask = [w \in Workers |-> Nil]
  /\ wres = [w \in Workers |-> Nil]
  /\ ctask = [c \in Clients |-> Nil]
  /\ held = [c \in Consumers |-> Nil]
  /\ spc = [s \in Stoppers |-> "idle"]
  /\ panic = "none"
  /\ offered = {}
  /\ accepted = {}
  /\ received = {}

-----------------------------------------------------------------------------
(* Start: wg.Add(1) and a goroutine for each worker.  The owner of the     *)
(* engine calls it once, before Stop (cmd/aether/main.go).                 *)
Start ==
  /\ Up
  /\ stopOnce = "new"
  /\ \A w \in Workers : wpc[w] = "unborn"
  /\ wg' = wg + Cardinality(Workers)
  /\ wpc' = [w \in Workers |-> "select"]
  /\ UNCHANGED <<taskVars, resultVars, stopVars, wtask, wres, userVars, panic, history>>

(* sync.Pool.Get returns some pooled object or, from New, a zero one.      *)
TaskPoolGet == taskPool \cup taskNew

ResultPoolGet == resultPool \cup resultNew

(* GetTask, and the client filling in the struct for job j.                *)
GetTask(c, j) ==
  /\ Up
  /\ ctask[c] = Nil
  /\ j \in Jobs \ offered
  /\ \E o \in TaskPoolGet :
       /\ taskPool' = taskPool \ {o}
       /\ taskNew' = taskNew \ {o}
       /\ task' = [task EXCEPT ![o] = j]
       /\ ctask' = [ctask EXCEPT ![c] = o]
  /\ offered' = offered \cup {j}
  /\ UNCHANGED <<taskQueue, resultVars, stopVars, workerVars, held, panic, accepted, received>>

(* Submit's send succeeds: the channel is open and has room.               *)
SubmitAccepted(c) ==
  /\ Up
  /\ ctask[c] # Nil
  /\ "taskQueue" \notin closed
  /\ Len(taskQueue) < QueueSize
  /\ taskQueue' = Append(taskQueue, ctask[c])
  /\ accepted' = accepted \cup {task[ctask[c]]}
  /\ ctask' = [ctask EXCEPT ![c] = Nil]
  /\ UNCHANGED <<task, taskNew, taskPool, resultVars, stopVars, workerVars, held, panic, offered, received>>

(* Submit returns ErrQueueFull and the client gives the task up to the     *)
(* garbage collector.  A client that retries has not taken this step yet.  *)
SubmitFull(c) ==
  /\ Up
  /\ ctask[c] # Nil
  /\ "taskQueue" \notin closed
  /\ Len(taskQueue) = QueueSize
  /\ ctask' = [ctask EXCEPT ![c] = Nil]
  /\ UNCHANGED <<taskVars, resultVars, stopVars, workerVars, held, panic, history>>

(* A send on a closed channel panics, in a select with a default too.      *)
SubmitClosed(c) ==
  /\ Up
  /\ ctask[c] # Nil
  /\ "taskQueue" \in closed
  /\ panic' = "submit"
  /\ UNCHANGED <<taskVars, resultVars, stopVars, workerVars, userVars, history>>

-----------------------------------------------------------------------------
(* Operators whose name ends in _Bug are mistakes the properties below are *)
(* tested against; no specification uses them.                             *)

(* wg.Done is forgotten *)
WorkerQuit_NoDoneBug(w) ==
  /\ Up
  /\ wpc[w] = "select"
  /\ "quit" \in closed
  /\ wpc' = [wpc EXCEPT ![w] = "dead"]
  /\ UNCHANGED <<taskVars, resultVars, stopVars, wg, wtask, wres, userVars, panic, history>>

(* The select of worker: either ready case may be chosen.                  *)
WorkerQuit(w) ==
  /\ Up
  /\ wpc[w] = "select"
  /\ "quit" \in closed
  /\ wpc' = [wpc EXCEPT ![w] = "dead"]
  /\ wg' = wg - 1
  /\ UNCHANGED <<taskVars, resultVars, stopVars, wtask, wres, userVars, panic, history>>

(* A receive from a closed, empty taskQueue yields a nil task, and t.ID is *)
(* a nil dereference.                                                      *)
WorkerTake(w) ==
  /\ Up
  /\ wpc[w] = "select"
  /\ taskQueue # <<>> \/ "taskQueue" \in closed
  /\ IF taskQueue = <<>>
     THEN panic' = "worker" /\ UNCHANGED <<taskQueue, wtask, wpc>>
     ELSE /\ wtask' = [wtask EXCEPT ![w] = Head(taskQueue)]
          /\ taskQueue' = Tail(taskQueue)
          /\ wpc' = [wpc EXCEPT ![w] = "execute"]
          /\ UNCHANGED panic
  /\ UNCHANGED <<task, taskNew, taskPool, resultVars, stopVars, wg, wres, userVars, history>>

(* the task goes back to the pool as soon as it was executed *)
WorkerFinish_EarlyPutBug(w) ==
  /\ Up
  /\ wpc[w] = "execute"
  /\ \E o \in ResultPoolGet :
       /\ resultPool' = resultPool \ {o}
       /\ resultNew' = resultNew \ {o}
       /\ result' = [result EXCEPT ![o] = task[wtask[w]]]
       /\ wres' = [wres EXCEPT ![w] = o]
  /\ taskPool' = taskPool \cup {wtask[w]}
  /\ wpc' = [wpc EXCEPT ![w] = "send"]
  /\ UNCHANGED <<task, taskNew, taskQueue, resultQueue, stopVars, wg, wtask, userVars, panic, history>>

(* executeEphemeral returned: GetResult, and the worker filling it in from *)
(* the task it still holds.                                                *)
WorkerFinish(w) ==
  /\ Up
  /\ wpc[w] = "execute"
  /\ \E o \in ResultPoolGet :
       /\ resultPool' = resultPool \ {o}
       /\ resultNew' = resultNew \ {o}
       /\ result' = [result EXCEPT ![o] = task[wtask[w]]]
       /\ wres' = [wres EXCEPT ![w] = o]
  /\ wpc' = [wpc EXCEPT ![w] = "send"]
  /\ UNCHANGED <<taskVars, resultQueue, stopVars, wg, wtask, userVars, panic, history>>

(* a select with a default drops the result when the channel is full *)
WorkerSend_DropBug(w) ==
  /\ Up
  /\ wpc[w] = "send"
  /\ resultQueue' = IF Len(resultQueue) < QueueSize
                    THEN Append(resultQueue, wres[w]) ELSE resultQueue
  /\ wres' = [wres EXCEPT ![w] = Nil]
  /\ wpc' = [wpc EXCEPT ![w] = "recycle"]
  /\ UNCHANGED <<taskVars, result, resultNew, resultPool, stopVars, wg, wtask, userVars, panic, history>>

(* resultQueue <- res blocks while the channel is full, whatever quit      *)
(* says, and panics on a closed channel.                                   *)
WorkerSend(w) ==
  /\ Up
  /\ wpc[w] = "send"
  /\ Len(resultQueue) < QueueSize \/ "resultQueue" \in closed
  /\ panic' = IF "resultQueue" \in closed THEN "worker" ELSE panic
  /\ resultQueue' = Append(resultQueue, wres[w])
  /\ wres' = [wres EXCEPT ![w] = Nil]
  /\ wpc' = [wpc EXCEPT ![w] = "recycle"]
  /\ UNCHANGED <<taskVars, result, resultNew, resultPool, stopVars, wg, wtask, userVars, history>>

(* The worker clears the task and puts it back in the pool.                *)
WorkerRecycle(w) ==
  /\ Up
  /\ wpc[w] = "recycle"
  /\ task' = [task EXCEPT ![wtask[w]] = NoJob]
  /\ taskPool' = taskPool \cup {wtask[w]}
  /\ wtask' = [wtask EXCEPT ![w] = Nil]
  /\ wpc' = [wpc EXCEPT ![w] = "select"]
  /\ UNCHANGED <<taskNew, taskQueue, resultVars, stopVars, wg, wres, userVars, panic, history>>

-----------------------------------------------------------------------------
(* A consumer receives from Results().                                     *)
Receive(c) ==
  /\ Up
  /\ held[c] = Nil
  /\ resultQueue # <<>>
  /\ held' = [held EXCEPT ![c] = Head(resultQueue)]
  /\ resultQueue' = Tail(resultQueue)
  /\ received' = received \cup {result[Head(resultQueue)]}
  /\ UNCHANGED <<taskVars, result, resultNew, resultPool, stopVars, workerVars, ctask, panic, offered, accepted>>

(* RecycleResult scrubs the struct and puts it back in the pool.           *)
RecycleResult(c) ==
  /\ Up
  /\ held[c] # Nil
  /\ result' = [result EXCEPT ![held[c]] = NoJob]
  /\ resultPool' = resultPool \cup {held[c]}
  /\ held' = [held EXCEPT ![c] = Nil]
  /\ UNCHANGED <<taskVars, resultNew, resultQueue, stopVars, workerVars, ctask, panic, history>>

-----------------------------------------------------------------------------
(* close of a channel panics when it is closed already.                    *)
Close(ch) ==
  /\ closed' = closed \cup {ch}
  /\ panic' = IF ch \in closed THEN "close" ELSE panic

(* stopOnce.Do runs the shutdown in the first caller and holds the others  *)
(* until it has finished.                                                  *)
StopFirst(s) ==
  /\ Up
  /\ spc[s] = "idle"
  /\ \A w \in Workers : wpc[w] # "unborn"
  /\ stopOnce = "new"
  /\ stopOnce' = "running"
  /\ Close("quit")
  /\ spc' = [spc EXCEPT ![s] = "wait"]
  /\ UNCHANGED <<taskVars, resultVars, workerVars, userVars, history>>

StopLate(s) ==
  /\ Up
  /\ spc[s] = "idle"
  /\ stopOnce # "new"
  /\ spc' = [spc EXCEPT ![s] = "blocked"]
  /\ UNCHANGED <<taskVars, resultVars, closed, stopOnce, workerVars, userVars, panic, history>>

(* a flag instead of sync.Once: late callers do not wait *)
StopUnblocked_FlagBug(s) ==
  /\ Up
  /\ spc[s] = "blocked"
  /\ spc' = [spc EXCEPT ![s] = "returned"]
  /\ UNCHANGED <<taskVars, resultVars, closed, stopOnce, workerVars, userVars, panic, history>>

StopUnblocked(s) ==
  /\ Up
  /\ spc[s] = "blocked"
  /\ stopOnce = "done"
  /\ spc' = [spc EXCEPT ![s] = "returned"]
  /\ UNCHANGED <<taskVars, resultVars, closed, stopOnce, workerVars, userVars, panic, history>>

(* the queues are closed without waiting for the workers *)
StopWait_NoWaitBug(s) ==
  /\ Up
  /\ spc[s] = "wait"
  /\ Close("taskQueue")
  /\ spc' = [spc EXCEPT ![s] = "closeResults"]
  /\ UNCHANGED <<taskVars, resultVars, stopOnce, workerVars, userVars, history>>

(* wg.Wait() returns, then close(taskQueue).                               *)
StopWait(s) ==
  /\ Up
  /\ spc[s] = "wait"
  /\ wg = 0
  /\ Close("taskQueue")
  /\ spc' = [spc EXCEPT ![s] = "closeResults"]
  /\ UNCHANGED <<taskVars, resultVars, stopOnce, workerVars, userVars, history>>

StopCloseResults(s) ==
  /\ Up
  /\ spc[s] = "closeResults"
  /\ Close("resultQueue")
  /\ stopOnce' = "done"
  /\ spc' = [spc EXCEPT ![s] = "returned"]
  /\ UNCHANGED <<taskVars, resultVars, workerVars, userVars, history>>

-----------------------------------------------------------------------------
ClientStep(c) ==
  \/ \E j \in Jobs : GetTask(c, j)
  \/ SubmitAccepted(c)
  \/ SubmitFull(c)
  \/ SubmitClosed(c)

ConsumerStep(c) == Receive(c) \/ RecycleResult(c)

WorkerStep(w) ==
  \/ WorkerQuit(w)
  \/ WorkerTake(w)
  \/ WorkerFinish(w)
  \/ WorkerSend(w)
  \/ WorkerRecycle(w)

StopStep(s) ==
  \/ StopFirst(s)
  \/ StopLate(s)
  \/ StopUnblocked(s)
  \/ StopWait(s)
  \/ StopCloseResults(s)

Next ==
  \/ Start
  \/ \E c \in Clients : ClientStep(c)
  \/ \E w \in Workers : WorkerStep(w)
  \/ \E c \in Consumers : ConsumerStep(c)
  \/ \E s \in Stoppers : StopStep(s)

Spec == Init /\ [][Next]_vars

(* The Go scheduler runs every goroutine that is ready.  A select chooses  *)
(* at random among its ready cases, so a worker whose quit case is ready   *)
(* again and again takes it: strong fairness.  Nothing obliges a client to *)
(* submit or an owner to start or stop the engine.                         *)
EngineFairness ==
  /\ \A w \in Workers :
       /\ SF_vars(WorkerQuit(w))
       /\ SF_vars(WorkerTake(w))
       /\ WF_vars(WorkerFinish(w))
       /\ SF_vars(WorkerSend(w))
       /\ WF_vars(WorkerRecycle(w))
  /\ \A s \in Stoppers :
       /\ WF_vars(StopUnblocked(s))
       /\ WF_vars(StopWait(s))
       /\ WF_vars(StopCloseResults(s))

(* Consumers that keep receiving.                                          *)
ConsumerFairness == \A c \in Consumers : WF_vars(Receive(c)) /\ WF_vars(RecycleResult(c))

-----------------------------------------------------------------------------
(* Type invariant. *)
TypeOK ==
  /\ task \in [TaskObj -> Jobs \cup {NoJob}]
  /\ taskNew \in SUBSET TaskObj
  /\ taskPool \in SUBSET TaskObj
  /\ taskQueue \in Seq(TaskObj)
  /\ Len(taskQueue) <= QueueSize
  /\ result \in [ResultObj -> Jobs \cup {NoJob}]
  /\ resultNew \in SUBSET ResultObj
  /\ resultPool \in SUBSET ResultObj
  /\ resultQueue \in Seq(ResultObj)
  /\ Len(resultQueue) <= QueueSize
  /\ closed \in SUBSET Channels
  /\ wg \in Nat
  /\ stopOnce \in {"new", "running", "done"}
  /\ wpc \in [Workers -> {"unborn", "select", "execute", "send", "recycle", "dead"}]
  /\ wtask \in [Workers -> TaskObj \cup {Nil}]
  /\ wres \in [Workers -> ResultObj \cup {Nil}]
  /\ ctask \in [Clients -> TaskObj \cup {Nil}]
  /\ held \in [Consumers -> ResultObj \cup {Nil}]
  /\ spc \in [Stoppers -> {"idle", "blocked", "wait", "closeResults", "returned"}]
  /\ panic \in {"none", "submit", "worker", "close"}
  /\ offered \in SUBSET Jobs
  /\ accepted \in SUBSET (Jobs \cup {NoJob})
  /\ received \in SUBSET (Jobs \cup {NoJob})

-----------------------------------------------------------------------------
(* Where a Task or Result pointer can be held outside the pools.           *)
TaskHolders ==
  ({"client"} \X Clients) \cup ({"queue"} \X (1..QueueSize)) \cup ({"worker"} \X Workers)

TaskAt(h) ==
  CASE h[1] = "client" -> ctask[h[2]]
    [] h[1] = "queue"  -> IF h[2] <= Len(taskQueue) THEN taskQueue[h[2]] ELSE Nil
    [] h[1] = "worker" -> wtask[h[2]]

ResultHolders ==
  ({"consumer"} \X Consumers) \cup ({"queue"} \X (1..QueueSize)) \cup ({"worker"} \X Workers)

ResultAt(h) ==
  CASE h[1] = "consumer" -> held[h[2]]
    [] h[1] = "queue"    -> IF h[2] <= Len(resultQueue) THEN resultQueue[h[2]] ELSE Nil
    [] h[1] = "worker"   -> wres[h[2]]

(* A Task pointer has one holder: a client that fills it, a slot of        *)
(* taskQueue, the worker that executes it, or the pool.  The pool would    *)
(* otherwise hand out a struct that somebody still reads or clears         *)
(* (core/event_loop.go:205-211, taskPool.Put after the send).              *)
ExclusiveTask ==
  /\ \A g, h \in TaskHolders : TaskAt(g) = TaskAt(h) /\ TaskAt(g) # Nil => g = h
  /\ \A h \in TaskHolders : TaskAt(h) \notin taskPool \cup taskNew
  /\ taskPool \cap taskNew = {}

(* The same of Result pointers: worker, resultQueue, consumer or pool.     *)
ExclusiveResult ==
  /\ \A g, h \in ResultHolders : ResultAt(g) = ResultAt(h) /\ ResultAt(g) # Nil => g = h
  /\ \A h \in ResultHolders : ResultAt(h) \notin resultPool \cup resultNew
  /\ resultPool \cap resultNew = {}

(* A pooled struct carries nothing of the job it last served ("securely    *)
(* scrubs", "State is strictly scoped to the task").                       *)
PooledScrubbed ==
  /\ \A o \in taskPool : task[o] = NoJob
  /\ \A o \in resultPool : result[o] = NoJob

(* Pooling is invisible: every Task and Result pointer has one holder, and *)
(* what comes out of a pool is blank.                                      *)
Ownership == ExclusiveTask /\ ExclusiveResult /\ PooledScrubbed

(* The places where job j is on its way through the engine.                *)
Places(j) ==
  ({"waiting"} \X {i \in DOMAIN taskQueue : task[taskQueue[i]] = j})
    \cup ({"running"} \X {w \in Workers : wpc[w] = "execute" /\ task[wtask[w]] = j})
    \cup ({"sending"} \X {w \in Workers : wpc[w] = "send" /\ result[wres[w]] = j})
    \cup ({"ready"} \X {i \in DOMAIN resultQueue : result[resultQueue[i]] = j})
    \cup ({"received"} \X (received \cap {j}))

(* A job that Submit accepted is in exactly one place until its one result *)
(* is received: none is lost inside the engine, none is executed or        *)
(* delivered twice, no result carries another job's TaskID; and a job that *)
(* Submit refused is never executed.                                       *)
Accounted ==
  /\ accepted \subseteq offered
  /\ \A j \in Jobs : IF j \in accepted
                    THEN \E p \in Places(j) : Places(j) = {p}
                    ELSE Places(j) = {}

(* The engine's own goroutines never send on, close or dereference what    *)
(* Stop has closed: the queues are closed only after every worker returned *)
(* (core/event_loop.go:126), and stopOnce closes each channel once.        *)
NoEnginePanic == panic \notin {"worker", "close"}

(* A call of Stop returns, whichever caller ran the shutdown, only when    *)
(* every worker has returned and the queues are closed.                    *)
StopIsLast ==
  (\E s \in Stoppers : spc[s] = "returned")
    => /\ \A w \in Workers : wpc[w] = "dead"
       /\ closed = Channels

(* Shutdown: no worker and no call of Stop panics, and Stop returns last.  *)
ShutdownSafe == TypeOK /\ NoEnginePanic /\ StopIsLast

(* No goroutine panics.  Submit does when the engine has been stopped.     *)
NoPanic == panic = "none"

(* Once the engine has been started, an accepted job's result reaches a    *)
(* consumer unless the engine is being stopped.                            *)
AcceptedIsDelivered ==
  \A j \in Jobs :
    (j \in accepted /\ \A w \in Workers : wpc[w] # "unborn")
      ~> (j \in received \/ "quit" \in closed \/ ~Up)

(* Every call of Stop returns.                                             *)
StopReturns ==
  \A s \in Stoppers : spc[s] # "idle" ~> (spc[s] = "returned" \/ ~Up)

-----------------------------------------------------------------------------
(* The engine as its users see it: jobs, not pointers.                     *)
BusyWorkers == {w \in Workers : wpc[w] \in {"execute", "send"}}

WaitingJobs == [i \in 1..Len(taskQueue) |-> task[taskQueue[i]]]

RunningJobs == {task[wtask[w]] : w \in BusyWorkers}

ReadyJobs == [i \in 1..Len(resultQueue) |-> result[resultQueue[i]]]

Mode ==
  IF "taskQueue" \in closed THEN "stopped"
  ELSE IF "quit" \in closed THEN "stopping" ELSE "open"

Service == INSTANCE TaskService WITH
  Capacity <- QueueSize,
  Parallel <- Cardinality(Workers),
  waiting <- WaitingJobs,
  running <- RunningJobs,
  ready <- ReadyJobs,
  mode <- Mode

(* The pool implements TaskService: jobs are taken in the order of their   *)
(* acceptance, each runs once on one of the workers, and nothing runs once *)
(* Stop has closed the queues.                                             *)
ImplementsService == Service!Spec

=============================================================================
