# Verification of AetherCore

TLA+ models of the concurrent and stateful parts of AetherCore, TLC runs that
check them on small instances, and TLAPS proofs of almost all the safety
properties, and of the worker pool's refinement, for instances of any size.
`PROJECT.json` maps each definition to the source lines it models. Paths below are relative to the repository.

## 1. The system

AetherCore is an agent kernel: gateways receive commands, an engine runs them
through an LLM with tools, and modules, a scheduler and a LAN mesh extend it.

| Component | State | Operations | Interacts with | What is hard |
|---|---|---|---|---|
| Engine (`core/event_loop.go`, used by `cmd/aether/main.go`) | two bounded channels, two `sync.Pool`s, a wait group, `stopOnce` | `Start`, `GetTask`, `Submit`, `worker`, `Results`, `RecycleResult`, `Stop` | clients, consumers, agent loop | pointers reused across goroutines, shutdown against senders |
| Agent loop (`core/event_loop.go`, `core/tool.go`, `core/ipc_client.go`) | conversation, tool registry, audit events | `executeEphemeral`, `dispatchTool`, `verifyToolOutput`, `Register` | LLM, tools, sandbox client, audit log | error paths in the middle of a batch of tool calls, iteration bound, registration meanwhile |
| Scheduler (`modules/scheduler/scheduler.go`) | job table under a lock, `lastFired`, `running`, `quit` | table operations, `Start`, `Stop`, `tickLoop`, `evaluateAndDispatch` | a ticker, a dispatcher | every minute is looked at twice, jobs change between marking and dispatch, two loops around a restart |
| Cron (`modules/scheduler/cron.go`) | none | `ParseCron`, `Matches`, `NextAfter` | scheduler | calendar edges |
| Module lifecycle (`sdk/registry.go`, `sdk/lifecycle.go`) | registry under a lock | `StartModule`, `StopModule`, `StopAll`, `Load`, `Unload`, `Get`, `Manifests` | modules' hooks, gateway adapters | hooks run outside the lock |
| Mesh discovery (`core/mesh_discovery.go`) | peer table, UDP socket, `running`, `quit` | `Start`, `Stop`, `listenLoop`, `announceLoop`, eviction | other nodes by UDP | loss, duplication, delay; shutdown through two goroutines |
| Mesh propagation, deadlines (`core/mesh_propagation.go`, `core/mesh_timeout.go`) | listener, handler, connections; events per task | `SetHandler`, `Listen`, `Stop`, `PropagateTask`, `handleConn`, deadlines; `Record`, `Purge`, `PurgeExpired` | peers by TLS | partial failure, three deadlines that know nothing of each other, retries |
| Discord gateway (`gateway/discord`) | connection, backoff | `Run`, `connect`, `heartbeat`, `receiveLoop` | Discord, adapters | two goroutines on one connection, reconnecting, cancellation |
| Telegram gateway (`gateway/telegram`) | offset, backoff | `Run`, `GetUpdates` | Bot API, adapters | lost answers, repeats, crash with the offset in memory |
| mTLS identity (`core/mtls.go`) | four files | `LoadOrCreateIdentity`, `generateAndSave` | disk | crash between writes |
| Login (`core/auth.go`, `cmd/aether/auth.go`, `cmd/aether/main.go`) | token file, callback server | `Authenticate`, `SilentRefresh`, login, account deletion | auth cloud, browser, disk | three processes on one file, a refresh in the background |
| Audit log (`core/audit`) | hash chain in memory, rotated files | `Append`, `VerifyChain`; `Open`, `AppendBlock`, rotation | disk, agent loop | concurrent writers, rotation, partial writes |
| Memory engine (`core/memory`) | short-term list, entries by ID | `Record`, `Recall`, `Summarize`, storage operations | LLM messages | eviction and summaries in any order |
| Vector and signed stores (`memory`) | vectors, listener | `Store`, `Delete`, `Query`, `Serve`, `Stop`, `AuthorisedQuery` | other nodes by TLS | shutdown against start, expiring tokens |
| LLM routing (`core/llm`) | provider slice, statuses | `Select`, `Execute`, retry | providers | statuses and order that change during a selection |
| Guards (`core/security`) | none | scan, verify | agent loop | text matching |
| Sandbox runtime (`runtime/src`), Rust SDK, scaffolding, CLI, logging, protobuf | - | - | - | not concurrent in the kernel, generated, or pure I/O |

Correctness in a sentence each: the engine neither loses, repeats nor mixes up
jobs and shuts down in order; a task's conversation is well formed, guarded,
audited and finite; a job fires once for each minute of its schedule; a module's
hooks run only after `OnStart` succeeded or after other code loaded it itself, and
`StopAll` leaves nothing behind; the peer
table lists who was heard and forgets who is silent; a gateway retries after a
failure of its server, loses no message it promised to handle, and stops when told; a
propagated task's result comes from its execution; what is on disk (identity, login,
audit trail) survives crashes and failed calls as far as the code can manage; the
memory recalls the latest messages; a router picks the best fit provider.

## 2. Modules and runs

Names follow the source. Operators ending in `_Bug` are plausible mistakes: each
property is known to fail when the definition of the code is replaced by the
mistake listed in `PROJECT.json`. Deadlock checking is off in all runs because
every one of these programs ends (a stopped engine, a finished task, the last
instant of the modelled clock).

### Engine, TaskService, MCEngine, EngineProofs

`Engine` keeps a heap of `Task` and a heap of `Result` structs, because the code
passes pointers and reuses the structs: pools, queues, workers, clients and
consumers hold addresses. ID, System and Input of a task are one value (the
job). A worker has one program point for each place where another goroutine can
interleave: `select`, `execute`, `send`, `recycle`. `Stop` has the steps of
`stopOnce.Do`: `close(quit)`, `wg.Wait`, `close(taskQueue)`, `close(resultQueue)`; a late
caller blocks in `Do`. A send on or a close of a closed channel sets `panic` and the
process is over. `Start` is called once, before `Stop`, as `main.go` does. What
`sync.Pool` may drop at a garbage collection is not modelled (a dropped struct is
never seen again); `CreatedAt`, which the code does not clear, is not modelled.

`TaskService` is what users see: a FIFO queue, at most as many running jobs as
workers, results in order of completion, nothing after a completed stop.

| Run | Shows | Instance |
|---|---|---|
| `engine` | `Ownership` (type, exclusive pointers, scrubbed pools), `ShutdownSafe` (no panic of a worker or of `Stop`, and nothing alive after a `Stop` has returned), `Accounted`, `ImplementsService`, `AcceptedIsDelivered`, `StopReturns` | 2 jobs, 2 structs of each kind, queues of 1, two of each kind of goroutine |
| `engine_late_submit` (violation) | `NoPanic` fails: a `Submit` after `Stop` panics | as above |

Two jobs and queues of one are enough for both queues to be full, for a refused
`Submit`, for a struct to be reused while another of its kind is under way, and for one
job to overtake the other. All but the two liveness properties are proved for every
instance (section 3). Fairness: the Go scheduler runs every ready goroutine (weak fairness);
`select` picks at random among ready cases, so a case that is ready again and again is
taken (strong fairness). The run assumes consumers that keep receiving. Without
them `StopReturns` does not hold: a worker's send on a full `resultQueue` does not watch
`quit`, and `Stop` waits for that worker.

### AgentLoop, AgentLoopProofs

One task: scan of the input, up to `MaxIterations` requests, each answered by an
error, a final text or a batch of tool calls; each call is executed locally, given to
the sandbox client or refused; outputs are scanned. Texts are reduced to the guard's
verdict. Other goroutines may register tools at any moment. An audit logger is
attached; the code ignores its errors.

`agent_loop` checks `ConversationWellFormed`, `RejectedOutputStops`,
`OfferedToolsResolve`, `AuditComplete` and `Terminates` with 2 tools, batches of 2 and 2
iterations (10 in the code): enough for a second round after a mixed batch. One of the two
names contains `security_violation`: if nobody has registered it and there is no sandbox, the
not-found error quotes it and ends the task like a rejected output. Fairness:
every call returns, at the latest with the five-minute context's error.
`agent_loop_sandbox` (violation): calls of unknown tools are documented to go to
the sandbox; `dispatchTool` passes no signature, and the client refuses a call
without one before it sends anything.

### Cron, Scheduler, MCScheduler, SchedulerProofs

`Cron` turns an expression into the sets behind its five bitsets: aliases, lists,
ranges, steps, the refusals of `ParseCron`, `Matches` and `NextAfter`. An expression is
what `strings.Fields` and `strings.Cut` leave of its text. `int` wraps at `MaxInt`, because a
huge step makes the loops of `parseRange` and `parseWildcard` run around: the bits they
set then depend on the overflow (`30-40/9223372036854775807` gives 30, 28, ..., 0). `Says` is the
reference: what an expression names, read without parsing.

`Scheduler` extends it. Time is counted in half minutes, one per tick. A tick loop has a
one-place ticker channel that drops what does not fit. Marking (under the lock) and
dispatching (after it) are separate steps. `MaxLag` is how many ticks a tick may wait for
its loop. When two loops exist (the old one has not yet seen that it was stopped) each
must handle a tick before the next: with more lag `OncePerMinute` is false, because
`lastFired` remembers one minute and two loops that work on two minutes alternately
reset it for each other. `NeverMiss` needs a lag below one minute, which is what the
comment at `scheduler.go:36` assumes. A firing that falls due before `SetDispatcher`
counts as done, as in the code.

`scheduler`: `OncePerMinute`, `FiresAsWritten` (from the text to the dispatch, and against
`NextAfter`), `NeverMiss`, `StopEndsLoops`. One name, two jobs (one replaces the other), two
loops, the three minutes around a new year (five half minutes), an expression with a list, a step
and a weekday, one whose step wraps in an `int` of 8 bits, and three that are refused; no
alias. Jobs of different names meet only in the lock, so one name is enough. Fairness: weak for
the goroutines, strong for the `select` cases. `FiresAsWritten` excepts expressions whose
step wraps. `NextAfter` looks 366 days ahead, so it answers the zero time for some valid
expressions (29 February) although its comment says that never happens.
`scheduler_restart` (violation): after `Stop`, `Start` sets `running` again but `quit`
stays closed, so the new loop exits at once and the scheduler claims to run.

### ModuleLifecycle, MCModuleLifecycle, LifecycleProofs

Registry operations are atomic (its lock), hooks are not: `StartModule`,
`StopModule` and the goroutines of `StopAll` take several steps each, interleaved with an adapter's
`HandleRun`, which visits the modules of a snapshot, and with other code that calls the exported
`Load` and `Unload` itself, as the tests of the package do (`Direct` is the set of modules for which it does).

| Run | Shows | Instance |
|---|---|---|
| `module_lifecycle` | `UsedOnlyIfStarted`: only a module that was started, or that other code loaded itself, is used, and one whose `Load` was refused never is. `StopAllUnloads`: when `StopAll` returns, what it found is unloaded and stopped, unless an `Unload` that was not meant for it came first. `StopAllEnds` | two versions of one module (one of them loaded directly), a third module, one independent `StopModule`, one `HandleRun` |
| `module_stop_all` (violation) | `StopAllStops` fails: of two `StopModule` calls that got the old version, the slower one unloads, by name, the new version that `StopAll` has found; nobody calls its `OnStop`, although "`StopAll` stops every loaded module" (`lifecycle.go:66`) | two independent `StopModule` calls, no direct loads, no `HandleRun` |

`OnStop` is assumed to return (it gets a three-second context). Two more facts that the model shows and
no property forbids: two concurrent stops of a module call its `OnStop` twice, although `module.go:38` says once;
and `Load` only registers, although its comment (`registry.go:38`) says that it "invokes its OnStart lifecycle hook":
a module that other code loads itself is registered and handed tasks without ever having been started. `UsedOnlyIfStarted`
therefore asks `OnStart` only of what came through `StartModule`.

### MeshDiscovery, DiscoveryProofs

Time is counted in broadcast intervals of five seconds; the peer timeout is three
of them. Beacons are a set that the network may lose, keep or deliver again; only
their sender is modelled. `mesh_discovery` checks `HeardIsListed`
(the node itself never is), `SilentIsEvicted` and `ShutsDown` with one peer, two calls of `Start` and five
intervals, one more than a peer needs to be evicted. Fairness: goroutines run, reads end by
their deadline, `select` is random. A failed bind leaves `running` set, as in the code;
every later `Start` is then refused until `Stop`.

### DiscordGateway (theorem in NodeProofs), Gateways

`Run` with `connect`, `receiveLoop` and the heartbeat goroutine; the server may do
anything at any time, send a Hello without a positive `heartbeat_interval` (`interval`) and fall silent for good
in the upgrade answer or Hello (`silent`), the two reads without a deadline. The model has no bound.
`Gateways` puts this module and `TelegramPoller` side by side, as `Node` does its parts: they share no state, and one of
them moves in each behaviour.

`gateways` checks `HeartbeatEndsWithSession` (and that Identify comes first), `RunReturns` and `Reconnects`. The code
falls short of its comment ("processes events until ctx is cancelled. It reconnects with exponential backoff on failures",
`gateway.go:41-42`) in two ways, both steps of the model that the last two properties except: behind a server that fell silent in those
reads `Run` neither returns after cancellation nor connects again, and on a heartbeat interval that is not positive
`time.NewTicker` (`gateway.go:165`) panics in a goroutine that nothing recovers, which ends the process.

Fairness: dialling ends by its timeout and reads after Hello by their deadline; a server that has not
fallen silent answers or drops the connection, and one that is asked again and again accepts in the end
(`Reconnects`). The silent server is not excluded by fairness: it is a step of the model that the two properties name. The
backoff is never reset and stops at 64 seconds, above `backoffMax`.

### TelegramPoller, TelegramProofs

`Run` and the request it waits for, against a server that keeps an update until a
request with a higher offset confirms it (external, from how the code uses the Bot
API). Requests fail at any time, abandoned ones may arrive late, the process may
restart with offset 0. `gateways` checks `DispatchedOnce`,
`ForgottenWasDispatched`, `EventuallyDispatched` and `CancelReturns` with three
updates, answers of at most two (100 in the code) and one restart: a batch, a rest and a
repeat. Fairness: a request ends by the client's timeout; a server asked again and
again answers in time once in a while. That timeout is 10 seconds for every
request although the poll asks the server to hold it for 30 (`client.go:16` says long polls
are exempt), so an idle poll always fails and is retried after a backoff.

### MeshPropagation, MeshProofs

One listening node and calls of `PropagateTask` for one task, the second a retry after
an error of the first, each over its own connection. A connection carries the task, the
result, a close, or falls silent (the host vanished). A second `Stop` closes a closed
channel: the process is down. The three deadlines (the caller's context, the task's, the
server's 30 seconds) may each have passed at every read or write where they are set.
Handlers come from outside `core`; the model has the one of `core/mesh_integration_test.go`, which looks at
the task's deadline, and one that does anything else, `nil` included (`core/mesh_propagation_test.go:107`); a new
one may be registered at any time. `ResultGenuine` says that a result is of the one execution on its own
connection, or of the absence of a handler, and that no call executes its task twice.
`mesh_tasks` checks `ResultGenuine`, `CallReturns` and `ListenerDrains` with two calls: a call and
its retry while the first handler still runs. Fairness: goroutines run, deadlines pass,
handlers return, a retried `Accept` takes a waiting connection in the end. Two facts no
property forbids: an error may hide an execution, so a retry repeats the task; and a call
without a deadline waits for ever for a peer that vanished (excepted in `CallReturns`).
`WithTaskDeadline`, whose comment (`mesh_timeout.go:109`) promises immediate cancellation for a
zero deadline where the code sets none, has no caller and is not modelled.

### Node, MCNode, NodeProofs and the eight parts of Node

`Node` puts parts side by side that share no state, and lets one of them, `part`, move in
each behaviour: their properties speak of one part each, so interleaving the parts with
each other would multiply the states and add no case. Within a part its callers
interleave fully. The run is `node`. Fairness: the login command runs and its timer of 5
minutes fires; the accept loop of the memory server runs. Nothing else is promised a step.

| Module | State and steps | Property | Bounds |
|---|---|---|---|
| `Identity` | four files, each missing, torn or of a generation; every `os.WriteFile` is a truncation and a write, in any order of the files; crashes and failed writes in between; expiry of the CA | `IdentityMatches`: with at most one interrupted save and no expired CA the leaf in use was signed by the CA in use. Two interruptions, or one after an expiry, can mix generations for good, and a torn file fails every boot | 3 generations, 2 interruptions |
| `Auth` | the token file and the steps of `run`, its background refresh, `login` and `account delete` as processes; `Save` is truncate and write | `SessionKept`: no failed call of the cloud and no interleaving of the commands loses the login. The code loses a working one in three ways, which are excepted: a process that ends inside `Save`, or two saves at once (`torn`); a refresh answered with 200 and no token (`emptied`); a `/callback` with something that is no token (`misled`). The last two are saved unverified. `LoginEnds`, except with a second callback, whose handler blocks `Shutdown` | 2 callbacks |
| `AuditChain` | the blocks, the mutex, the block that each `Append` read | `ChainVerifies`: `VerifyChain` accepts the chain at every moment | 2 loggers, 5 blocks |
| `AuditFile` | lines and sizes of the current and the rotated files, the appender's idea of the size, torn lines, rotations that fail half way | `AuditTrailKept`: acknowledged blocks stay readable and files bounded, except what a later rotation to the same name replaces (within one second, or any one if the limit is 100, where the name is always `.1`; that case only in the proof) and the block behind a torn line | 5 blocks of 3 sizes, limit 3, 2 seconds |
| `MemoryEngine` | short-term list and stored entries; two calls may share a nanosecond | `RecallsRecent` | 8 messages, capacity 5: evictions before and after two summaries |
| `EphemeralLog` | events, and those stamped but not yet appended, by `Record` or by a caller who brought a timestamp | `PurgeKeepsFresh`: `PurgeExpired` removes nothing younger than `maxAge`, less the time a `Record` waited for the lock; tasks with a timestamp that a caller brought are excepted, because nothing orders those | 2 recorders, 3 events, clock to 3, given stamps 0 and 3 |
| `LlmRouting` | statuses, the shared slice, the loop of `Select`, the retry loop | `SelectsBest`: against one reference for the three routers, whatever statuses change meanwhile: the choice was fit at some time and ranks no higher than any provider that was fit all along. A slice that `NewFallbackRouter` sorts under the loop is excepted | 3 providers, two of equal rank |
| `MemoryServer` | `Serve`, calls of `Stop`, requests, the vectors; a second `Stop` and a request without a token panic and end the process (`dead`) | `ServeReturns`: after every `Stop` that found the listener, or the process has ended | 2 queries, 2 vectors |

A `Stop` between the bind of `Serve` and its assignment of `ms.listener` closes nothing, and `Serve`, said to run "until Stop is
called" (`signed_store.go:194`), stays in `Accept`: the model has it, and `ServeReturns` does not speak of it.

In the exceptions the code really fails; each is named in the property's comment. A panic of the memory server
would also end the other parts of its process; the crashes that matter to them are steps of their own modules.
Also seen and not stated: `RetryingProvider` with `maxRetries` 0 returns an empty answer without
an error (`retry.go:29`); the leaf certificate, "rotated regularly" (`mtls.go:57`), is never
checked for expiry.

## 3. Proofs

Each proof module holds the theorems about the module it extends. The last step of
every proof is the rule of invariance: the initial states satisfy an inductive
invariant, every step keeps it, and it implies the property. Most of the properties are
not inductive; what follows says what had to be added, and why. The bounds of the models
(calls, events, generations, time) are constants too, so the theorems hold for every value of them.

| Module | Theorems about properties of the runs | Assumptions on the constants |
|---|---|---|
| `EngineProofs` | `OwnershipHolds`, `ShutdownIsSafe`, `JobsAccounted`, `EngineImplementsService`; also `ShutdownIsNeverStuck` | a queue holds at least one element, finitely many workers and at least one, `Nil` and `NoJob` are nobody's |
| `AgentLoopProofs` | `ConversationsWellFormed`, `OfferedToolsAreFound`, `WorkIsAudited`, `RejectedOutputsStop` | at least one iteration and one call in a batch; alarming names are names |
| `SchedulerProofs` | `FiresOncePerMinute`, `NoFiringMissed`, `FiresAsItIsWritten`; also `BitsetsAreExact` | some expression is accepted, the numbers in an expression are integers, the calendar covers the modelled time; for `NoFiringMissed` a lag of one tick at most |
| `LifecycleProofs` | `HooksOnlyOnStarted`, `StopAllIsComplete` | every module has a name; a call of `StopModule` is not a name; modules loaded directly are modules |
| `DiscoveryProofs` | `HeardPeersAreListed`, `SilentPeersAreEvicted` | the node is not its own peer; `None` and `"other"` (a foreign holder of the port) are no calls of `Start` |
| `TelegramProofs` | `UpdatesDispatchedOnce`, `NoUpdateLost`; also `UpdatesInOrder` | an answer holds at least one update |
| `MeshProofs` | `ResultsAreGenuine` | calls are numbered |
| `NodeProofs` | `ChainAlwaysVerifies`, `AuditTrailIsKept`, `MemoryRecallsRecent`, `PurgesOnlyOld`, `IdentitiesMatch`, `SessionsKept`, `RoutersSelectBest`, and `NoHeartbeatOutlivesItsSession` of the Discord gateway; also `StopEndsAccepting` | bounds are numbers; finitely many providers |

`EngineProofs`:

* `TypeCorrect`, `EngineNeverPanics`, `StopReturnsLast`. That a worker never
  sends on a closed channel needs that `taskQueue` is closed only after `wg` was
  zero, hence that `wg` counts the live workers (`WgInv`, by cardinality), that at
  most one caller runs the shutdown and which channels are closed at each of its steps
  (`StopInv`), and what a worker holds at each point (`WorkerInv`). `ControlInv` is their
  conjunction with `TypeOK` and `NoEnginePanic`; one lemma per conjunct shows that every action keeps it.
* `TasksExclusive`, `ResultsExclusive`: from `ControlInv` and `OwnTask`/`OwnResult`, which say
  of each pair of kinds of holder that they share no pointer; `OwnTaskIsExclusive`
  and `OwnResultIsExclusive` lead back to the form that TLC checks. `PoolsScrubbed`: what is put
  into a pool was cleared.
* `JobsAccounted` looks through the pointers: `WaitingJobs`, `Running`, `ReadyJobs` and `Filling`
  are the jobs behind the queues, workers and clients. `JobInv` says that no view repeats a job,
  that the views are disjoint and that together with `received` they are `accepted`. A step that
  writes to a struct changes only the view of its holder, which is where exclusiveness is
  needed; a result on its way names its task (`SendInv`), which is why moving it moves the job.
* `EngineImplementsService`: `Spec => ImplementsService`, the refinement of `TaskService` under
  the mapping that the same views define. `ServiceStep` goes through the actions
  and shows that each is a step of the service or a stutter; initial states map to initial states.
  Since `Deliver` of the service takes only a job that was not received, this also says that no
  result is received twice.
* `ShutdownIsNeverStuck`: while a call of `Stop` waits, the `Once` is done, or the caller inside it or a
  worker can take its next step, or every live worker is at its send to a full `resultQueue` (`ShutdownMoves`).
  The last case is the only deadlock of `Stop`, and the consumers of `StopReturns` rule it out. The proof needs that an unfinished `Once` has a caller inside it (`RunnerInv`) and, from
  `WgInv`, that a positive `wg` has a live worker behind it.

`AgentLoopProofs`: `LoopInv` adds to the conversation what the loop holds while a batch is served: the
last turn is the one that made the calls, with the manifests of its request, and the
results so far answer the first of them (`Serving`). `OfferedToolsAreFound` needs that tools are only ever
added. `AuditInv` counts events, by the cardinality of their positions.

`SchedulerProofs`: `lastFired` remembers one minute, so that a job does not fire twice for an
earlier one rests on the order of ticks: `TickInv` says that all waiting ticks are of one
moment and that no job has fired for a later minute, `FireInv` that nothing has fired or
is due after `lastFired`. `OwedInv`, for `NoFiringMissed`, says that a job that is owed a firing is still due
and that from the second half of the minute a tick of that minute waits in the one loop.

`FiresAsItIsWritten` goes from the text of an expression to the firing. A job has fired only for minutes that have
begun and that its parsed schedule matches (`OnSchedule`); the rest is about the parser and `NextAfter`:

* Every value that the loop `for v := start; v <= end; v += step` reaches is `start` plus a multiple
  of the step, and not above `end` (`LoopBits`). That is an induction over the turns, by the least
  turn at which it fails (`LeastNatural`, from the well-foundedness of the naturals): the turn before stayed
  in the range, so the next sum passes `MaxInt` only if the step is greater than `MaxInt - end`,
  which is what `StepOverflows` says (`NoWrap`). That each such multiple is reached is `LoopReaches`, for the
  values up to `end` need no wrap at all.
* `PartBits`, `PartReaches` and `FieldParts` lift this to lists of parts and to the five fields, and `BitsetsAreExact` states the
  result: what an expression says is matched, always; what is matched is said, unless a step
  overflows.
* `NextAfter` is a minimum over minutes; that it exists, and is no later than the firing, is
  `NextAfterFinds`, again by `LeastNatural`.

`LifecycleProofs`: whoever holds a module took it from the registry (`HoldInv`), the registry
has a module under its own name only between `Load` and `Unload`, a module that was loaded
is where its name leads or was unloaded or refused (`FoundInv`), and a goroutine of
`StopAll` that has returned finds the module of its name unloaded (`StopAllInv`). Each `Unload` records for whom it
was meant (`dropped`): one by a stop that ran the module's own `OnStop`, by a stop that had got another module, or by other code.

`DiscoveryProofs`: an entry is as old as the beacon last processed, and a peer that was heard
and is not listed was silent for too long (`TableInv`); until `Stop` one call of `Start` gets past
`running`, so one pair of goroutines is alive (`ClaimInv`), and each of its ticks is followed by an
eviction before the next (`TickInv`).

`TelegramProofs`: every offset that the server may see, now or by a late request, is one below
which every update was dispatched by some run (`OffsetInv`); an answer and a batch are consecutive
updates that begin where the dispatched ones end (`AnswerInv`); and what this run dispatched
is below its offset (`CountInv`). From the same invariant, `UpdatesInOrder`: a run starts its handlers in the
order of the updates and skips none.

`MeshProofs`: `ResultGenuine` speaks of what a caller got. `MeshInv` adds that a result is
genuine in each place it passes (the reply of `handleConn`, the connection, the caller), that
the server goroutine is over once the result has left it, and that a call that has not
sent its task has nothing on its connection that a handler could have run on.

`NodeProofs`: a step of the node is a step of one part and a stutter of the others
(`OnePartMoves`), so each part has an invariant of its own.

* Audit chain: a block is linked to what its goroutine read when it took the mutex, so `ChainInv`
  adds that the mutex has one holder, who has read the last block. `blocks` is a sequence over
  some set, not a given one, because a hash contains every earlier block.
* Audit file: `ExtendKeeps` says that what is appended to a file, behind a torn line or not, leaves what it
  held. For the bound, `FileInv` adds that an open appender's `currentSize` is the size of the file, which a
  failed write makes false and `Open` true again.
* Memory: `ShortInv` relates the place of each message to the number recorded, through evictions and
  summaries; `StoreInv` says that each message that is not gone has exactly one entry.
* Ephemeral log: a recorder's stamp is at most `MaxLag` old, so an event is at most `MaxLag` younger
  than any event behind it, if no caller brought a timestamp (`LogInv`).
* Identity: `IdentityMatches` says nothing of the files from which a later boot takes the
  identity. Before the first interruption they are all missing or all of the latest generation,
  so the save that is interrupted began without any, and the files that parse are of one
  generation until a repair, which replaces all four (`DiskInv`).
* Login: who is inside `Save` wants to save a good token, unless a refresh or a callback brought none (`WriterInv`), the file goes only after the account
  (`AccountInv`), and it is empty only inside a `Save` (`TokenInv`).
* Routers: while the slice stays as it is, the candidates were fit when the loop passed them, no provider
  that it passed and that was fit all along is missing, and the slice of a `FallbackRouter` is ranked (`RoutingInv`). That the loop passes
  every provider is a fact about cardinalities (`OrderListsAll`).
* Memory server: `StopEndsAccepting` says that a `Stop` that found the listener has closed it and its backlog
  (`StopCloses`) and that nothing is opened or accepted afterwards (`NoneAccepted`). `ServerInv` adds that `Serve` stores only a
  bound listener, so that no bind can follow, and that a backlog needs an open one.
* Discord gateway: `HeartbeatEndsWithSession` says where the receive loop is while the heartbeat runs, but not
  that the connection is still open when the loop gets there, that a heartbeat follows Identify, or
  that the loop has a heartbeat to wait for. `SessionInv` adds these three. The part has no
  constants, so this theorem confirms the run and explains it.

Only model-checked: the liveness properties of the runs, because the prover handles neither fairness
nor `ENABLED`.

## 4. Not modelled

Logging, formatting and wording; the text matching of the guards (`core/security`, pure
functions whose verdict `AgentLoop` takes as input); cryptography and TLS handshakes; the
cosine of two vectors; splitting a cron expression into fields; the Discord frame codec,
REST calls and command routing; `audit_cmd.go`, which displays a log; the Rust runtime, a
separate process; generated bindings, scaffolding, and command-line parsing.

## 5. Plan

1. Done: the modules above; proofs of every safety and action property of the passing runs and of the
   refinement of `TaskService`.
2. Model: expiry of the leaf certificate in `Identity`; the module tool registry of `sdk/context.go`.
