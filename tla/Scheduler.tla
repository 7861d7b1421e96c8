------------------------------ MODULE Scheduler ------------------------------
(***************************************************************************)
(* modules/scheduler/scheduler.go: a table of cron jobs under a lock, and  *)
(* a goroutine that wakes up on every tick of a 30 second ticker, marks    *)
(* the jobs that are due under the lock and dispatches them after it.      *)
(*                                                                         *)
(* Time is counted in half minutes, one per tick.  A Job keeps its         *)
(* expression as it was written (CronRaw); its parsed Schedule, which      *)
(* never changes, is Cron's Schedule of it.  A Job struct is identified by *)
(* the number of the AddJob call that made it.                             *)
(***************************************************************************)
EXTENDS Cron

CONSTANTS
  Names,      \* job names
  MaxLoops,   \* bound: tickLoop goroutines
  MaxTime,    \* bound: half minutes modelled
  MaxJobs,    \* bound: successful AddJob calls
  MaxLag      \* how many ticks a tick may wait for the only tick loop

ASSUME BoundsAssumption == MaxLoops \in Nat /\ MaxTime \in Nat /\ MaxJobs \in Nat /\ MaxLag \in Nat
ASSUME ExprsAssumption == Accepted # {}
ASSUME CalendarAssumption == \A m \in 0..(MaxTime \div 2) : m \in DOMAIN Calendar

VARIABLES
  jobs,        \* s.jobs: for each name the number of its Job, 0 if absent
  job,         \* the Job structs: CronRaw, enabled, minute of lastFired
  added,       \* number of Job structs made
  dispatcher,  \* whether SetDispatcher was called
  running,     \* s.running
  stopOnce,    \* s.stopOnce: "new", "closing" (quit is closed), "done"
  cancelled,   \* whether the context given to Start was cancelled
  lpc,         \* where each tick loop is
  tick,        \* the ticker channel of each loop, capacity one
  due,         \* dueJobs of each loop: Jobs still to dispatch
  dueMinute,   \* nowMinute of that evaluation, 0 when it is over
  now,         \* the clock
  count,       \* history: dispatches of each Job for each minute
  owed         \* history: <<job, minute>> that must fire and has not yet

tableVars == <<jobs, job, added, dispatcher>>
stopVars == <<running, stopOnce, cancelled>>
loopVars == <<lpc, tick, due, dueMinute>>
vars == <<tableVars, stopVars, loopVars, now, count, owed>>

NoTick == -1
Never == -1
Minute(t) == t \div 2
Minutes == 0..Minute(MaxTime)
JobIds == 1..MaxJobs
Loops == 1..MaxLoops       \* tickLoop goroutines, in the order of their Start

Registered == {jobs[n] : n \in Names} \ {0}

Init ==
  /\ jobs = [n \in Names |-> 0]
  /\ job = [i \in JobIds |-> [raw |-> CHOOSE e \in Accepted : TRUE, enabled |-> FALSE, lastFired |-> Never]]
  /\ added = 0
  /\ dispatcher = FALSE
  /\ running = FALSE
  /\ stopOnce = "new"
  /\ cancelled = FALSE
  /\ lpc = [l \in Loops |-> "unborn"]
  /\ tick = [l \in Loops |-> NoTick]
  /\ due = [l \in Loops |-> {}]
  /\ dueMinute = [l \in Loops |-> 0]
  /\ now = 0
  /\ count = [i \in JobIds |-> [m \in Minutes |-> 0]]
  /\ owed = {}

-----------------------------------------------------------------------------
SetDispatcher ==
  /\ ~dispatcher
  /\ dispatcher' = TRUE
  /\ UNCHANGED <<jobs, job, added, stopVars, loopVars, now, count, owed>>

(* AddJob parses the expression, then takes a free name; another name is   *)
(* refused with ErrJobExists.                                              *)
AddJob(n, e) ==
  /\ e \in Accepted
  /\ jobs[n] = 0
  /\ added < MaxJobs
  /\ added' = added + 1
  /\ jobs' = [jobs EXCEPT ![n] = added + 1]
  /\ job' = [job EXCEPT ![added + 1] =
               [raw |-> e, enabled |-> TRUE, lastFired |-> Never]]
  /\ UNCHANGED <<dispatcher, stopVars, loopVars, now, count, owed>>

RemoveJob(n) ==
  /\ jobs[n] # 0
  /\ jobs' = [jobs EXCEPT ![n] = 0]
  /\ owed' = {p \in owed : p[1] # jobs[n]}
  /\ UNCHANGED <<job, added, dispatcher, stopVars, loopVars, now, count>>

EnableJob(n) ==
  /\ jobs[n] # 0
  /\ job' = [job EXCEPT ![jobs[n]].enabled = TRUE]
  /\ UNCHANGED <<jobs, added, dispatcher, stopVars, loopVars, now, count, owed>>

DisableJob(n) ==
  /\ jobs[n] # 0
  /\ job' = [job EXCEPT ![jobs[n]].enabled = FALSE]
  /\ owed' = {p \in owed : p[1] # jobs[n]}
  /\ UNCHANGED <<jobs, added, dispatcher, stopVars, loopVars, now, count>>

-----------------------------------------------------------------------------
(* Start spawns a tick loop unless s.running is set already.               *)
Start(l) ==
  /\ ~running
  /\ lpc[l] = "unborn" /\ \A k \in Loops : k < l => lpc[k] # "unborn"
  /\ running' = TRUE
  /\ lpc' = [lpc EXCEPT ![l] = "select"]
  /\ UNCHANGED <<tableVars, stopOnce, cancelled, tick, due, dueMinute, now, count, owed>>

(* Stop, or OnStop: close(quit) once, then running = false under the lock. *)
CloseQuit ==
  /\ stopOnce = "new"
  /\ stopOnce' = "closing"
  /\ owed' = {}
  /\ UNCHANGED <<tableVars, running, cancelled, loopVars, now, count>>

ClearRunning ==
  /\ stopOnce = "closing"
  /\ running' = FALSE
  /\ stopOnce' = "done"
  /\ UNCHANGED <<tableVars, cancelled, loopVars, now, count, owed>>

(* The caller of Start cancels its context.                                *)
Cancel ==
  /\ ~cancelled
  /\ \E l \in Loops : lpc[l] # "unborn"
  /\ cancelled' = TRUE
  /\ owed' = {}
  /\ UNCHANGED <<tableVars, running, stopOnce, loopVars, now, count>>

-----------------------------------------------------------------------------
(* Operators whose name ends in _Bug are mistakes the properties below are *)
(* tested against; no specification uses them.                             *)

(* one tick every two minutes *)
TickInterval_SlowBug == 4

(* tickInterval, in half minutes.                                          *)
TickInterval == 1

Ticking == {l \in Loops : lpc[l] \in {"select", "dispatch"}}

(* How late a loop may be: two of them handle each tick before the next.   *)
Lag == IF Cardinality(Ticking) > 1 THEN 0 ELSE MaxLag

(* Half a minute passes.  A tick that finds the one-place channel of its   *)
(* ticker full is dropped.                                                 *)
(* A job that is enabled and matches a minute that begins while a loop     *)
(* runs is owed a firing.                                                  *)
Advance ==
  /\ now < MaxTime
  /\ \A l \in Loops : tick[l] # NoTick => now - tick[l] < Lag
  /\ now' = now + 1
  /\ tick' = [l \in Loops |->
                IF l \in Ticking /\ tick[l] = NoTick /\ (now + 1) % TickInterval = 0
                THEN now + 1 ELSE tick[l]]
  /\ owed' = IF /\ now' % 2 = 0
                /\ stopOnce = "new" /\ ~cancelled
                /\ Ticking # {}
             THEN owed \cup {<<i, Minute(now')>> :
                    i \in {k \in Registered : job[k].enabled /\ Matches(Schedule[job[k].raw], Minute(now'))}}
             ELSE owed
  /\ UNCHANGED <<tableVars, stopVars, lpc, due, dueMinute, count>>

(* The cases of tickLoop's select; a ready one is chosen at random.        *)
LoopQuit_ContextOnlyBug(l) ==
  /\ lpc[l] = "select"
  /\ stopOnce # "new" /\ cancelled
  /\ lpc' = [lpc EXCEPT ![l] = "exited"]
  /\ tick' = [tick EXCEPT ![l] = NoTick]
  /\ UNCHANGED <<tableVars, stopVars, due, dueMinute, now, count, owed>>

LoopQuit(l) ==
  /\ lpc[l] = "select"
  /\ stopOnce # "new"
  /\ lpc' = [lpc EXCEPT ![l] = "exited"]
  /\ tick' = [tick EXCEPT ![l] = NoTick]
  /\ UNCHANGED <<tableVars, stopVars, due, dueMinute, now, count, owed>>

(* ctx.Done: the loop calls Stop itself, which returns once quit is closed *)
(* and running is cleared.                                                 *)
LoopCancelled(l) ==
  /\ lpc[l] = "select"
  /\ cancelled
  /\ lpc' = [lpc EXCEPT ![l] = "stopping"]
  /\ stopOnce' = IF stopOnce = "new" THEN "closing" ELSE stopOnce
  /\ tick' = [tick EXCEPT ![l] = NoTick]
  /\ UNCHANGED <<tableVars, running, cancelled, due, dueMinute, now, count, owed>>

LoopStopped(l) ==
  /\ lpc[l] = "stopping"
  /\ stopOnce = "done"
  /\ lpc' = [lpc EXCEPT ![l] = "exited"]
  /\ UNCHANGED <<tableVars, stopVars, tick, due, dueMinute, now, count, owed>>

(* lastFired is not consulted *)
Due_RefireBug(m) ==
  {i \in Registered : job[i].enabled /\ Matches(Schedule[job[i].raw], m)}

(* The jobs evaluateAndDispatch finds due in minute m.                     *)
Due(m) ==
  {i \in Registered : job[i].enabled /\ job[i].lastFired # m /\ Matches(Schedule[job[i].raw], m)}

(* evaluateAndDispatch under the lock: lastFired is set for the due jobs,  *)
(* and they are dropped when no dispatcher is registered.                  *)
LoopTick(l) ==
  /\ lpc[l] = "select"
  /\ tick[l] # NoTick
  /\ LET m == Minute(tick[l])
         fired == Due(m)
     IN /\ job' = [i \in JobIds |->
                     IF i \in fired THEN [job[i] EXCEPT !.lastFired = m] ELSE job[i]]
        /\ dueMinute' = [dueMinute EXCEPT ![l] = IF dispatcher /\ fired # {} THEN m ELSE 0]
        /\ due' = [due EXCEPT ![l] = IF dispatcher THEN fired ELSE {}]
        /\ owed' = owed \ {<<i, m>> : i \in fired}
        /\ lpc' = [lpc EXCEPT ![l] = IF dispatcher /\ fired # {} THEN "dispatch" ELSE "select"]
  /\ tick' = [tick EXCEPT ![l] = NoTick]
  /\ UNCHANGED <<jobs, added, dispatcher, stopVars, now, count>>

(* go dispatcher(ctx, task) for one due job, after the lock was released.  *)
LoopDispatch(l) ==
  /\ lpc[l] = "dispatch"
  /\ \E i \in due[l] :
       /\ count' = [count EXCEPT ![i][dueMinute[l]] = @ + 1]
       /\ due' = [due EXCEPT ![l] = @ \ {i}]
       /\ lpc' = [lpc EXCEPT ![l] = IF due[l] = {i} THEN "select" ELSE "dispatch"]
       /\ dueMinute' = [dueMinute EXCEPT ![l] = IF due[l] = {i} THEN 0 ELSE @]
  /\ UNCHANGED <<tableVars, stopVars, tick, now, owed>>

-----------------------------------------------------------------------------
TableStep ==
  \/ SetDispatcher
  \/ \E n \in Names : \E e \in Exprs : AddJob(n, e)
  \/ \E n \in Names : RemoveJob(n) \/ EnableJob(n) \/ DisableJob(n)

LoopStep(l) ==
  \/ LoopQuit(l)
  \/ LoopCancelled(l)
  \/ LoopStopped(l)
  \/ LoopTick(l)
  \/ LoopDispatch(l)

Next ==
  \/ TableStep
  \/ \E l \in Loops : Start(l)
  \/ CloseQuit
  \/ ClearRunning
  \/ Cancel
  \/ Advance
  \/ \E l \in Loops : LoopStep(l)

Spec == Init /\ [][Next]_vars

(* The goroutines run; select is random, so a case that is ready again and *)
(* again is taken.  Nobody is obliged to call the API.                     *)
Fairness ==
  /\ WF_vars(ClearRunning)
  /\ \A l \in Loops :
       /\ SF_vars(LoopQuit(l) \/ LoopCancelled(l))
       /\ WF_vars(LoopStopped(l) \/ LoopDispatch(l))

FairSpec == Spec /\ Fairness

-----------------------------------------------------------------------------
(* Type invariant. *)
TypeOK ==
  /\ jobs \in [Names -> 0..added]
  /\ job \in [JobIds -> [raw : Accepted, enabled : BOOLEAN,
                         lastFired : Minutes \cup {Never}]]
  /\ added \in 0..MaxJobs
  /\ dispatcher \in BOOLEAN
  /\ running \in BOOLEAN
  /\ stopOnce \in {"new", "closing", "done"}
  /\ cancelled \in BOOLEAN
  /\ lpc \in [Loops -> {"unborn", "select", "dispatch", "stopping", "exited"}]
  /\ tick \in [Loops -> 0..now \cup {NoTick}]
  /\ due \in [Loops -> SUBSET (1..added)]
  /\ \A l \in Loops : due[l] # {} <=> lpc[l] = "dispatch"
  /\ dueMinute \in [Loops -> Minutes]
  /\ now \in 0..MaxTime
  /\ count \in [JobIds -> [Minutes -> Nat]]
  /\ owed \subseteq JobIds \X Minutes

(* lastFired works: although every minute is checked twice, and by two     *)
(* loops when one is slow to notice that it was stopped, a job fires at    *)
(* most once for a minute, counting the firings still to be dispatched.    *)
(* Two loops must handle each tick before the next one (Lag): lastFired    *)
(* remembers one minute only, and two loops that alternate between two     *)
(* minutes would reset it for each other.                                  *)
OncePerMinute == TypeOK /\
  \A i \in JobIds : \A m \in Minutes :
    count[i][m] + Cardinality({l \in Loops : i \in due[l] /\ dueMinute[l] = m}) <= 1

(* From the text of the expression to the dispatch: a job fires only in    *)
(* minutes that have begun and that its expression names as it is written, *)
(* also when the tick was handled late, and NextAfter, asked earlier,      *)
(* never promises a later minute than the one in which it fired.  Excepted *)
(* is an expression whose step wraps: "30-40/9223372036854775807" also     *)
(* matches minute 0.                                                       *)
FiresAsWritten ==
  \A i \in JobIds : \A m \in Minutes : count[i][m] > 0 =>
    /\ m <= Minute(now)
    /\ Says(job[i].raw, m) \/ StepOverflows(job[i].raw)
    /\ \A t \in Minutes : t < m /\ m <= t + MaxIter => NextAfter(Schedule[job[i].raw], t) \in (t + 1)..m

(* "checking twice per minute guarantees we never miss a firing": when the *)
(* loop is late by less than a minute, an enabled job has fired by the     *)
(* first half of the following minute.                                     *)
NeverMiss ==
  \A p \in owed : now <= 2 * p[2] + 2

(* After Stop every tick loop exits.                                       *)
StopEndsLoops ==
  \A l \in Loops : stopOnce # "new" ~> lpc[l] \in {"unborn", "exited"}

(* "Start begins the background tick loop": a scheduler that says it is    *)
(* running does not stay without a tick loop.                              *)
RunningHasLoop ==
  running ~> (~running \/ Ticking # {})

=============================================================================
