--------------------------- MODULE SchedulerProofs ---------------------------
(***************************************************************************)
(* The scheduler for any number of jobs, names, tick loops and minutes,    *)
(* any expressions and any calendar.                                       *)
(***************************************************************************)
EXTENDS Scheduler, FiniteSetTheorems, SequenceTheorems, WellFoundedInduction, TLAPS

(* Ticks are handled in order: all that are waiting are of one moment, and *)
(* no job has fired for a later minute.                                    *)
TickInv ==
  /\ \A l \in Loops : tick[l] # NoTick => l \in Ticking /\ now <= tick[l] + MaxLag
  /\ \A l, k \in Loops : tick[l] # NoTick /\ tick[k] # NoTick => tick[l] = tick[k]
  /\ \A l \in Loops : tick[l] # NoTick => \A i \in JobIds : job[i].lastFired <= Minute(tick[l])
  /\ \A i \in JobIds : job[i].lastFired <= Minute(now)
  /\ \A i \in JobIds : i > added => job[i].lastFired = Never

(* Job i has a dispatch for minute m, done or still to come.               *)
InDue(l, i, m) == i \in due[l] /\ dueMinute[l] = m
Fired(i, m) == count[i][m] > 0 \/ \E l \in Loops : InDue(l, i, m)

(* lastFired remembers only the last minute.  The earlier ones cannot come *)
(* back because ticks are handled in order.                                *)
FireInv ==
  /\ \A i \in JobIds : \A m \in Minutes :
       Fired(i, m) => m <= job[i].lastFired /\ Matches(Schedule[job[i].raw], m)
  /\ \A i \in JobIds : \A m \in Minutes :
       /\ count[i][m] <= 1
       /\ count[i][m] = 1 => \A l \in Loops : ~InDue(l, i, m)
       /\ \A l, k \in Loops : InDue(l, i, m) /\ InDue(k, i, m) => l = k

SchedulerInv == TypeOK /\ TickInv /\ FireInv

(* A job that is owed a firing is still due, the one loop still ticks, and *)
(* once the first half of the minute is over a tick of it is waiting.      *)
OwedInv ==
  /\ stopOnce = "new" /\ (\E l \in Loops : lpc[l] # "unborn") => running
  /\ owed # {} => stopOnce = "new" /\ ~cancelled /\ Ticking # {}
  /\ \A p \in owed :
       /\ p[1] \in Due(p[2])
       /\ 2 * p[2] <= now /\ now <= 2 * p[2] + 2
       /\ 2 * p[2] < now => \A l \in Ticking : tick[l] # NoTick /\ Minute(tick[l]) = p[2]

-----------------------------------------------------------------------------
USE DEF tableVars, stopVars, loopVars

(* Halves of a number.                                                     *)
LEMMA MinuteBounds ==
  ASSUME NEW t \in Nat
  PROVE  Minute(t) \in Nat /\ 2 * Minute(t) <= t /\ t <= 2 * Minute(t) + 1
BY DEF Minute

(* A minute has two halves.                                                *)
LEMMA MinuteUnique ==
  ASSUME NEW t \in Nat, NEW m \in Nat, 2 * m <= t, t <= 2 * m + 1
  PROVE  Minute(t) = m
<1>1. PICK n \in Nat : n = Minute(t) /\ 2 * n <= t /\ t <= 2 * n + 1
  BY MinuteBounds
<1>2. n = m
  BY <1>1
<1> QED
  BY <1>1, <1>2

(* Minutes do not run backwards.                                           *)
LEMMA MinuteMonotone ==
  ASSUME NEW s \in Nat, NEW t \in Nat, s <= t
  PROVE  Minute(s) <= Minute(t)
BY MinuteBounds

(* Every moment of the model belongs to one of its minutes.                *)
LEMMA MinuteInMinutes ==
  ASSUME NEW t \in 0..MaxTime
  PROVE  Minute(t) \in Minutes
<1>1. t \in Nat /\ MaxTime \in Nat /\ t <= MaxTime
  BY BoundsAssumption
<1> QED
  BY <1>1, MinuteBounds, MinuteMonotone DEF Minutes

(* What TypeOK says of the numbers.                                        *)
LEMMA TypeFacts ==
  ASSUME TypeOK
  PROVE  /\ now \in Nat /\ now <= MaxTime /\ MaxTime \in Nat /\ MaxLag \in Nat
         /\ added \in Nat /\ added <= MaxJobs /\ MaxJobs \in Nat
         /\ 1..added \subseteq JobIds
         /\ \A l \in Loops : tick[l] # NoTick => tick[l] \in Nat /\ tick[l] <= now /\ tick[l] \in 0..MaxTime
         /\ \A i \in JobIds : job[i].lastFired \in Int /\ job[i].lastFired >= Never
         /\ Registered \subseteq 1..added
         /\ NoTick = -1 /\ Never = -1
         /\ Minutes \subseteq Nat
<1>1. /\ now \in Nat /\ now <= MaxTime /\ MaxTime \in Nat /\ MaxLag \in Nat
      /\ added \in Nat /\ added <= MaxJobs /\ MaxJobs \in Nat
      /\ 1..added \subseteq JobIds
      /\ NoTick = -1 /\ Never = -1
  BY BoundsAssumption DEF TypeOK, JobIds, NoTick, Never
<1>2. Minutes \subseteq Nat
  BY <1>1, MinuteBounds DEF Minutes
<1>3. \A l \in Loops : tick[l] # NoTick => tick[l] \in Nat /\ tick[l] <= now /\ tick[l] \in 0..MaxTime
  BY <1>1 DEF TypeOK
<1>4. \A i \in JobIds : job[i].lastFired \in Int /\ job[i].lastFired >= Never
  <2>1. \A i \in JobIds : job[i].lastFired \in Minutes \cup {Never}
    BY DEF TypeOK
  <2>2. ASSUME NEW t \in Minutes \cup {Never} PROVE t \in Int /\ t >= Never
    BY <1>2 DEF Never
  <2> QED
    BY <2>1, <2>2
<1>5. Registered \subseteq 1..added
  BY <1>1 DEF TypeOK, Registered
<1> QED
  BY <1>1, <1>2, <1>3, <1>4, <1>5

(* An empty table and no loop.                                             *)
LEMMA InitScheduler == Init => SchedulerInv /\ OwedInv
<1> SUFFICES ASSUME Init PROVE SchedulerInv /\ OwedInv
  OBVIOUS
<1>1. 0 \in 0..MaxTime /\ 0 \in 0..MaxJobs /\ 0 \in Minutes
  BY BoundsAssumption, MinuteBounds DEF Minutes
<1>2. (CHOOSE e \in Accepted : TRUE) \in Accepted
  BY ExprsAssumption
<1>3. job \in [JobIds -> [raw : Accepted, enabled : BOOLEAN, lastFired : Minutes \cup {Never}]]
  BY <1>2 DEF Init
<1>4. jobs \in [Names -> 0..added] /\ tick \in [Loops -> 0..now \cup {NoTick}]
  BY DEF Init
<1>5. due \in [Loops -> SUBSET (1..added)] /\ dueMinute \in [Loops -> Minutes] /\ count \in [JobIds -> [Minutes -> Nat]]
  BY <1>1 DEF Init
<1>6. TypeOK
  BY <1>1, <1>3, <1>4, <1>5 DEF Init, TypeOK
<1>7. TickInv
  <2>1. \A i \in JobIds : job[i].lastFired = Never /\ Never <= Minute(now)
    BY MinuteBounds DEF Init, Never
  <2> QED
    BY <2>1 DEF Init, TickInv
<1>8. FireInv
  BY DEF Init, FireInv, Fired, InDue
<1>9. OwedInv
  BY DEF Init, OwedInv
<1> QED
  BY <1>6, <1>7, <1>8, <1>9 DEF SchedulerInv

-----------------------------------------------------------------------------
(* The Job structs and the sets of due jobs after each step that changes   *)
(* them.                                                                   *)

JobType == [raw : Accepted, enabled : BOOLEAN, lastFired : Minutes \cup {Never}]

(* AddJob fills the next Job struct.                                       *)
LEMMA AddJobEffect ==
  ASSUME TypeOK, NEW n \in Names, NEW e \in Exprs, AddJob(n, e)
  PROVE  /\ added' = added + 1 /\ added + 1 \in JobIds
         /\ job' \in [JobIds -> JobType]
         /\ job'[added + 1].lastFired = Never
         /\ \A i \in JobIds : i # added + 1 => job'[i] = job[i]
         /\ jobs' \in [Names -> 0..(added + 1)]
         /\ Registered' = Registered \cup {added + 1}
         /\ UNCHANGED <<dispatcher, stopVars, loopVars, now, count, owed>>
<1>1. /\ e \in Accepted /\ jobs[n] = 0 /\ added < MaxJobs /\ added' = added + 1
      /\ jobs' = [jobs EXCEPT ![n] = added + 1]
      /\ job' = [job EXCEPT ![added + 1] = [raw |-> e, enabled |-> TRUE, lastFired |-> Never]]
      /\ UNCHANGED <<dispatcher, stopVars, loopVars, now, count, owed>>
  BY DEF AddJob
<1>2. added \in Nat /\ MaxJobs \in Nat
  BY TypeFacts
<1>3. added + 1 \in JobIds
  BY <1>1, <1>2 DEF JobIds
<1>4. [raw |-> e, enabled |-> TRUE, lastFired |-> Never] \in JobType
  BY <1>1 DEF JobType
<1>5. job \in [JobIds -> JobType]
  BY DEF TypeOK, JobType
<1>6. /\ job' \in [JobIds -> JobType]
      /\ job'[added + 1].lastFired = Never
      /\ \A i \in JobIds : i # added + 1 => job'[i] = job[i]
  BY <1>1, <1>3, <1>4, <1>5
<1>7. 0..added \subseteq 0..(added + 1) /\ added + 1 \in 0..(added + 1) /\ added + 1 # 0
  BY <1>2
<1>8. jobs' \in [Names -> 0..(added + 1)]
  BY <1>1, <1>7 DEF TypeOK
<1>9. Registered' = Registered \cup {added + 1}
  <2>1. jobs'[n] = added + 1 /\ \A k \in Names : k # n => jobs'[k] = jobs[k]
    BY <1>1 DEF TypeOK
  <2> QED
    BY <1>1, <1>7, <2>1 DEF Registered
<1> QED
  BY <1>1, <1>3, <1>6, <1>8, <1>9

(* RemoveJob, EnableJob and DisableJob leave what has fired alone, and     *)
(* cancel what a removed or disabled job is owed.                          *)
LEMMA TableEffect ==
  ASSUME TypeOK, NEW n \in Names, RemoveJob(n) \/ EnableJob(n) \/ DisableJob(n)
  PROVE  /\ job' \in [JobIds -> JobType]
         /\ \A i \in JobIds : job'[i].lastFired = job[i].lastFired /\ job'[i].raw = job[i].raw
         /\ jobs' \in [Names -> 0..added]
         /\ owed' \subseteq owed
         /\ \A p \in owed' : p[1] \in Due(p[2]) => p[1] \in Due(p[2])'
         /\ UNCHANGED <<added, dispatcher, stopVars, loopVars, now, count>>
<1>1. job \in [JobIds -> JobType] /\ jobs \in [Names -> 0..added] /\ jobs[n] # 0
  BY DEF TypeOK, JobType, RemoveJob, EnableJob, DisableJob
<1>2. jobs[n] \in JobIds /\ Registered \subseteq JobIds /\ jobs[n] \in Registered
  BY <1>1, TypeFacts DEF Registered
<1>3. CASE RemoveJob(n)
  <2>1. /\ jobs' = [jobs EXCEPT ![n] = 0] /\ owed' = {p \in owed : p[1] # jobs[n]}
        /\ UNCHANGED <<job, added, dispatcher, stopVars, loopVars, now, count>>
    BY <1>3 DEF RemoveJob
  <2>2. 0 \in 0..added
    BY TypeFacts
  <2>3. jobs' \in [Names -> 0..added]
    BY <1>1, <2>1, <2>2
  <2>4. \A i \in Registered : i # jobs[n] => i \in Registered'
    <3>1. \A k \in Names : jobs'[k] = IF k = n THEN 0 ELSE jobs[k]
      BY <1>1, <2>1
    <3> QED
      BY <3>1 DEF Registered
  <2>5. \A p \in owed' : p[1] \in Due(p[2]) => p[1] \in Due(p[2])'
    BY <2>1, <2>4 DEF Due
  <2> QED
    BY <1>1, <2>1, <2>3, <2>5
<1>4. CASE EnableJob(n)
  <2>1. /\ job' = [job EXCEPT ![jobs[n]].enabled = TRUE]
        /\ UNCHANGED <<jobs, added, dispatcher, stopVars, loopVars, now, count, owed>>
    BY <1>4 DEF EnableJob
  <2>2. job' \in [JobIds -> JobType]
    BY <1>1, <1>2, <2>1 DEF JobType
  <2>3. \A i \in JobIds : /\ job'[i].lastFired = job[i].lastFired /\ job'[i].raw = job[i].raw
                          /\ job[i].enabled => job'[i].enabled
    BY <1>1, <1>2, <2>1 DEF JobType
  <2>4. \A p \in owed' : p[1] \in Due(p[2]) => p[1] \in Due(p[2])'
    BY <1>2, <2>1, <2>3 DEF Due, Registered
  <2> QED
    BY <1>1, <2>1, <2>2, <2>3, <2>4
<1>5. CASE DisableJob(n)
  <2>1. /\ job' = [job EXCEPT ![jobs[n]].enabled = FALSE] /\ owed' = {p \in owed : p[1] # jobs[n]}
        /\ UNCHANGED <<jobs, added, dispatcher, stopVars, loopVars, now, count>>
    BY <1>5 DEF DisableJob
  <2>2. job' \in [JobIds -> JobType]
    BY <1>1, <1>2, <2>1 DEF JobType
  <2>3. \A i \in JobIds : /\ job'[i].lastFired = job[i].lastFired /\ job'[i].raw = job[i].raw
                          /\ i # jobs[n] => job'[i] = job[i]
    BY <1>1, <1>2, <2>1 DEF JobType
  <2>4. \A p \in owed' : p[1] \in Due(p[2]) => p[1] \in Due(p[2])'
    BY <1>2, <2>1, <2>3 DEF Due, Registered
  <2> QED
    BY <1>1, <2>1, <2>2, <2>3, <2>4
<1> QED
  BY <1>3, <1>4, <1>5

(* Loop l goes on to dispatch the jobs in f, which are due in minute m.    *)
Takes(l, m, f) ==
  /\ due' = [due EXCEPT ![l] = f]
  /\ dueMinute' = [dueMinute EXCEPT ![l] = IF f # {} THEN m ELSE 0]
  /\ lpc' = [lpc EXCEPT ![l] = IF f # {} THEN "dispatch" ELSE "select"]

(* evaluateAndDispatch marks the due jobs and takes them along.            *)
LEMMA LoopTickEffect ==
  ASSUME TypeOK, NEW l \in Loops, LoopTick(l), NEW m, m = Minute(tick[l])
  PROVE  /\ lpc[l] = "select" /\ tick[l] # NoTick /\ m \in Minutes /\ Due(m) \subseteq 1..added
         /\ job' \in [JobIds -> JobType]
         /\ \A i \in JobIds : /\ job'[i].raw = job[i].raw /\ job'[i].enabled = job[i].enabled
                              /\ job'[i].lastFired = IF i \in Due(m) THEN m ELSE job[i].lastFired
         /\ tick' = [tick EXCEPT ![l] = NoTick]
         /\ \E f \in SUBSET Due(m) : Takes(l, m, f)
         /\ owed' = owed \ {<<i, m>> : i \in Due(m)}
         /\ UNCHANGED <<jobs, added, dispatcher, stopVars, now, count>>
<1>1. /\ lpc[l] = "select" /\ tick[l] # NoTick
      /\ job' = [i \in JobIds |-> IF i \in Due(m) THEN [job[i] EXCEPT !.lastFired = m] ELSE job[i]]
      /\ dueMinute' = [dueMinute EXCEPT ![l] = IF dispatcher /\ Due(m) # {} THEN m ELSE 0]
      /\ due' = [due EXCEPT ![l] = IF dispatcher THEN Due(m) ELSE {}]
      /\ owed' = owed \ {<<i, m>> : i \in Due(m)}
      /\ lpc' = [lpc EXCEPT ![l] = IF dispatcher /\ Due(m) # {} THEN "dispatch" ELSE "select"]
      /\ tick' = [tick EXCEPT ![l] = NoTick]
      /\ UNCHANGED <<jobs, added, dispatcher, stopVars, now, count>>
  BY DEF LoopTick
<1>2. m \in Minutes
  BY <1>1, TypeFacts, MinuteInMinutes
<1>3. Due(m) \subseteq 1..added
  BY TypeFacts DEF Due
<1>4. job \in [JobIds -> JobType]
  BY DEF TypeOK, JobType
<1>5. ASSUME NEW i \in JobIds
      PROVE  /\ job'[i] \in JobType
             /\ job'[i].raw = job[i].raw /\ job'[i].enabled = job[i].enabled
             /\ job'[i].lastFired = IF i \in Due(m) THEN m ELSE job[i].lastFired
  <2>1. job'[i] = IF i \in Due(m) THEN [job[i] EXCEPT !.lastFired = m] ELSE job[i]
    BY <1>1
  <2> QED
    BY <1>2, <1>4, <2>1 DEF JobType
<1>6. job' \in [JobIds -> JobType]
  BY <1>1, <1>5
<1>7. \E f \in SUBSET Due(m) : Takes(l, m, f)
  <2>1. CASE dispatcher
    <3> WITNESS Due(m) \in SUBSET Due(m)
    <3> QED
      BY <1>1, <2>1 DEF Takes
  <2>2. CASE ~dispatcher
    <3> WITNESS {} \in SUBSET Due(m)
    <3> QED
      BY <1>1, <2>2 DEF Takes
  <2> QED
    BY <2>1, <2>2
<1> QED
  BY <1>1, <1>2, <1>3, <1>5, <1>6, <1>7

(* One due job is dispatched.                                              *)
LEMMA LoopDispatchEffect ==
  ASSUME TypeOK, NEW l \in Loops, LoopDispatch(l)
  PROVE  \E i \in due[l] :
           /\ lpc[l] = "dispatch" /\ i \in JobIds /\ dueMinute[l] \in Minutes
           /\ count' \in [JobIds -> [Minutes -> Nat]]
           /\ \A j \in JobIds : \A m \in Minutes :
                count'[j][m] = IF j = i /\ m = dueMinute[l] THEN count[j][m] + 1 ELSE count[j][m]
           /\ due' = [due EXCEPT ![l] = due[l] \ {i}]
           /\ lpc' = [lpc EXCEPT ![l] = IF due[l] = {i} THEN "select" ELSE "dispatch"]
           /\ dueMinute' = [dueMinute EXCEPT ![l] = IF due[l] = {i} THEN 0 ELSE dueMinute[l]]
           /\ UNCHANGED <<tableVars, stopVars, tick, now, owed>>
<1>1. PICK i \in due[l] :
        /\ lpc[l] = "dispatch"
        /\ count' = [count EXCEPT ![i][dueMinute[l]] = @ + 1]
        /\ due' = [due EXCEPT ![l] = @ \ {i}]
        /\ lpc' = [lpc EXCEPT ![l] = IF due[l] = {i} THEN "select" ELSE "dispatch"]
        /\ dueMinute' = [dueMinute EXCEPT ![l] = IF due[l] = {i} THEN 0 ELSE @]
        /\ UNCHANGED <<tableVars, stopVars, tick, now, owed>>
  BY DEF LoopDispatch
<1>2. /\ due \in [Loops -> SUBSET (1..added)] /\ dueMinute \in [Loops -> Minutes]
      /\ count \in [JobIds -> [Minutes -> Nat]]
  BY DEF TypeOK
<1>3. i \in JobIds /\ dueMinute[l] \in Minutes
  BY <1>2, TypeFacts
<1>4. /\ count' \in [JobIds -> [Minutes -> Nat]]
      /\ \A j \in JobIds : \A m \in Minutes :
           count'[j][m] = IF j = i /\ m = dueMinute[l] THEN count[j][m] + 1 ELSE count[j][m]
  BY <1>1, <1>2, <1>3
<1>5. due' = [due EXCEPT ![l] = due[l] \ {i}]
  BY <1>1, <1>2
<1>6. dueMinute' = [dueMinute EXCEPT ![l] = IF due[l] = {i} THEN 0 ELSE dueMinute[l]]
  BY <1>1, <1>2
<1> QED
  BY <1>1, <1>3, <1>4, <1>5, <1>6

(* Every ticker that has no tick waiting fires; only a single loop can     *)
(* have one waiting, and not for longer than MaxLag.                       *)
LEMMA AdvanceEffect ==
  ASSUME TypeOK, TickInv, Advance
  PROVE  /\ now' = now + 1 /\ now' \in 0..MaxTime
         /\ tick' \in [Loops -> 0..now' \cup {NoTick}]
         /\ \A l \in Loops : tick[l] # NoTick =>
              tick'[l] = tick[l] /\ now < tick[l] + MaxLag /\ \A k \in Ticking : k = l
         /\ \A l \in Ticking : tick[l] = NoTick => tick'[l] = now + 1
         /\ \A l \in Loops : l \notin Ticking => tick'[l] = NoTick
         /\ UNCHANGED <<tableVars, stopVars, lpc, due, dueMinute, count>>
<1>1. /\ now < MaxTime /\ now' = now + 1
      /\ \A l \in Loops : tick[l] # NoTick => now - tick[l] < Lag
      /\ tick' = [l \in Loops |-> IF l \in Ticking /\ tick[l] = NoTick /\ (now + 1) % TickInterval = 0
                                  THEN now + 1 ELSE tick[l]]
      /\ UNCHANGED <<tableVars, stopVars, lpc, due, dueMinute, count>>
  BY DEF Advance
<1>2. now \in Nat /\ MaxTime \in Nat /\ MaxLag \in Nat /\ NoTick = -1
      /\ \A l \in Loops : tick[l] # NoTick => tick[l] \in Nat /\ tick[l] <= now
  BY TypeFacts
<1>3. now' \in 0..MaxTime /\ (now + 1) % TickInterval = 0
  BY <1>1, <1>2 DEF TickInterval
<1>4. IsFiniteSet(Ticking)
  <2>1. IsFiniteSet(Loops)
    BY BoundsAssumption, FS_Interval DEF Loops
  <2> QED
    BY <2>1, FS_Subset DEF Ticking
<1>5. ASSUME NEW l \in Loops, tick[l] # NoTick PROVE now < tick[l] + MaxLag /\ \A k \in Ticking : k = l
  <2>1. tick[l] \in Nat /\ tick[l] <= now /\ now - tick[l] < Lag /\ l \in Ticking
    BY <1>1, <1>2, <1>5 DEF TickInv
  <2>2. ~(Cardinality(Ticking) > 1)
    BY <1>2, <2>1 DEF Lag
  <2>3. Lag = MaxLag
    BY <2>2 DEF Lag
  <2>4. ASSUME NEW k \in Ticking, k # l PROVE FALSE
    <3>1. {k, l} \subseteq Ticking
      BY <2>1
    <3>2. Cardinality({k, l}) <= Cardinality(Ticking) /\ Cardinality(Ticking) \in Nat
      BY <1>4, <3>1, FS_Subset, FS_CardinalityType
    <3>3. Cardinality({k, l}) = 2
      <4>1. IsFiniteSet({k}) /\ Cardinality({k}) = 1
        BY FS_Singleton
      <4>2. {k, l} = {k} \cup {l} /\ l \notin {k}
        BY <2>4
      <4>3. Cardinality({k} \cup {l}) = Cardinality({k}) + 1
        BY <4>1, <4>2, FS_AddElement
      <4> QED
        BY <4>1, <4>2, <4>3
    <3> QED
      BY <2>2, <3>2, <3>3
  <2> QED
    BY <1>2, <2>1, <2>3, <2>4
<1>6. \A l \in Loops : tick'[l] = IF l \in Ticking /\ tick[l] = NoTick THEN now + 1 ELSE tick[l]
  BY <1>1, <1>3
<1>7. tick' \in [Loops -> 0..now' \cup {NoTick}]
  <2>1. \A l \in Loops : tick'[l] \in 0..now' \cup {NoTick}
    BY <1>1, <1>2, <1>6
  <2> QED
    BY <1>1, <2>1
<1>8. \A l \in Loops : l \notin Ticking => tick'[l] = NoTick
  BY <1>6 DEF TickInv
<1>9. \A l \in Ticking : l \in Loops
  BY DEF Ticking
<1> QED
  BY <1>1, <1>3, <1>5, <1>6, <1>7, <1>8, <1>9

-----------------------------------------------------------------------------
(* Steps that change neither the Jobs nor the clock nor a dispatch.        *)
ControlStep ==
  \/ SetDispatcher
  \/ (\E l \in Loops : Start(l) \/ LoopQuit(l) \/ LoopCancelled(l) \/ LoopStopped(l))
  \/ CloseQuit \/ ClearRunning \/ Cancel
  \/ UNCHANGED vars

(* Such a step may drop a loop's pending tick when the loop ends, nothing  *)
(* more.                                                                   *)
LEMMA ControlEffect ==
  ASSUME TypeOK, ControlStep
  PROVE  /\ UNCHANGED <<jobs, job, added, due, dueMinute, now, count>>
         /\ lpc' \in [Loops -> {"unborn", "select", "dispatch", "stopping", "exited"}]
         /\ tick' \in [Loops -> 0..now \cup {NoTick}]
         /\ \A l \in Loops : (tick'[l] = tick[l] /\ (l \in Ticking => l \in Ticking')) \/ tick'[l] = NoTick
         /\ \A l \in Loops : lpc'[l] = "dispatch" <=> lpc[l] = "dispatch"
         /\ owed' \in {owed, {}}
<1> USE DEF TypeOK, Ticking
<1>1. CASE SetDispatcher \/ CloseQuit \/ ClearRunning \/ Cancel \/ UNCHANGED vars
  BY <1>1 DEF SetDispatcher, CloseQuit, ClearRunning, Cancel, vars
<1>2. ASSUME NEW l \in Loops, Start(l)
      PROVE /\ lpc[l] = "unborn" /\ lpc' = [lpc EXCEPT ![l] = "select"]
            /\ UNCHANGED <<jobs, job, added, tick, due, dueMinute, now, count, owed>>
  BY <1>2 DEF Start
<1>3. ASSUME NEW l \in Loops, LoopQuit(l) \/ LoopCancelled(l)
      PROVE /\ lpc[l] = "select" /\ \E x \in {"exited", "stopping"} : lpc' = [lpc EXCEPT ![l] = x]
            /\ tick' = [tick EXCEPT ![l] = NoTick]
            /\ UNCHANGED <<jobs, job, added, due, dueMinute, now, count, owed>>
  BY <1>3 DEF LoopQuit, LoopCancelled
<1>4. ASSUME NEW l \in Loops, LoopStopped(l)
      PROVE /\ lpc[l] = "stopping" /\ lpc' = [lpc EXCEPT ![l] = "exited"]
            /\ UNCHANGED <<jobs, job, added, tick, due, dueMinute, now, count, owed>>
  BY <1>4 DEF LoopStopped
<1>5. CASE \E l \in Loops : Start(l)
  BY <1>2, <1>5
<1>6. CASE \E l \in Loops : LoopQuit(l) \/ LoopCancelled(l)
  BY <1>3, <1>6
<1>7. CASE \E l \in Loops : LoopStopped(l)
  BY <1>4, <1>7
<1> QED
  BY <1>1, <1>5, <1>6, <1>7 DEF ControlStep

(* The steps of the scheduler, as the lemmas above group them.             *)
LEMMA NextCases ==
  ASSUME [Next]_vars
  PROVE  \/ ControlStep
         \/ \E n \in Names : \E e \in Exprs : AddJob(n, e)
         \/ \E n \in Names : RemoveJob(n) \/ EnableJob(n) \/ DisableJob(n)
         \/ Advance
         \/ \E l \in Loops : LoopTick(l)
         \/ \E l \in Loops : LoopDispatch(l)
BY DEF Next, TableStep, LoopStep, ControlStep

(* Every step keeps the types.                                             *)
LEMMA TypeStep == SchedulerInv /\ [Next]_vars => TypeOK'
<1> SUFFICES ASSUME TypeOK, TickInv, [Next]_vars PROVE TypeOK'
  BY DEF SchedulerInv
<1>1. job \in [JobIds -> JobType]
  BY DEF TypeOK, JobType
<1>2. CASE ControlStep
  <2>1. {dispatcher', running', cancelled'} \subseteq BOOLEAN /\ stopOnce' \in {"new", "closing", "done"}
    BY <1>2 DEF TypeOK, ControlStep, SetDispatcher, Start, LoopQuit, LoopCancelled, LoopStopped, CloseQuit,
       ClearRunning, Cancel, vars
  <2> QED
    BY <1>2, <2>1, ControlEffect DEF TypeOK
<1>3. ASSUME NEW n \in Names, NEW e \in Exprs, AddJob(n, e) PROVE TypeOK'
  <2>1. added' \in 0..MaxJobs /\ 1..added \subseteq 1..added'
    BY <1>3, AddJobEffect, TypeFacts DEF JobIds
  <2>2. due' \in [Loops -> SUBSET (1..added')]
    BY <1>3, <2>1, AddJobEffect DEF TypeOK
  <2> QED
    BY <1>3, <2>1, <2>2, AddJobEffect DEF TypeOK, JobType
<1>4. ASSUME NEW n \in Names, RemoveJob(n) \/ EnableJob(n) \/ DisableJob(n) PROVE TypeOK'
  BY <1>4, TableEffect DEF TypeOK, JobType
<1>5. CASE Advance
  <2>1. owed' \subseteq JobIds \X Minutes
    <3>1. Minute(now') \in Minutes
      BY <1>5, AdvanceEffect, MinuteInMinutes
    <3>2. Registered \subseteq JobIds
      BY TypeFacts
    <3>3. \A p \in owed' : p \in owed \/ \E i \in Registered : p = <<i, Minute(now')>>
      BY <1>5 DEF Advance
    <3> QED
      BY <3>1, <3>2, <3>3 DEF TypeOK
  <2> QED
    BY <1>5, <2>1, AdvanceEffect DEF TypeOK
<1>6. ASSUME NEW l \in Loops, LoopTick(l) PROVE TypeOK'
  <2>1. PICK m : m = Minute(tick[l])
    OBVIOUS
  <2>2. PICK f \in SUBSET Due(m) : Takes(l, m, f)
    BY <1>6, <2>1, LoopTickEffect
  <2>3. Due(m) \subseteq 1..added /\ m \in Minutes
    BY <1>6, <2>1, LoopTickEffect
  <2>4. 0 \in Minutes
    BY BoundsAssumption, MinuteBounds DEF Minutes
  <2>5. due' \in [Loops -> SUBSET (1..added)] /\ dueMinute' \in [Loops -> Minutes]
    BY <2>2, <2>3, <2>4 DEF TypeOK, Takes
  <2>6. /\ lpc' \in [Loops -> {"unborn", "select", "dispatch", "stopping", "exited"}]
        /\ \A k \in Loops : due'[k] # {} <=> lpc'[k] = "dispatch"
    BY <2>2 DEF TypeOK, Takes
  <2>7. /\ job' \in [JobIds -> JobType] /\ tick' = [tick EXCEPT ![l] = NoTick] /\ owed' \subseteq owed
        /\ UNCHANGED <<jobs, added, dispatcher, stopVars, now, count>>
    BY <1>6, <2>1, LoopTickEffect
  <2> QED
    BY <2>5, <2>6, <2>7 DEF TypeOK, JobType
<1>7. ASSUME NEW l \in Loops, LoopDispatch(l) PROVE TypeOK'
  <2>1. PICK i \in due[l] :
           /\ count' \in [JobIds -> [Minutes -> Nat]]
           /\ due' = [due EXCEPT ![l] = due[l] \ {i}]
           /\ lpc' = [lpc EXCEPT ![l] = IF due[l] = {i} THEN "select" ELSE "dispatch"]
           /\ dueMinute' = [dueMinute EXCEPT ![l] = IF due[l] = {i} THEN 0 ELSE dueMinute[l]]
           /\ UNCHANGED <<tableVars, stopVars, tick, now, owed>>
    BY <1>7, LoopDispatchEffect
  <2>2. 0 \in Minutes
    BY BoundsAssumption, MinuteBounds DEF Minutes
  <2>3. due' \in [Loops -> SUBSET (1..added)] /\ dueMinute' \in [Loops -> Minutes]
    BY <2>1, <2>2 DEF TypeOK
  <2>4. \A k \in Loops : due'[k] # {} <=> lpc'[k] = "dispatch"
    BY <2>1 DEF TypeOK
  <2> QED
    BY <2>1, <2>3, <2>4 DEF TypeOK
<1> QED
  BY <1>2, <1>3, <1>4, <1>5, <1>6, <1>7, NextCases

(* Ticks come and are handled in order.                                    *)
LEMMA TickStep == SchedulerInv /\ [Next]_vars => TickInv'
<1> SUFFICES ASSUME TypeOK, TickInv, [Next]_vars PROVE TickInv'
  BY DEF SchedulerInv
<1>1. /\ now \in Nat /\ MaxLag \in Nat /\ added \in Nat /\ NoTick = -1 /\ Never = -1
      /\ \A l \in Loops : tick[l] # NoTick => tick[l] \in Nat /\ tick[l] <= now
      /\ \A i \in JobIds : job[i].lastFired \in Int /\ job[i].lastFired >= Never
  BY TypeFacts
<1>2. CASE ControlStep
  <2>1. /\ UNCHANGED <<job, added, now>>
        /\ \A l \in Loops : tick'[l] # NoTick => tick'[l] = tick[l] /\ (l \in Ticking => l \in Ticking')
    BY <1>2, ControlEffect
  <2> QED
    BY <2>1 DEF TickInv
<1>3. ASSUME NEW n \in Names, NEW e \in Exprs, AddJob(n, e) PROVE TickInv'
  <2>1. /\ added' = added + 1 /\ UNCHANGED <<lpc, tick, now>>
        /\ \A i \in JobIds : job'[i].lastFired = job[i].lastFired \/ job'[i].lastFired = Never
        /\ \A i \in JobIds : i # added + 1 => job'[i].lastFired = job[i].lastFired
    BY <1>3, AddJobEffect
  <2>2. \A t \in Nat : Never <= Minute(t)
    BY <1>1, MinuteBounds
  <2>3. Ticking' = Ticking
    BY <2>1 DEF Ticking
  <2>4. ASSUME NEW i \in JobIds, i > added' PROVE job'[i].lastFired = Never
    <3>1. i \in Int /\ i > added /\ i # added + 1
      BY <1>1, <2>1, <2>4 DEF JobIds
    <3> QED
      BY <2>1, <3>1 DEF TickInv
  <2>5. ASSUME NEW i \in JobIds, NEW t \in Nat, job[i].lastFired <= Minute(t) PROVE job'[i].lastFired <= Minute(t)
    BY <2>1, <2>2, <2>5
  <2>6. /\ \A i \in JobIds : job'[i].lastFired <= Minute(now')
        /\ \A l \in Loops : tick'[l] # NoTick => \A i \in JobIds : job'[i].lastFired <= Minute(tick'[l])
    BY <1>1, <2>1, <2>5 DEF TickInv
  <2> QED
    BY <2>1, <2>3, <2>4, <2>6 DEF TickInv
<1>4. ASSUME NEW n \in Names, RemoveJob(n) \/ EnableJob(n) \/ DisableJob(n) PROVE TickInv'
  <2>1. /\ UNCHANGED <<added, lpc, tick, now>>
        /\ \A i \in JobIds : job'[i].lastFired = job[i].lastFired
    BY <1>4, TableEffect
  <2> QED
    BY <2>1 DEF TickInv, Ticking
<1>5. CASE Advance
  <2>1. /\ now' = now + 1 /\ UNCHANGED <<job, added, lpc>>
        /\ \A l \in Loops : tick[l] # NoTick =>
             tick'[l] = tick[l] /\ now < tick[l] + MaxLag /\ \A k \in Ticking : k = l
        /\ \A l \in Ticking : tick[l] = NoTick => tick'[l] = now + 1
        /\ \A l \in Loops : l \notin Ticking => tick'[l] = NoTick
    BY <1>5, AdvanceEffect
  <2>2. Ticking' = Ticking
    BY <2>1 DEF Ticking
  <2>3. \A t \in Nat : now <= t => \A i \in JobIds : job[i].lastFired <= Minute(t)
    <3> SUFFICES ASSUME NEW t \in Nat, now <= t, NEW i \in JobIds PROVE job[i].lastFired <= Minute(t)
      OBVIOUS
    <3>1. Minute(now) <= Minute(t) /\ Minute(now) \in Nat /\ Minute(t) \in Nat
      BY <1>1, MinuteBounds, MinuteMonotone
    <3>2. job[i].lastFired <= Minute(now)
      BY DEF TickInv
    <3> QED
      BY <1>1, <3>1, <3>2
  <2>4. \A l \in Loops : tick'[l] # NoTick => l \in Ticking /\ now' <= tick'[l] + MaxLag
    BY <1>1, <2>1 DEF TickInv
  <2>5. \A l, k \in Loops : tick'[l] # NoTick /\ tick'[k] # NoTick => tick'[l] = tick'[k]
    BY <2>1 DEF TickInv
  <2>6. ASSUME NEW l \in Loops, tick'[l] # NoTick, NEW i \in JobIds PROVE job[i].lastFired <= Minute(tick'[l])
    <3>1. CASE tick[l] # NoTick
      BY <2>1, <3>1 DEF TickInv
    <3>2. CASE tick[l] = NoTick
      <4>1. tick'[l] = now + 1 /\ now + 1 \in Nat /\ now <= now + 1
        BY <1>1, <2>1, <2>6, <3>2
      <4> QED
        BY <2>3, <4>1
    <3> QED
      BY <3>1, <3>2
  <2>7. \A i \in JobIds : job[i].lastFired <= Minute(now')
    BY <1>1, <2>1, <2>3
  <2> QED
    BY <2>1, <2>2, <2>4, <2>5, <2>6, <2>7 DEF TickInv
<1>6. ASSUME NEW l \in Loops, LoopTick(l) PROVE TickInv'
  <2>1. PICK m : m = Minute(tick[l])
    OBVIOUS
  <2>2. PICK f \in SUBSET Due(m) : Takes(l, m, f)
    BY <1>6, <2>1, LoopTickEffect
  <2>3. /\ lpc[l] = "select" /\ tick[l] # NoTick /\ Due(m) \subseteq 1..added
        /\ \A i \in JobIds : job'[i].lastFired = IF i \in Due(m) THEN m ELSE job[i].lastFired
        /\ tick' = [tick EXCEPT ![l] = NoTick]
        /\ UNCHANGED <<added, now>>
    BY <1>6, <2>1, LoopTickEffect
  <2>4. Ticking' = Ticking
    BY <2>2, <2>3 DEF Ticking, Takes, TypeOK
  <2>5. \A k \in Loops : tick'[k] # NoTick => tick'[k] = tick[k]
    BY <2>3 DEF TypeOK
  <2>6. m \in Nat /\ m <= Minute(now)
    BY <1>1, <2>1, <2>3, MinuteBounds, MinuteMonotone
  <2>7. ASSUME NEW k \in Loops, tick'[k] # NoTick, NEW i \in JobIds PROVE job'[i].lastFired <= Minute(tick'[k])
    <3>1. tick'[k] = tick[k] /\ tick[k] = tick[l]
      BY <2>3, <2>5, <2>7 DEF TickInv
    <3>2. job[i].lastFired <= Minute(tick[k]) /\ m <= Minute(tick[k])
      BY <2>1, <2>3, <2>6, <3>1 DEF TickInv
    <3> QED
      BY <2>3, <3>1, <3>2
  <2>8. \A i \in JobIds : job'[i].lastFired <= Minute(now)
    BY <2>3, <2>6 DEF TickInv
  <2>9. \A i \in JobIds : i > added => job'[i].lastFired = Never
    BY <1>1, <2>3 DEF TickInv, JobIds
  <2>10. \A k \in Loops : tick'[k] # NoTick => k \in Ticking' /\ now' <= tick'[k] + MaxLag
    BY <2>3, <2>4, <2>5 DEF TickInv
  <2>11. \A k, j \in Loops : tick'[k] # NoTick /\ tick'[j] # NoTick => tick'[k] = tick'[j]
    BY <2>5 DEF TickInv
  <2> QED
    BY <2>3, <2>7, <2>8, <2>9, <2>10, <2>11 DEF TickInv
<1>7. ASSUME NEW l \in Loops, LoopDispatch(l) PROVE TickInv'
  <2>1. PICK i \in due[l] :
           /\ lpc[l] = "dispatch"
           /\ lpc' = [lpc EXCEPT ![l] = IF due[l] = {i} THEN "select" ELSE "dispatch"]
           /\ UNCHANGED <<tableVars, stopVars, tick, now, owed>>
    BY <1>7, LoopDispatchEffect
  <2>2. Ticking' = Ticking
    BY <2>1 DEF Ticking, TypeOK
  <2> QED
    BY <2>1, <2>2 DEF TickInv
<1> QED
  BY <1>2, <1>3, <1>4, <1>5, <1>6, <1>7, NextCases

(* A job that is due has not fired in this minute, by any loop.            *)
LEMMA DueHasNotFired ==
  ASSUME SchedulerInv, NEW l \in Loops, tick[l] # NoTick, NEW i \in Due(Minute(tick[l]))
  PROVE  i \in JobIds /\ ~Fired(i, Minute(tick[l]))
<1>1. TypeOK /\ TickInv /\ FireInv
  BY DEF SchedulerInv
<1>2. i \in Registered /\ job[i].lastFired # Minute(tick[l])
  BY DEF Due
<1>3. i \in JobIds /\ tick[l] \in 0..MaxTime /\ job[i].lastFired \in Int
  BY <1>1, <1>2, TypeFacts
<1>4. Minute(tick[l]) \in Minutes /\ Minute(tick[l]) \in Nat
  BY <1>1, <1>3, MinuteInMinutes, TypeFacts
<1>5. job[i].lastFired <= Minute(tick[l])
  BY <1>1, <1>3 DEF TickInv
<1>6. ~(Minute(tick[l]) <= job[i].lastFired)
  BY <1>2, <1>3, <1>4, <1>5
<1> QED
  BY <1>1, <1>3, <1>4, <1>6 DEF FireInv

(* No job fires twice for a minute.                                        *)
LEMMA FireStep == SchedulerInv /\ [Next]_vars => FireInv'
<1> SUFFICES ASSUME SchedulerInv, [Next]_vars PROVE FireInv'
  OBVIOUS
<1>1. TypeOK /\ TickInv /\ FireInv
  BY DEF SchedulerInv
<1>2. /\ count \in [JobIds -> [Minutes -> Nat]] /\ due \in [Loops -> SUBSET (1..added)]
      /\ dueMinute \in [Loops -> Minutes] /\ Minutes \subseteq Nat /\ Never = -1 /\ added \in Nat
  BY <1>1, TypeFacts DEF TypeOK
<1>3. ASSUME UNCHANGED <<count, due, dueMinute>>,
             \A i \in JobIds : \A m \in Minutes : Fired(i, m) =>
               job'[i].lastFired = job[i].lastFired /\ job'[i].raw = job[i].raw
      PROVE  FireInv'
  BY <1>1, <1>3 DEF FireInv, Fired, InDue
<1>4. CASE ControlStep
  BY <1>1, <1>3, <1>4, ControlEffect
<1>5. ASSUME NEW n \in Names, NEW e \in Exprs, AddJob(n, e) PROVE FireInv'
  <2>1. /\ UNCHANGED <<count, due, dueMinute>>
        /\ \A i \in JobIds : i # added + 1 => job'[i] = job[i]
    BY <1>1, <1>5, AddJobEffect
  <2>2. ASSUME NEW i \in JobIds, NEW m \in Minutes, Fired(i, m) PROVE i # added + 1
    <3>1. m <= job[i].lastFired /\ m \in Nat
      BY <1>1, <1>2, <2>2 DEF FireInv
    <3>2. job[i].lastFired # Never
      BY <1>2, <3>1
    <3> QED
      BY <1>1, <1>2, <3>2 DEF TickInv
  <2> QED
    BY <1>3, <2>1, <2>2
<1>6. ASSUME NEW n \in Names, RemoveJob(n) \/ EnableJob(n) \/ DisableJob(n) PROVE FireInv'
  BY <1>1, <1>3, <1>6, TableEffect
<1>7. CASE Advance
  BY <1>1, <1>3, <1>7, AdvanceEffect
<1>8. ASSUME NEW l \in Loops, LoopTick(l) PROVE FireInv'
  <2>1. PICK m : m = Minute(tick[l])
    OBVIOUS
  <2>2. PICK f \in SUBSET Due(m) : Takes(l, m, f)
    BY <1>1, <1>8, <2>1, LoopTickEffect
  <2>3. /\ lpc[l] = "select" /\ tick[l] # NoTick /\ m \in Minutes /\ UNCHANGED count
        /\ \A i \in JobIds : job'[i].raw = job[i].raw
        /\ \A i \in JobIds : job'[i].lastFired = IF i \in Due(m) THEN m ELSE job[i].lastFired
    BY <1>1, <1>8, <2>1, LoopTickEffect
  <2>4. \A i \in Due(m) : i \in JobIds /\ ~Fired(i, m) /\ Matches(Schedule[job[i].raw], m)
    BY <2>1, <2>3, DueHasNotFired DEF Due
  <2>5. ASSUME NEW k \in Loops, NEW i \in JobIds, NEW n \in Minutes, InDue(k, i, n)'
        PROVE  (k = l /\ i \in Due(m) /\ n = m) \/ (k # l /\ InDue(k, i, n))
    <3>1. i \in due'[k] /\ dueMinute'[k] = n
      BY <2>5 DEF InDue
    <3>2. /\ due'[k] = IF k = l THEN f ELSE due[k]
          /\ dueMinute'[k] = IF k = l THEN (IF f # {} THEN m ELSE 0) ELSE dueMinute[k]
      BY <1>2, <2>2 DEF Takes
    <3> QED
      BY <2>2, <3>1, <3>2 DEF InDue
  <2>6. ASSUME NEW i \in JobIds, NEW n \in Minutes, Fired(i, n)' PROVE Fired(i, n) \/ (i \in Due(m) /\ n = m)
    BY <2>3, <2>5, <2>6 DEF Fired
  <2>7. ASSUME NEW i \in JobIds, NEW n \in Minutes, Fired(i, n)'
        PROVE  n <= job'[i].lastFired /\ Matches(Schedule[job'[i].raw], n)
    <3>1. n \in Nat /\ m \in Nat
      BY <1>2, <2>3
    <3>2. CASE i \in Due(m) /\ n = m
      BY <2>3, <2>4, <3>1, <3>2
    <3>3. CASE Fired(i, n)
      <4>1. n <= job[i].lastFired /\ Matches(Schedule[job[i].raw], n)
        BY <1>1, <3>3 DEF FireInv
      <4>2. job[i].lastFired \in Int /\ job[i].lastFired <= m
        BY <1>1, <2>1, <2>3, TypeFacts DEF TickInv
      <4> QED
        BY <2>3, <3>1, <4>1, <4>2
    <3> QED
      BY <2>6, <2>7, <3>2, <3>3
  <2>8. ASSUME NEW i \in JobIds, NEW n \in Minutes
        PROVE  /\ count'[i][n] <= 1
               /\ count'[i][n] = 1 => \A k \in Loops : ~InDue(k, i, n)'
               /\ \A k, j \in Loops : InDue(k, i, n)' /\ InDue(j, i, n)' => k = j
    <3>1. count'[i][n] = count[i][n] /\ count[i][n] <= 1
      BY <1>1, <2>3 DEF FireInv
    <3>2. ASSUME NEW k \in Loops, InDue(k, i, n)' PROVE count[i][n] # 1
      BY <1>1, <2>4, <2>5, <3>2 DEF FireInv, Fired
    <3>3. ASSUME NEW k \in Loops, NEW j \in Loops, InDue(k, i, n)', InDue(j, i, n)' PROVE k = j
      BY <1>1, <2>4, <2>5, <3>3 DEF FireInv, Fired
    <3> QED
      BY <3>1, <3>2, <3>3
  <2> QED
    BY <2>7, <2>8 DEF FireInv
<1>9. ASSUME NEW l \in Loops, LoopDispatch(l) PROVE FireInv'
  <2>1. PICK i \in due[l] :
          /\ i \in JobIds /\ dueMinute[l] \in Minutes /\ UNCHANGED job
          /\ \A j \in JobIds : \A m \in Minutes :
               count'[j][m] = IF j = i /\ m = dueMinute[l] THEN count[j][m] + 1 ELSE count[j][m]
          /\ due' = [due EXCEPT ![l] = due[l] \ {i}]
          /\ dueMinute' = [dueMinute EXCEPT ![l] = IF due[l] = {i} THEN 0 ELSE dueMinute[l]]
    BY <1>1, <1>9, LoopDispatchEffect
  <2>2. InDue(l, i, dueMinute[l])
    BY DEF InDue
  <2>3. count[i][dueMinute[l]] = 0
    <3>1. count[i][dueMinute[l]] \in Nat
      BY <1>2, <2>1
    <3>2. count[i][dueMinute[l]] <= 1 /\ count[i][dueMinute[l]] # 1
      BY <1>1, <2>1, <2>2 DEF FireInv
    <3> QED
      BY <3>1, <3>2
  <2>4. ASSUME NEW k \in Loops, NEW j \in JobIds, NEW m \in Minutes, InDue(k, j, m)'
        PROVE  InDue(k, j, m) /\ ~(k = l /\ j = i)
    <3>1. /\ due'[k] = IF k = l THEN due[l] \ {i} ELSE due[k]
          /\ dueMinute'[k] = IF k = l THEN (IF due[l] = {i} THEN 0 ELSE dueMinute[l]) ELSE dueMinute[k]
      BY <1>2, <2>1
    <3> QED
      BY <2>4, <3>1 DEF InDue
  <2>5. ASSUME NEW j \in JobIds, NEW m \in Minutes, Fired(j, m)' PROVE Fired(j, m)
    BY <1>2, <2>1, <2>2, <2>4, <2>5 DEF Fired
  <2>6. ASSUME NEW j \in JobIds, NEW m \in Minutes
        PROVE  /\ count'[j][m] <= 1
               /\ count'[j][m] = 1 => \A k \in Loops : ~InDue(k, j, m)'
               /\ \A k, h \in Loops : InDue(k, j, m)' /\ InDue(h, j, m)' => k = h
    <3>1. CASE j = i /\ m = dueMinute[l]
      <4>1. count'[j][m] = 1
        BY <2>1, <2>3, <3>1
      <4>2. \A k \in Loops : ~InDue(k, j, m)'
        BY <1>1, <2>1, <2>2, <2>4, <3>1 DEF FireInv
      <4> QED
        BY <4>1, <4>2
    <3>2. CASE ~(j = i /\ m = dueMinute[l])
      <4>1. count'[j][m] = count[j][m]
        BY <2>1, <3>2
      <4> QED
        BY <1>1, <2>4, <4>1 DEF FireInv
    <3> QED
      BY <3>1, <3>2
  <2> QED
    BY <1>1, <2>1, <2>5, <2>6 DEF FireInv
<1> QED
  BY <1>4, <1>5, <1>6, <1>7, <1>8, <1>9, NextCases

(* The invariant of the scheduler holds in every reachable state.          *)
THEOREM SchedulerCorrect == Spec => []SchedulerInv
<1>1. SchedulerInv /\ [Next]_vars => SchedulerInv'
  BY TypeStep, TickStep, FireStep DEF SchedulerInv
<1> QED
  BY <1>1, InitScheduler, PTL DEF Spec

(* A job fires at most once for a minute, with two tick loops alive too.   *)
THEOREM FiresOncePerMinute == Spec => []OncePerMinute
<1>1. ASSUME SchedulerInv PROVE OncePerMinute
  <2>1. TypeOK /\ FireInv
    BY <1>1 DEF SchedulerInv
  <2>2. ASSUME NEW i \in JobIds, NEW m \in Minutes
        PROVE  count[i][m] + Cardinality({l \in Loops : i \in due[l] /\ dueMinute[l] = m}) <= 1
    <3> DEFINE D == {l \in Loops : i \in due[l] /\ dueMinute[l] = m}
    <3>1. count[i][m] \in Nat /\ count[i][m] <= 1
      BY <2>1 DEF TypeOK, FireInv
    <3>2. CASE D = {}
      <4>1. Cardinality(D) = 0
        BY <3>2, FS_EmptySet
      <4> QED
        BY <3>1, <4>1
    <3>3. CASE D # {}
      <4>1. PICK l \in Loops : InDue(l, i, m)
        BY <3>3 DEF InDue
      <4>2. D = {l}
        BY <2>1, <4>1 DEF FireInv, InDue
      <4>3. Cardinality(D) = 1
        BY <4>2, FS_Singleton
      <4>4. count[i][m] # 1
        BY <2>1, <4>1 DEF FireInv
      <4> QED
        BY <3>1, <4>3, <4>4
    <3> QED
      BY <3>2, <3>3
  <2> QED
    BY <2>1, <2>2 DEF OncePerMinute
<1> QED
  BY <1>1, SchedulerCorrect, PTL

(* What FiresAsWritten says of the loop: a job fires only for minutes that *)
(* have begun and that its parsed schedule matches, however late the tick. *)
FiresAsParsed ==
  \A i \in JobIds : \A m \in Minutes : count[i][m] > 0 =>
    m <= Minute(now) /\ Matches(Schedule[job[i].raw], m)

(* What has fired was due.                                                 *)
LEMMA OnSchedule == SchedulerInv => FiresAsParsed
<1> SUFFICES ASSUME SchedulerInv PROVE FiresAsParsed
  OBVIOUS
<1>1. TypeOK /\ TickInv /\ FireInv
  BY DEF SchedulerInv
<1>2. now \in Nat /\ Minutes \subseteq Nat /\ \A i \in JobIds : job[i].lastFired \in Int
  BY <1>1, TypeFacts
<1>3. Minute(now) \in Nat
  BY <1>2, MinuteBounds
<1>4. ASSUME NEW i \in JobIds, NEW m \in Minutes, count[i][m] > 0
      PROVE  m <= Minute(now) /\ Matches(Schedule[job[i].raw], m)
  <2>1. m <= job[i].lastFired /\ Matches(Schedule[job[i].raw], m)
    BY <1>1, <1>4 DEF FireInv, Fired
  <2>2. job[i].lastFired <= Minute(now)
    BY <1>1 DEF TickInv
  <2> QED
    BY <1>2, <1>3, <2>1, <2>2
<1> QED
  BY <1>4 DEF FiresAsParsed

-----------------------------------------------------------------------------
(* What the bits of an expression say.                                     *)

(* Every non-empty set of naturals has a least member.                     *)
LEMMA LeastNatural ==
  ASSUME NEW S, S \subseteq Nat, S # {}
  PROVE  \E x \in S : \A y \in S : x <= y
<1> DEFINE R == {p \in Nat \X Nat : p[1] < p[2]}
<1>1. IsWellFoundedOn(R, Nat)
  BY NatLessThanWellFounded DEF OpToRel
<1>2. PICK x \in S : \A y \in S : ~(<<y, x>> \in R)
  <2> HIDE DEF R
  <2> QED
    BY <1>1, WFMin
<1>3. \A y \in S : ~(y < x)
  BY <1>2
<1> QED
  BY <1>3

(* What the k-th turn of a loop adds.                                       *)
LEMMA Turns ==
  ASSUME NEW k \in Nat, NEW step \in Nat
  PROVE  /\ k * step \in Nat
         /\ (k + 1) * step = k * step + step
         /\ 0 * step = 0
         /\ step > 0 => (k * step) % step = 0
OBVIOUS

(* Arithmetic does not wrap below MaxInt.                                  *)
LEMMA NoWrap ==
  ASSUME NEW v \in Nat, v <= MaxInt
  PROVE  Wrap(v) = v
<1>1. MaxInt \in Nat
  BY CronAssumption
<1>2. ASSUME NEW a \in Nat, NEW b \in Nat, a < b PROVE a % b = a
  BY <1>2
<1>3. (v + MaxInt + 1) % (2 * MaxInt + 2) = v + MaxInt + 1
  BY <1>1, <1>2
<1> QED
  BY <1>1, <1>3 DEF Wrap

(* A loop whose step cannot pass MaxInt inside its range sets the bits     *)
(* start, start + step, ... up to end, and no other: by induction on the   *)
(* turns, no turn wraps.                                                   *)
LEMMA LoopBits ==
  ASSUME NEW start \in Nat, NEW end \in Nat, NEW step \in Nat,
         start <= end, step > 0, step <= MaxInt - end,
         NEW v \in LoopValues(start, end, step)
  PROVE  v \in start..end /\ (v - start) % step = 0
<1>1. MaxInt \in Nat
  BY CronAssumption
<1>2. PICK k \in 0..MaxInt :
        v = SafeUint(Wrap(start + k * step)) /\ \A j \in 0..k : Wrap(start + j * step) <= end
  BY DEF LoopValues
<1> DEFINE past == {j \in 0..k : ~(start + j * step <= end)}
<1>3. past = {}
  <2> SUFFICES ASSUME past # {} PROVE FALSE
    OBVIOUS
  <2>1. PICK j \in past : \A i \in past : j <= i
    <3>1. past \subseteq Nat
      OBVIOUS
    <3> HIDE DEF past
    <3> QED
      BY <3>1, LeastNatural
  <2>2. j \in 0..k /\ ~(start + j * step <= end)
    BY <2>1
  <2>3. j # 0
    BY <2>2, Turns
  <2>4. PICK i \in Nat : j = i + 1 /\ i \in 0..k /\ i \notin past
    <3>1. j - 1 \in 0..k /\ j - 1 \in Nat /\ j = (j - 1) + 1
      BY <1>1, <2>2, <2>3
    <3>2. j - 1 \notin past
      BY <2>1, <2>2
    <3> QED
      BY <3>1, <3>2
  <2>5. start + i * step <= end
    BY <2>4
  <2>6. i * step \in Nat /\ j * step = i * step + step
    BY <2>4, Turns
  <2>7. start + j * step \in Nat /\ start + j * step <= MaxInt
    BY <1>1, <2>5, <2>6
  <2>8. Wrap(start + j * step) = start + j * step
    BY <2>7, NoWrap
  <2> QED
    BY <1>2, <2>2, <2>8
<1>4. k \in Nat /\ k * step \in Nat /\ start + k * step <= end
  <2>1. k \in Nat /\ k \in 0..k
    BY <1>1
  <2>2. start + k * step <= end
    BY <1>3, <2>1
  <2> QED
    BY <2>1, <2>2, Turns
<1>5. start + k * step <= MaxInt
  BY <1>1, <1>4
<1>6. v = start + k * step
  BY <1>2, <1>4, <1>5, NoWrap DEF SafeUint
<1>7. (k * step) % step = 0 /\ v - start = k * step
  BY <1>4, <1>6, Turns
<1> QED
  BY <1>4, <1>6, <1>7

(* Conversely the loop sets the bit of every value it should: it reaches   *)
(* its turn before it ends.                                                *)
LEMMA LoopReaches ==
  ASSUME NEW start \in Nat, NEW end \in Nat, NEW step \in Nat,
         step > 0, end <= MaxInt,
         NEW v \in start..end, (v - start) % step = 0
  PROVE  v \in LoopValues(start, end, step)
<1>1. MaxInt \in Nat /\ v \in Nat /\ v - start \in Nat
  BY CronAssumption
<1>2. PICK k \in Nat : v - start = k * step
  <2>1. (v - start) \div step \in Nat /\ v - start = ((v - start) \div step) * step
    BY <1>1
  <2> QED
    BY <2>1
<1>3. k * step \in Nat /\ k <= k * step /\ v = start + k * step
  BY <1>1, <1>2
<1>4. k \in 0..MaxInt
  BY <1>1, <1>3
<1>5. ASSUME NEW j \in 0..k PROVE Wrap(start + j * step) = start + j * step /\ start + j * step <= v
  <2>1. j \in Nat /\ j * step \in Nat /\ j * step <= k * step
    BY <1>2
  <2>2. start + j * step \in Nat /\ start + j * step <= v /\ start + j * step <= MaxInt
    BY <1>1, <1>3, <2>1
  <2> QED
    BY <2>2, NoWrap
<1>6. \A j \in 0..k : Wrap(start + j * step) <= end
  BY <1>1, <1>3, <1>5
<1>7. Wrap(start + k * step) = v /\ SafeUint(v) = v
  BY <1>1, <1>3, <1>5 DEF SafeUint
<1> QED
  BY <1>4, <1>6, <1>7 DEF LoopValues

(* The bits of a part that ParseCron accepts are the values it names.      *)
LEMMA PartBits ==
  ASSUME NEW p \in CronPart, NEW lo \in Nat, NEW hi \in Nat, lo <= hi,
         PartOK(p, lo, hi),
         p.kind # "one" => p.step <= MaxInt - (IF p.kind = "any" THEN hi ELSE p.to),
         NEW v \in PartValues(p, lo, hi)
  PROVE  PartNames(p, lo, hi, v)
<1>1. p.kind \in {"any", "one", "range", "junk"} /\ p.from \in Int /\ p.to \in Int /\ p.step \in Int
  BY DEF CronPart
<1>2. p.kind # "junk" /\ p.step \in Nat /\ p.step > 0
  BY <1>1 DEF PartOK
<1>3. CASE p.kind = "any"
  <2>1. v \in LoopValues(lo, hi, p.step)
    BY <1>3 DEF PartValues
  <2>2. p.step <= MaxInt - hi
    BY <1>3
  <2>3. v \in lo..hi /\ (v - lo) % p.step = 0
    BY <1>2, <2>1, <2>2, LoopBits
  <2> QED
    BY <1>3, <2>3 DEF PartNames
<1>4. CASE p.kind = "range"
  <2>1. v \in LoopValues(p.from, p.to, p.step)
    BY <1>4 DEF PartValues
  <2>2. p.step <= MaxInt - p.to
    BY <1>4
  <2>3. p.from \in Nat /\ p.to \in Nat /\ p.from <= p.to
    BY <1>1, <1>4 DEF PartOK
  <2>4. v \in p.from..p.to /\ (v - p.from) % p.step = 0
    BY <1>2, <2>1, <2>2, <2>3, LoopBits
  <2> QED
    BY <1>4, <2>4 DEF PartNames
<1>5. CASE p.kind = "one"
  BY <1>5 DEF PartValues, PartNames
<1> QED
  BY <1>1, <1>2, <1>3, <1>4, <1>5

(* And every value that the part names has its bit.                        *)
LEMMA PartReaches ==
  ASSUME NEW p \in CronPart, NEW lo \in Nat, NEW hi \in Nat, hi <= 59,
         PartOK(p, lo, hi),
         NEW v, PartNames(p, lo, hi, v)
  PROVE  v \in PartValues(p, lo, hi)
<1>1. p.kind \in {"any", "one", "range", "junk"} /\ p.from \in Int /\ p.to \in Int /\ p.step \in Int
  BY DEF CronPart
<1>2. p.kind # "junk" /\ p.step \in Nat /\ p.step > 0 /\ hi <= MaxInt
  BY <1>1, CronAssumption DEF PartOK
<1>3. CASE p.kind = "any"
  <2>1. v \in lo..hi /\ (v - lo) % p.step = 0
    BY <1>3 DEF PartNames
  <2>2. v \in LoopValues(lo, hi, p.step)
    BY <1>2, <2>1, LoopReaches
  <2> QED
    BY <1>3, <2>2 DEF PartValues
<1>4. CASE p.kind = "range"
  <2>1. v \in p.from..p.to /\ (v - p.from) % p.step = 0
    BY <1>4 DEF PartNames
  <2>2. p.from \in Nat /\ p.to \in Nat /\ p.to <= MaxInt
    BY <1>1, <1>2, <1>4, CronAssumption DEF PartOK
  <2>3. v \in LoopValues(p.from, p.to, p.step)
    BY <1>2, <2>1, <2>2, LoopReaches
  <2> QED
    BY <1>4, <2>3 DEF PartValues
<1>5. CASE p.kind = "one"
  BY <1>5 DEF PartValues, PartNames
<1> QED
  BY <1>1, <1>2, <1>3, <1>4, <1>5

(* The fields of an accepted expression are sets of parts.                 *)
LEMMA FieldParts ==
  ASSUME NEW e \in Exprs, ParseCronOK(e), NEW f \in CronFields
  PROVE  Fields(e)[f] \subseteq CronPart
<1>1. Fields(e) \in Seq(SUBSET CronPart) /\ Len(Fields(e)) = 5
  BY PartsAssumption DEF ParseCronOK
<1>2. f \in 1..Len(Fields(e))
  BY <1>1 DEF CronFields
<1>3. Fields(e)[f] \in SUBSET CronPart
  BY <1>1, <1>2, ElementOfSeq
<1> QED
  BY <1>3

(* A minute that the parsed schedule matches is one that the expression    *)
(* names as it is written, unless a step wraps.                            *)
LEMMA MatchesAsWritten ==
  ASSUME NEW e \in Accepted, NEW m, Matches(Schedule[e], m), ~StepOverflows(e)
  PROVE  Says(e, m)
<1>1. e \in Exprs /\ ParseCronOK(e) /\ Schedule[e] = ParseCron(e)
  BY DEF Accepted, Schedule
<1>2. ASSUME NEW f \in CronFields
      PROVE  \E p \in Fields(e)[f] : PartNames(p, Lo[f], Hi[f], Calendar[m][f])
  <2>1. f \in 1..5 /\ Lo[f] \in Nat /\ Hi[f] \in Nat /\ Lo[f] <= Hi[f]
    BY <1>2 DEF CronFields, Lo, Hi
  <2>2. Fields(e)[f] \subseteq CronPart
    BY <1>1, <1>2, FieldParts
  <2>3. Calendar[m][f] \in UNION {PartValues(p, Lo[f], Hi[f]) : p \in Fields(e)[f]}
    BY <1>1, <1>2 DEF Matches, ParseCron
  <2>4. PICK p \in Fields(e)[f] : Calendar[m][f] \in PartValues(p, Lo[f], Hi[f])
    BY <2>3
  <2>5. PartOK(p, Lo[f], Hi[f])
    BY <1>1, <1>2 DEF ParseCronOK
  <2>6. p \in CronPart /\ p.step \in Int /\ p.to \in Int /\ MaxInt \in Nat
    BY <2>2, CronAssumption DEF CronPart
  <2>7. p.kind # "one" => p.step <= MaxInt - (IF p.kind = "any" THEN Hi[f] ELSE p.to)
    BY <2>1, <2>6 DEF StepOverflows
  <2>8. PartNames(p, Lo[f], Hi[f], Calendar[m][f])
    BY <2>1, <2>4, <2>5, <2>6, <2>7, PartBits
  <2> QED
    BY <2>8
<1> QED
  BY <1>2 DEF Says

(* And a minute that the expression names is matched, whatever its steps.  *)
LEMMA WrittenMatches ==
  ASSUME NEW e \in Accepted, NEW m, Says(e, m)
  PROVE  Matches(Schedule[e], m)
<1>1. e \in Exprs /\ ParseCronOK(e) /\ Schedule[e] = ParseCron(e)
  BY DEF Accepted, Schedule
<1>2. ASSUME NEW f \in CronFields PROVE Calendar[m][f] \in ParseCron(e)[f]
  <2>1. f \in 1..5 /\ Lo[f] \in Nat /\ Hi[f] \in Nat /\ Hi[f] <= 59
    BY <1>2 DEF CronFields, Lo, Hi
  <2>2. PICK p \in Fields(e)[f] : PartNames(p, Lo[f], Hi[f], Calendar[m][f])
    BY <1>2 DEF Says
  <2>3. p \in CronPart
    BY <1>1, <1>2, <2>2, FieldParts
  <2>4. PartOK(p, Lo[f], Hi[f])
    BY <1>1, <1>2 DEF ParseCronOK
  <2>5. Calendar[m][f] \in PartValues(p, Lo[f], Hi[f])
    BY <2>1, <2>2, <2>3, <2>4, PartReaches
  <2> QED
    BY <1>2, <2>5 DEF ParseCron
<1> QED
  BY <1>1, <1>2 DEF Matches

(* cron.go's bitsets are exact: for every accepted expression none of      *)
(* whose steps wraps, the minutes matched are the minutes written.  An     *)
(* expression whose step wraps matches more, never less.                   *)
THEOREM BitsetsAreExact ==
  \A e \in Accepted : \A m \in DOMAIN Calendar :
    /\ Says(e, m) => Matches(Schedule[e], m)
    /\ Matches(Schedule[e], m) => Says(e, m) \/ StepOverflows(e)
BY MatchesAsWritten, WrittenMatches

(* NextAfter finds a minute no later than any match it can see.            *)
LEMMA NextAfterFinds ==
  ASSUME NEW s, NEW t \in Nat, NEW m \in Nat,
         m \in DOMAIN Calendar, Matches(s, m), t < m, m <= t + MaxIter
  PROVE  NextAfter(s, t) \in (t + 1)..m
<1> DEFINE hits == {h \in (t + 1)..(t + MaxIter) : h \in DOMAIN Calendar /\ Matches(s, h)}
<1>1. MaxIter \in Nat
  BY CronAssumption
<1>2. m \in hits /\ hits \subseteq Nat
  BY <1>1
<1>3. NextAfter(s, t) = CHOOSE h \in hits : \A g \in hits : h <= g
  BY <1>2 DEF NextAfter
<1>4. \A h \in hits : h \in Nat /\ h >= t + 1
  BY <1>1
<1> HIDE DEF hits
<1>5. \E h \in hits : \A g \in hits : h <= g
  BY <1>2, LeastNatural
<1>6. PICK n : n = NextAfter(s, t)
  OBVIOUS
<1>7. n \in hits /\ \A g \in hits : n <= g
  BY <1>3, <1>5, <1>6
<1>8. n \in Nat /\ n >= t + 1 /\ n <= m
  BY <1>2, <1>4, <1>7
<1> QED
  BY <1>6, <1>8

(* From the text of the expression to the dispatch, for every expression   *)
(* and calendar: also when the tick was handled late, and by whichever     *)
(* loop, a job fires only in a minute that its expression names.           *)
THEOREM FiresAsItIsWritten == Spec => []FiresAsWritten
<1>1. ASSUME SchedulerInv PROVE FiresAsWritten
  <2>1. TypeOK /\ FiresAsParsed
    BY <1>1, OnSchedule DEF SchedulerInv
  <2>2. now \in Nat /\ Minutes \subseteq Nat
    BY <2>1, TypeFacts
  <2>3. ASSUME NEW i \in JobIds, NEW m \in Minutes, count[i][m] > 0
        PROVE  /\ m <= Minute(now)
               /\ Says(job[i].raw, m) \/ StepOverflows(job[i].raw)
               /\ \A t \in Minutes : t < m /\ m <= t + MaxIter =>
                    NextAfter(Schedule[job[i].raw], t) \in (t + 1)..m
    <3>1. m <= Minute(now) /\ Matches(Schedule[job[i].raw], m)
      BY <2>1, <2>3 DEF FiresAsParsed
    <3>2. job[i].raw \in Accepted
      BY <2>1 DEF TypeOK
    <3>3. m \in DOMAIN Calendar
      BY CalendarAssumption DEF Minutes, Minute
    <3>4. Says(job[i].raw, m) \/ StepOverflows(job[i].raw)
      BY <3>1, <3>2, MatchesAsWritten
    <3>5. ASSUME NEW t \in Minutes, t < m, m <= t + MaxIter
          PROVE  NextAfter(Schedule[job[i].raw], t) \in (t + 1)..m
      BY <2>2, <3>1, <3>3, <3>5, NextAfterFinds
    <3> QED
      BY <3>1, <3>4, <3>5
  <2> QED
    BY <2>3 DEF FiresAsWritten
<1> QED
  BY <1>1, SchedulerCorrect, PTL

-----------------------------------------------------------------------------
(* What is owed stays due until a tick of its minute is handled.           *)
LEMMA OwedStep ==
  ASSUME MaxLag <= 1
  PROVE  SchedulerInv /\ OwedInv /\ [Next]_vars => OwedInv'
<1> SUFFICES ASSUME SchedulerInv, OwedInv, [Next]_vars PROVE OwedInv'
  OBVIOUS
<1>1. TypeOK /\ TickInv
  BY DEF SchedulerInv
<1>2. /\ now \in Nat /\ MaxLag \in Nat /\ Minutes \subseteq Nat /\ owed \subseteq JobIds \X Minutes
      /\ \A l \in Loops : tick[l] # NoTick => tick[l] \in Nat /\ tick[l] <= now
  BY <1>1, TypeFacts DEF TypeOK
<1>3. ASSUME stopOnce' = stopOnce, UNCHANGED <<cancelled, running, now, tick>>, Ticking' = Ticking,
             \A l \in Loops : lpc'[l] = "unborn" <=> lpc[l] = "unborn",
             owed' \subseteq owed, \A p \in owed' : p[1] \in Due(p[2])'
      PROVE  OwedInv'
  <2>1. stopOnce' = "new" /\ (\E l \in Loops : lpc'[l] # "unborn") => running'
    BY <1>3 DEF OwedInv
  <2> QED
    BY <1>3, <2>1 DEF OwedInv
<1>4. ASSUME owed' = {}, stopOnce' # "new" \/ running' PROVE OwedInv'
  BY <1>4 DEF OwedInv
<1>5. CASE ControlStep
  <2>1. CASE SetDispatcher \/ UNCHANGED vars
    <3>1. UNCHANGED <<stopVars, now, tick, lpc, owed, jobs, job>>
      BY <2>1 DEF SetDispatcher, vars
    <3>2. Ticking' = Ticking /\ \A p \in owed' : p[1] \in Due(p[2])'
      BY <3>1 DEF Ticking, Due, Registered, OwedInv
    <3> QED
      BY <1>3, <3>1, <3>2
  <2>2. ASSUME NEW l \in Loops, Start(l) PROVE OwedInv'
    <3>1. ~running /\ running' /\ owed' = owed
      BY <2>2 DEF Start
    <3>2. owed = {}
      BY <3>1 DEF OwedInv, Ticking
    <3> QED
      BY <1>4, <3>1, <3>2
  <2>3. ASSUME NEW l \in Loops, LoopQuit(l) \/ LoopCancelled(l) \/ LoopStopped(l) PROVE OwedInv'
    <3>1. (stopOnce # "new" \/ cancelled) /\ owed' = owed /\ stopOnce' # "new"
      BY <2>3 DEF LoopQuit, LoopCancelled, LoopStopped
    <3> QED
      BY <1>4, <3>1 DEF OwedInv
  <2>4. CASE CloseQuit \/ ClearRunning
    <3>1. owed' = {} /\ stopOnce' # "new"
      BY <2>4 DEF CloseQuit, ClearRunning, OwedInv
    <3> QED
      BY <1>4, <3>1
  <2>5. CASE Cancel
    <3>1. owed' = {} /\ UNCHANGED <<running, stopOnce, lpc>>
      BY <2>5 DEF Cancel
    <3> QED
      BY <3>1 DEF OwedInv
  <2> QED
    BY <1>5, <2>1, <2>2, <2>3, <2>4, <2>5 DEF ControlStep
<1>6. ASSUME NEW n \in Names, NEW e \in Exprs, AddJob(n, e) PROVE OwedInv'
  <2>1. /\ \A i \in JobIds : i # added + 1 => job'[i] = job[i]
        /\ Registered' = Registered \cup {added + 1}
        /\ UNCHANGED <<stopVars, lpc, tick, now, owed>>
    BY <1>1, <1>6, AddJobEffect
  <2>2. \A i \in Registered : i \in JobIds /\ i # added + 1
    BY <1>1, TypeFacts
  <2>3. \A p \in owed' : p[1] \in Due(p[2])'
    <3> SUFFICES ASSUME NEW p \in owed PROVE p[1] \in Due(p[2])'
      BY <2>1
    <3>1. p[1] \in Registered /\ p[1] \in Due(p[2])
      BY DEF OwedInv, Due
    <3> QED
      BY <2>1, <2>2, <3>1 DEF Due
  <2>4. Ticking' = Ticking
    BY <2>1 DEF Ticking
  <2> QED
    BY <1>3, <2>1, <2>3, <2>4
<1>7. ASSUME NEW n \in Names, RemoveJob(n) \/ EnableJob(n) \/ DisableJob(n) PROVE OwedInv'
  <2>1. /\ owed' \subseteq owed /\ UNCHANGED <<stopVars, lpc, tick, now>>
        /\ \A p \in owed' : p[1] \in Due(p[2]) => p[1] \in Due(p[2])'
    BY <1>1, <1>7, TableEffect
  <2>2. Ticking' = Ticking /\ \A p \in owed' : p[1] \in Due(p[2])'
    BY <2>1 DEF Ticking, OwedInv
  <2> QED
    BY <1>3, <2>1, <2>2
<1>8. CASE Advance
  <2>1. /\ now' = now + 1 /\ UNCHANGED <<jobs, job, stopVars, lpc>>
        /\ \A l \in Loops : tick[l] # NoTick => tick'[l] = tick[l] /\ now < tick[l] + MaxLag
        /\ \A l \in Ticking : tick[l] = NoTick => tick'[l] = now + 1
    BY <1>1, <1>8, AdvanceEffect
  <2>2. \A l \in Ticking : l \in Loops
    BY DEF Ticking
  <2>3. Ticking' = Ticking /\ Registered' = Registered
    BY <2>1 DEF Ticking, Registered
  <2>4. /\ owed' # owed => stopOnce = "new" /\ ~cancelled /\ Ticking # {}
        /\ \A p \in owed' : \/ p \in owed
                            \/ /\ now' % 2 = 0 /\ p[2] = Minute(now') /\ p[1] \in Registered
                               /\ job[p[1]].enabled /\ Matches(Schedule[job[p[1]].raw], p[2])
    BY <1>8 DEF Advance
  <2>5. owed' # {} => stopOnce = "new" /\ ~cancelled /\ Ticking # {}
    BY <2>4 DEF OwedInv
  <2>6. ASSUME NEW l \in Ticking, tick[l] # NoTick PROVE tick[l] = now /\ tick'[l] = tick[l]
    BY <1>2, <2>1, <2>2, <2>6
  <2>7. NoTick \notin Nat
    BY DEF NoTick
  <2>8. ASSUME NEW p \in owed
        PROVE  /\ p[1] \in Due(p[2])'
               /\ 2 * p[2] <= now' /\ now' <= 2 * p[2] + 2
               /\ \A l \in Ticking : tick'[l] # NoTick /\ Minute(tick'[l]) = p[2]
    <3>1. p[2] \in Nat /\ 2 * p[2] <= now /\ now <= 2 * p[2] + 2
      BY <1>2 DEF OwedInv
    <3>2. p[1] \in Due(p[2])'
      BY <2>1, <2>3 DEF OwedInv, Due
    <3>3. ASSUME NEW l \in Ticking
          PROVE  tick'[l] \in Nat /\ 2 * p[2] <= tick'[l] /\ tick'[l] <= 2 * p[2] + 1 /\ now <= 2 * p[2] + 1
      <4>1. CASE now = 2 * p[2]
        <5>1. tick'[l] \in {now, now + 1}
          BY <2>1, <2>6
        <5> QED
          BY <1>2, <3>1, <4>1, <5>1
      <4>2. CASE 2 * p[2] < now
        <5>1. tick[l] # NoTick /\ Minute(tick[l]) = p[2]
          BY <4>2 DEF OwedInv
        <5>2. tick[l] = now /\ tick'[l] = now
          BY <2>6, <5>1
        <5>3. now <= 2 * p[2] + 1
          BY <1>2, <5>1, <5>2, MinuteBounds
        <5> QED
          BY <1>2, <4>2, <3>1, <5>2, <5>3
      <4> QED
        BY <1>2, <3>1, <4>1, <4>2
    <3>4. \A l \in Ticking : tick'[l] # NoTick /\ Minute(tick'[l]) = p[2]
      <4> TAKE l \in Ticking
      <4>1. tick'[l] \in Nat /\ 2 * p[2] <= tick'[l] /\ tick'[l] <= 2 * p[2] + 1
        BY <3>3
      <4>2. PICK t \in Nat : t = tick'[l] /\ 2 * p[2] <= t /\ t <= 2 * p[2] + 1
        BY <4>1
      <4>3. Minute(t) = p[2]
        BY <3>1, <4>2, MinuteUnique
      <4> QED
        BY <2>7, <4>2, <4>3
    <3>5. now <= 2 * p[2] + 1
      <4>1. PICK l \in Ticking : TRUE
        BY DEF OwedInv
      <4> QED
        BY <3>3, <4>1
    <3> QED
      BY <1>2, <2>1, <3>1, <3>2, <3>4, <3>5
  <2>9. ASSUME NEW p \in owed', p \notin owed
        PROVE  /\ p[1] \in Due(p[2])'
               /\ 2 * p[2] = now'
    <3>1. /\ now' % 2 = 0 /\ p[2] = Minute(now') /\ p[1] \in Registered
          /\ job[p[1]].enabled /\ Matches(Schedule[job[p[1]].raw], p[2])
      BY <2>4, <2>9
    <3>2. 2 * p[2] = now' /\ Minute(now) \in Nat /\ Minute(now) < p[2]
      BY <1>2, <2>1, <3>1 DEF Minute
    <3>3. p[1] \in JobIds /\ job[p[1]].lastFired \in Int /\ job[p[1]].lastFired <= Minute(now)
      BY <1>1, <3>1, TypeFacts DEF TickInv
    <3>4. job[p[1]].lastFired # p[2]
      BY <3>2, <3>3
    <3>5. p[1] \in Due(p[2])'
      BY <2>1, <2>3, <3>1, <3>4 DEF Due
    <3> QED
      BY <3>2, <3>5
  <2>10. ASSUME NEW p \in owed'
         PROVE  /\ p[1] \in Due(p[2])'
                /\ 2 * p[2] <= now' /\ now' <= 2 * p[2] + 2
                /\ 2 * p[2] < now' => \A l \in Ticking : tick'[l] # NoTick /\ Minute(tick'[l]) = p[2]
    <3>1. now' \in Nat
      BY <1>2, <2>1
    <3> QED
      BY <2>8, <2>9, <3>1
  <2>11. stopOnce' = "new" /\ (\E l \in Loops : lpc'[l] # "unborn") => running'
    BY <2>1 DEF OwedInv
  <2> QED
    BY <2>1, <2>3, <2>5, <2>10, <2>11 DEF OwedInv
<1>9. ASSUME NEW l \in Loops, LoopTick(l) PROVE OwedInv'
  <2>1. PICK m : m = Minute(tick[l])
    OBVIOUS
  <2>2. PICK f \in SUBSET Due(m) : Takes(l, m, f)
    BY <1>1, <1>9, <2>1, LoopTickEffect
  <2>3. /\ lpc[l] = "select" /\ tick[l] # NoTick
        /\ \A i \in JobIds : /\ job'[i].raw = job[i].raw /\ job'[i].enabled = job[i].enabled
                             /\ job'[i].lastFired = IF i \in Due(m) THEN m ELSE job[i].lastFired
        /\ tick' = [tick EXCEPT ![l] = NoTick]
        /\ owed' = owed \ {<<i, m>> : i \in Due(m)}
        /\ UNCHANGED <<jobs, stopVars, now>>
    BY <1>1, <1>9, <2>1, LoopTickEffect
  <2>4. Ticking' = Ticking /\ l \in Ticking /\ \A k \in Loops : lpc'[k] = "unborn" <=> lpc[k] = "unborn"
    BY <1>1, <2>2, <2>3 DEF Ticking, Takes, TypeOK
  <2>5. ASSUME NEW p \in owed' PROVE p \in owed /\ p[1] \in Due(p[2])' /\ ~(2 * p[2] < now)
    <3>1. p \in owed /\ p = <<p[1], p[2]>> /\ p[1] \in JobIds /\ p[1] \in Due(p[2])
      BY <1>2, <2>3, <2>5 DEF OwedInv
    <3>2. p[2] # m
      BY <2>3, <2>5, <3>1
    <3>3. ~(2 * p[2] < now)
      BY <2>1, <2>4, <3>1, <3>2 DEF OwedInv
    <3>4. p[1] \in Due(p[2])'
      BY <2>3, <3>1, <3>2 DEF Due, Registered
    <3> QED
      BY <3>1, <3>3, <3>4
  <2>6. stopOnce' = "new" /\ (\E k \in Loops : lpc'[k] # "unborn") => running'
    BY <2>3, <2>4 DEF OwedInv
  <2> QED
    BY <2>3, <2>4, <2>5, <2>6 DEF OwedInv
<1>10. ASSUME NEW l \in Loops, LoopDispatch(l) PROVE OwedInv'
  <2>1. PICK i \in due[l] :
           /\ lpc[l] = "dispatch"
           /\ lpc' = [lpc EXCEPT ![l] = IF due[l] = {i} THEN "select" ELSE "dispatch"]
           /\ UNCHANGED <<tableVars, stopVars, tick, now, owed>>
    BY <1>1, <1>10, LoopDispatchEffect
  <2>2. Ticking' = Ticking /\ \A k \in Loops : lpc'[k] = "unborn" <=> lpc[k] = "unborn"
    BY <1>1, <2>1 DEF Ticking, TypeOK
  <2>3. \A p \in owed' : p[1] \in Due(p[2])'
    BY <2>1 DEF Due, Registered, OwedInv
  <2> QED
    BY <1>3, <2>1, <2>2, <2>3
<1> QED
  BY <1>5, <1>6, <1>7, <1>8, <1>9, <1>10, NextCases

(* "checking twice per minute guarantees we never miss a firing", for any  *)
(* number of jobs and loops, when no tick waits longer than half a minute. *)
THEOREM NoFiringMissed ==
  ASSUME MaxLag <= 1
  PROVE  Spec => []NeverMiss
<1>1. OwedInv => NeverMiss
  BY DEF OwedInv, NeverMiss
<1>2. SchedulerInv /\ OwedInv /\ [Next]_vars => OwedInv'
  BY OwedStep
<1> QED
  BY <1>1, <1>2, InitScheduler, SchedulerCorrect, PTL DEF Spec
=============================================================================
