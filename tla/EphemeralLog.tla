---------------------------- MODULE EphemeralLog ----------------------------
(***************************************************************************)
(* The in-memory log of distributed tasks, EphemeralLog of                 *)
(* core/mesh_timeout.go.  Record reads the clock before it takes the lock, *)
(* so it is two steps, and two records of one task (an attempt that its    *)
(* caller gave up, and the retry) may append in the wrong order.  A caller *)
(* may bring a timestamp of its own, which Record keeps.  An event is its  *)
(* timestamp.                                                              *)
(***************************************************************************)
EXTENDS Integers, Sequences, FiniteSets

CONSTANTS
  LogTasks,      \* task IDs
  Recorders,     \* goroutines that call Record
  Given,         \* timestamps that callers bring
  MaxAge,        \* argument of PurgeExpired
  MaxLag,        \* bound on the time that Record waits for the lock
  MaxNow,        \* bound on the clock
  MaxEvents      \* bound on the events of a task

ASSUME LogAssumption == {MaxAge, MaxLag, MaxNow, MaxEvents} \cup Given \subseteq Nat

VARIABLES
  now,           \* the clock
  events,        \* l.events: a task without entry has no events
  pending,       \* per recorder, the event that waits for the lock
  marked         \* history: tasks with an event whose stamp its caller brought

logVars == <<now, events, pending, marked>>

Idle == [task |-> "none", at |-> 0, given |-> FALSE]
Stamps == 0..MaxNow \cup Given

LogTypeOK ==
  /\ now \in 0..MaxNow
  /\ events \in [LogTasks -> Seq(Stamps)]
  /\ pending \in [Recorders -> [task : LogTasks \cup {"none"}, at : Stamps, given : BOOLEAN]]
  /\ marked \subseteq LogTasks

LogInit ==
  /\ now = 0
  /\ events = [t \in LogTasks |-> <<>>]
  /\ pending = [r \in Recorders |-> Idle] /\ marked = {}

(* ev.Timestamp = time.Now()                                               *)
RecordStamp(r, t) ==
  /\ pending[r] = Idle /\ Len(events[t]) < MaxEvents
  /\ pending' = [pending EXCEPT ![r] = [task |-> t, at |-> now, given |-> FALSE]]
  /\ UNCHANGED <<now, events, marked>>

(* A timestamp that is not zero stays.                                     *)
RecordGiven(r, t) ==
  /\ pending[r] = Idle /\ Len(events[t]) < MaxEvents
  /\ \E at \in Given : pending' = [pending EXCEPT ![r] = [task |-> t, at |-> at, given |-> TRUE]]
  /\ UNCHANGED <<now, events, marked>>

(* append under l.mu                                                       *)
RecordAppend(r) ==
  /\ pending[r] # Idle
  /\ events' = [events EXCEPT ![pending[r].task] = Append(@, pending[r].at)]
  /\ pending' = [pending EXCEPT ![r] = Idle]
  /\ marked' = IF pending[r].given THEN marked \cup {pending[r].task} ELSE marked
  /\ UNCHANGED now

Purge(t) ==
  /\ events[t] # <<>>
  /\ events' = [events EXCEPT ![t] = <<>>] /\ marked' = marked \ {t}
  /\ UNCHANGED <<now, pending>>

(* Compaction by the first event instead of the last one.                  *)
Expired_FirstBug(t) == events[t] # <<>> /\ events[t][1] < now - MaxAge

Expired(t) == events[t] # <<>> /\ events[t][Len(events[t])] < now - MaxAge

(* The cutoff, too, is read before the lock; an older one removes less.    *)
PurgeExpired ==
  /\ \E t \in LogTasks : Expired(t)
  /\ events' = [t \in LogTasks |-> IF Expired(t) THEN <<>> ELSE events[t]]
  /\ marked' = {t \in marked : ~Expired(t)}
  /\ UNCHANGED <<now, pending>>

LogTick ==
  /\ now < MaxNow /\ now' = now + 1
  /\ \A r \in Recorders : pending[r] # Idle /\ ~pending[r].given => now - pending[r].at < MaxLag
  /\ UNCHANGED <<events, pending, marked>>

LogNext ==
  \/ \E r \in Recorders : RecordAppend(r) \/ \E t \in LogTasks : RecordStamp(r, t) \/ RecordGiven(r, t)
  \/ \E t \in LogTasks : Purge(t)
  \/ PurgeExpired \/ LogTick

LogSpec == LogInit /\ [][LogNext]_logVars

(* The code promises to remove tasks "whose last recorded event is older   *)
(* than maxAge".  The last event in the slice need not be the youngest:    *)
(* PurgeExpired may remove younger ones, by at most the time that a Record *)
(* waited for the lock.  Nothing orders the events of a task to which a    *)
(* caller gave a timestamp: the last one may be arbitrarily older than the *)
(* others, and such tasks are left out.                                    *)
PurgeKeepsFresh ==
  [][PurgeExpired => \A t \in LogTasks : Expired(t) /\ t \notin marked =>
        \A i \in 1..Len(events[t]) : now - events[t][i] > MaxAge - MaxLag]_logVars
=============================================================================
