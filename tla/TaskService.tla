---------------------------- MODULE TaskService ----------------------------
(***************************************************************************)
(* What the Engine promises its users, without pointers, pools and         *)
(* program counters: accepted jobs wait in the order of their acceptance,  *)
(* at most Parallel of them run at a time, each one that runs is finished  *)
(* once, at most Capacity jobs wait and at most Capacity results wait to   *)
(* be received, results are received in the order they were finished, and  *)
(* after a stop has been completed nothing runs or is accepted any more.   *)
(***************************************************************************)
EXTENDS Naturals, Sequences, FiniteSets

CONSTANTS Jobs, Capacity, Parallel

VARIABLES
  accepted,  \* jobs accepted so far
  waiting,   \* accepted jobs that wait for a worker, oldest first
  running,   \* jobs being executed, or whose result has not been sent yet
  ready,     \* jobs whose result waits to be received, oldest first
  received,  \* jobs whose result was received
  mode       \* "open", "stopping" or "stopped"

vars == <<accepted, waiting, running, ready, received, mode>>

Init ==
  /\ accepted = {}
  /\ waiting = <<>>
  /\ running = {}
  /\ ready = <<>>
  /\ received = {}
  /\ mode = "open"

Accept(j) ==
  /\ mode # "stopped"
  /\ j \notin accepted
  /\ Len(waiting) < Capacity
  /\ accepted' = accepted \cup {j}
  /\ waiting' = Append(waiting, j)
  /\ UNCHANGED <<running, ready, received, mode>>

Begin ==
  /\ mode # "stopped"
  /\ waiting # <<>>
  /\ Head(waiting) \notin running
  /\ Cardinality(running) < Parallel
  /\ running' = running \cup {Head(waiting)}
  /\ waiting' = Tail(waiting)
  /\ UNCHANGED <<accepted, ready, received, mode>>

Finish(j) ==
  /\ j \in running
  /\ Len(ready) < Capacity
  /\ running' = running \ {j}
  /\ ready' = Append(ready, j)
  /\ UNCHANGED <<accepted, waiting, received, mode>>

Deliver ==
  /\ ready # <<>>
  /\ Head(ready) \notin received
  /\ received' = received \cup {Head(ready)}
  /\ ready' = Tail(ready)
  /\ UNCHANGED <<accepted, waiting, running, mode>>

BeginStop ==
  /\ mode = "open"
  /\ mode' = "stopping"
  /\ UNCHANGED <<accepted, waiting, running, ready, received>>

CompleteStop ==
  /\ mode = "stopping"
  /\ running = {}
  /\ mode' = "stopped"
  /\ UNCHANGED <<accepted, waiting, running, ready, received>>

Next ==
  \/ \E j \in Jobs : Accept(j) \/ Finish(j)
  \/ Begin
  \/ Deliver
  \/ BeginStop
  \/ CompleteStop

Spec == Init /\ [][Next]_vars
=============================================================================
