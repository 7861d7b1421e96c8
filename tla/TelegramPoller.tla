---------------------------- MODULE TelegramPoller ----------------------------
(***************************************************************************)
(* gateway/telegram/poller.go over gateway/telegram/client.go: Run asks    *)
(* the Bot API for updates from an offset on, one request at a time, and   *)
(* hands each update to a goroutine of its own.  The server keeps an       *)
(* update until a request with a higher offset confirms it.                *)
(*                                                                         *)
(* A request can fail at any time: refused by the API, broken by the       *)
(* network, or given up by the client's timeout.  One that was given up    *)
(* may reach the server later.  The process may crash and start again: the *)
(* offset is not stored.                                                   *)
(***************************************************************************)
EXTENDS Naturals, Sequences, SequencesExt

CONSTANTS
  Limit,        \* updates per answer at most
  MaxUpdates,   \* bound: updates sent to the bot
  MaxRestarts   \* bound: crashes

ASSUME LimitAssumption == Limit \in Nat \ {0}
ASSUME BoundsAssumption == MaxUpdates \in Nat /\ MaxRestarts \in Nat

VARIABLES
  pc,         \* where Run is
  offset,     \* the next update it asks for
  batch,      \* updates of the last answer still to be dispatched
  backoff,    \* in seconds
  cancelled,  \* whether Run's context was cancelled
  request,    \* the request on its way: "none", "sent", "held", "answered"
  answer,     \* the updates it was answered with
  late,       \* offsets of abandoned requests that may still arrive
  arrived,    \* number of updates users have sent; they are 1, 2, ...
  confirmed,  \* the server has forgotten the updates up to this one
  restarts,   \* number of crashes
  count,      \* history: handler calls of this run, per update
  handled     \* history: updates dispatched by any run

runVars == <<pc, offset, batch, backoff>>
callVars == <<request, answer, late>>
serverVars == <<arrived, confirmed>>
history == <<count, handled>>
vars == <<runVars, cancelled, callVars, serverVars, restarts, history>>

Updates == 1..MaxUpdates
BackoffBase == 2
BackoffMax == 60

Init ==
  /\ pc = "top"
  /\ offset = 0
  /\ batch = <<>>
  /\ backoff = BackoffBase
  /\ cancelled = FALSE
  /\ request = "none"
  /\ answer = <<>>
  /\ late = {}
  /\ arrived = 0
  /\ confirmed = 0
  /\ restarts = 0
  /\ count = [u \in Updates |-> 0]
  /\ handled = {}

-----------------------------------------------------------------------------
(* The head of the loop, and GetUpdates sends its request.                 *)
Stopped ==
  /\ pc = "top"
  /\ cancelled
  /\ pc' = "returned"
  /\ UNCHANGED <<offset, batch, backoff, cancelled, callVars, serverVars, restarts, history>>

GetUpdates ==
  /\ pc = "top"
  /\ ~cancelled
  /\ pc' = "poll"
  /\ request' = "sent"
  /\ UNCHANGED <<offset, batch, backoff, cancelled, answer, late, serverVars, restarts, history>>

(* The client is done with its request, which may not have arrived yet.    *)
Abandon ==
  /\ request' = "none"
  /\ answer' = <<>>
  /\ late' = IF request = "sent" THEN late \cup {offset} ELSE late

(* Operators whose name ends in _Bug are mistakes the properties below are *)
(* tested against; no specification uses them.                             *)

(* the request is made without ctx and without a timeout *)
PollFails_NoContextBug ==
  /\ pc = "poll"
  /\ request # "held"
  /\ Abandon
  /\ pc' = IF cancelled THEN "returned" ELSE "backoff"
  /\ UNCHANGED <<offset, batch, backoff, cancelled, serverVars, restarts, history>>

(* an error ends Run *)
PollFails_ReturnBug ==
  /\ pc = "poll"
  /\ Abandon
  /\ pc' = "returned"
  /\ UNCHANGED <<offset, batch, backoff, cancelled, serverVars, restarts, history>>

(* an answer that cannot be decoded is stepped over *)
PollFails_SkipBug ==
  /\ pc = "poll"
  /\ Abandon
  /\ pc' = IF cancelled THEN "returned" ELSE "backoff"
  /\ offset' = IF request = "answered" /\ answer # <<>> THEN Last(answer) + 1 ELSE offset
  /\ UNCHANGED <<batch, backoff, cancelled, serverVars, restarts, history>>

(* GetUpdates returns an error: clean shutdown or retry.                   *)
PollFails ==
  /\ pc = "poll"
  /\ Abandon
  /\ pc' = IF cancelled THEN "returned" ELSE "backoff"
  /\ UNCHANGED <<offset, batch, backoff, cancelled, serverVars, restarts, history>>

(* GetUpdates returns an answer; the backoff is reset.                     *)
PollOK ==
  /\ pc = "poll"
  /\ request = "answered"
  /\ Abandon
  /\ batch' = answer
  /\ backoff' = BackoffBase
  /\ pc' = "dispatch"
  /\ UNCHANGED <<offset, cancelled, serverVars, restarts, history>>

(* offset = upd.UpdateID *)
Dispatch_OffByOneBug ==
  /\ pc = "dispatch"
  /\ batch # <<>>
  /\ offset' = Head(batch)
  /\ count' = [count EXCEPT ![Head(batch)] = @ + 1]
  /\ handled' = handled \cup {Head(batch)}
  /\ batch' = Tail(batch)
  /\ UNCHANGED <<pc, backoff, cancelled, callVars, serverVars, restarts>>

(* One turn of the loop over the updates: go p.handler(ctx, upd).          *)
Dispatch ==
  /\ pc = "dispatch"
  /\ batch # <<>>
  /\ offset' = Head(batch) + 1
  /\ count' = [count EXCEPT ![Head(batch)] = @ + 1]
  /\ handled' = handled \cup {Head(batch)}
  /\ batch' = Tail(batch)
  /\ UNCHANGED <<pc, backoff, cancelled, callVars, serverVars, restarts>>

BatchDone ==
  /\ pc = "dispatch"
  /\ batch = <<>>
  /\ pc' = "top"
  /\ UNCHANGED <<offset, batch, backoff, cancelled, callVars, serverVars, restarts, history>>

minDuration(a, b) == IF a < b THEN a ELSE b

BackoffEnds ==
  /\ pc = "backoff"
  /\ backoff' = minDuration(2 * backoff, BackoffMax)
  /\ pc' = "top"
  /\ UNCHANGED <<offset, batch, cancelled, callVars, serverVars, restarts, history>>

BackoffCancelled ==
  /\ pc = "backoff"
  /\ cancelled
  /\ pc' = "returned"
  /\ UNCHANGED <<offset, batch, backoff, cancelled, callVars, serverVars, restarts, history>>

-----------------------------------------------------------------------------
(* The server: a request from offset o on confirms what is below o.        *)
Confirm(o) ==
  confirmed' = IF o = 0 \/ o - 1 <= confirmed THEN confirmed
               ELSE Min({o - 1, arrived})

(* The updates it keeps, from the offset of the request on.                *)
Pending ==
  LET base == IF offset > confirmed THEN offset - 1 ELSE confirmed
  IN  [i \in 1..(arrived - base) |-> base + i]

ServerReceives ==
  /\ request = "sent"
  /\ request' = "held"
  /\ Confirm(offset)
  /\ UNCHANGED <<runVars, cancelled, answer, late, arrived, restarts, history>>

ServerAnswers ==
  /\ request = "held"
  /\ Pending # <<>>
  /\ request' = "answered"
  /\ answer' = SubSeq(Pending, 1, Min({Limit, Len(Pending)}))
  /\ UNCHANGED <<runVars, cancelled, late, serverVars, restarts, history>>

(* The long poll is over and nothing came.                                 *)
ServerAnswersEmpty ==
  /\ request = "held"
  /\ Pending = <<>>
  /\ request' = "answered"
  /\ answer' = <<>>
  /\ UNCHANGED <<runVars, cancelled, late, serverVars, restarts, history>>

LateArrives(o) ==
  /\ o \in late
  /\ late' = late \ {o}
  /\ Confirm(o)
  /\ UNCHANGED <<runVars, cancelled, request, answer, arrived, restarts, history>>

UserSends ==
  /\ arrived < MaxUpdates
  /\ arrived' = arrived + 1
  /\ UNCHANGED <<runVars, cancelled, callVars, confirmed, restarts, history>>

Cancel ==
  /\ ~cancelled
  /\ cancelled' = TRUE
  /\ UNCHANGED <<runVars, callVars, serverVars, restarts, history>>

(* The process dies, or exits after Run returned, and is started again.    *)
Restart ==
  /\ restarts < MaxRestarts
  /\ restarts' = restarts + 1
  /\ Abandon
  /\ pc' = "top"
  /\ offset' = 0
  /\ batch' = <<>>
  /\ backoff' = BackoffBase
  /\ cancelled' = FALSE
  /\ count' = [u \in Updates |-> 0]
  /\ UNCHANGED <<serverVars, handled>>

-----------------------------------------------------------------------------
LocalStep ==
  \/ Stopped
  \/ GetUpdates
  \/ PollFails
  \/ PollOK
  \/ Dispatch
  \/ BatchDone
  \/ BackoffEnds
  \/ BackoffCancelled

Next ==
  \/ LocalStep
  \/ ServerReceives
  \/ ServerAnswers
  \/ ServerAnswersEmpty
  \/ \E o \in late : LateArrives(o)
  \/ UserSends
  \/ Cancel
  \/ Restart

Spec == Init /\ [][Next]_vars

-----------------------------------------------------------------------------
(* Type invariant; the backoff is doubled up to 60 seconds exactly.        *)
TypeOK ==
  /\ pc \in {"top", "poll", "dispatch", "backoff", "returned"}
  /\ offset \in 0..(MaxUpdates + 1)
  /\ batch \in Seq(Updates) /\ Len(batch) <= Limit
  /\ backoff \in {2, 4, 8, 16, 32, 60}
  /\ cancelled \in BOOLEAN
  /\ request \in {"none", "sent", "held", "answered"}
  /\ request # "none" => pc = "poll"
  /\ answer \in Seq(Updates)
  /\ late \subseteq 0..(MaxUpdates + 1)
  /\ arrived \in 0..MaxUpdates
  /\ confirmed \in 0..arrived
  /\ restarts \in 0..MaxRestarts
  /\ count \in [Updates -> Nat]
  /\ handled \subseteq 1..arrived

(* "handler is invoked once per incoming Update" (poller.go:35): a run     *)
(* hands no update to two goroutines, although answers get lost, requests  *)
(* are repeated and abandoned ones reach the server late.                  *)
DispatchedOnce == TypeOK /\ \A u \in Updates : count[u] <= 1

(* No update is lost: the server forgets only what some run dispatched,    *)
(* also when a run dies in the middle of a batch.                          *)
ForgottenWasDispatched == \A u \in 1..confirmed : u \in handled

(* Every update is dispatched unless Run is cancelled, however many polls  *)
(* fail before.                                                            *)
EventuallyDispatched ==
  \A u \in Updates : arrived >= u ~> (u \in handled \/ cancelled)

(* "polling Telegram for updates until ctx is cancelled" (poller.go:40):   *)
(* Run returns then, also from a poll that the server holds.               *)
CancelReturns == cancelled ~> (pc = "returned" \/ ~cancelled)
=============================================================================
