---------------------------- MODULE TelegramProofs ----------------------------
(***************************************************************************)
(* The Telegram poller dispatches every update once per run and none is    *)
(* forgotten before it was, for any number of updates and crashes and any  *)
(* size of an answer.                                                      *)
(***************************************************************************)
EXTENDS TelegramPoller, TLAPS

(* Every update below o was dispatched by some run.                        *)
DoneBelow(o) == \A u \in Updates : u < o => u \in handled

(* Consecutive updates that Run may dispatch next: none was dispatched by  *)
(* this run, and everything before them was by some run.                   *)
Ready(s) ==
  /\ \A i \in 1..Len(s) : s[i] <= arrived /\ s[i] + 1 = s[1] + i
  /\ s # <<>> => offset <= s[1] /\ DoneBelow(s[1])
  /\ Len(s) <= Limit

(* At most one of them is full: the answer while GetUpdates waits, the     *)
(* batch while Run loops over it.                                          *)
AnswerInv ==
  /\ answer # <<>> => request = "answered"
  /\ batch # <<>> => pc = "dispatch"
  /\ Ready(answer)
  /\ Ready(batch)

(* An offset that the server may see, now or late, confirms only what was  *)
(* dispatched.                                                             *)
OffsetInv ==
  /\ DoneBelow(confirmed + 1)
  /\ offset <= arrived + 1 /\ DoneBelow(offset)
  /\ \A o \in late : o <= arrived + 1 /\ DoneBelow(o)

(* What this run dispatched is below its offset.                           *)
CountInv == \A u \in Updates : count[u] <= 1 /\ (count[u] = 1 => u < offset)

PollInv == TypeOK /\ AnswerInv /\ OffsetInv /\ CountInv

-----------------------------------------------------------------------------
USE DEF runVars, callVars, serverVars, history

(* The smaller of two numbers.                                             *)
LEMMA MinOfTwo ==
  ASSUME NEW a \in Nat, NEW b \in Nat
  PROVE  Min({a, b}) \in {a, b} /\ Min({a, b}) <= a /\ Min({a, b}) <= b
<1>1. \E x \in {a, b} : \A y \in {a, b} : x <= y
  OBVIOUS
<1>2. Min({a, b}) \in {a, b} /\ \A y \in {a, b} : Min({a, b}) <= y
  BY <1>1 DEF Min
<1> QED
  BY <1>2

(* What the server does with a request that arrives: confirmed grows to    *)
(* what is below the offset at most, and never past the last update.       *)
LEMMA ConfirmBounds ==
  ASSUME TypeOK, NEW o \in 0..(MaxUpdates + 1), Confirm(o)
  PROVE  /\ confirmed' \in confirmed..arrived
         /\ confirmed' = confirmed \/ confirmed' + 1 <= o
<1>1. confirmed \in Nat /\ arrived \in Nat /\ confirmed <= arrived /\ o \in Nat
  BY BoundsAssumption DEF TypeOK
<1>2. CASE o = 0 \/ o - 1 <= confirmed
  BY <1>1, <1>2 DEF Confirm
<1>3. CASE ~(o = 0 \/ o - 1 <= confirmed)
  <2>1. o - 1 \in Nat /\ confirmed' = Min({o - 1, arrived})
    BY <1>1, <1>3 DEF Confirm
  <2>2. confirmed' \in {o - 1, arrived} /\ confirmed' <= o - 1 /\ confirmed' <= arrived
    BY <1>1, <2>1, MinOfTwo
  <2> QED
    BY <1>1, <1>3, <2>1, <2>2
<1> QED
  BY <1>2, <1>3

(* The answer of the server is a run of consecutive updates, the first one *)
(* after all that it has forgotten and all that is below the offset.       *)
LEMMA AnswerIsRun ==
  ASSUME PollInv, ServerAnswers
  PROVE  \E b \in Nat, n \in Nat :
           /\ answer' = [i \in 1..n |-> b + i]
           /\ b + n <= arrived /\ n <= Limit
           /\ offset <= b + 1 /\ (b = confirmed \/ b + 1 = offset)
<1>1. /\ confirmed \in Nat /\ arrived \in Nat /\ confirmed <= arrived /\ offset \in Nat
      /\ offset <= arrived + 1 /\ Limit \in Nat
  BY BoundsAssumption, LimitAssumption DEF TypeOK, PollInv, OffsetInv
<1> DEFINE b == IF offset > confirmed THEN offset - 1 ELSE confirmed
           m == arrived - b
           n == Min({Limit, m})
<1>2. b \in Nat /\ m \in Nat /\ offset <= b + 1 /\ (b = confirmed \/ b + 1 = offset) /\ b + m = arrived
  BY <1>1
<1>3. Pending = [i \in 1..m |-> b + i]
  BY DEF Pending
<1> HIDE DEF b, m
<1>4. n \in Nat /\ n <= m /\ n <= Limit
  BY <1>1, <1>2, MinOfTwo
<1>5. Pending \in Seq(Nat) /\ Len(Pending) = m
  BY <1>2, <1>3
<1>6. answer' = SubSeq(Pending, 1, n)
  BY <1>5 DEF ServerAnswers
<1> HIDE DEF n
<1>7. answer' = [i \in 1..n |-> b + i]
  BY <1>2, <1>3, <1>4, <1>5, <1>6
<1>8. b + n <= arrived
  BY <1>1, <1>2, <1>4
<1> b \in Nat /\ n \in Nat
  BY <1>2, <1>4
<1> WITNESS b \in Nat, n \in Nat
<1> QED
  BY <1>2, <1>4, <1>7, <1>8

(* Nothing was sent, asked for or dispatched.                              *)
LEMMA InitPoll == Init => PollInv
<1> SUFFICES ASSUME Init PROVE PollInv
  OBVIOUS
<1>1. TypeOK
  <2>1. <<>> \in Seq(Updates) /\ Len(<<>>) = 0
    OBVIOUS
  <2>2. count \in [Updates -> Nat] /\ 0 \in 0..MaxUpdates /\ 0 \in 0..(MaxUpdates + 1) /\ 0 \in 0..MaxRestarts
    BY BoundsAssumption DEF Init
  <2>3. 0 \in 0..arrived /\ handled \subseteq 1..arrived /\ 0 <= Limit
    BY LimitAssumption DEF Init
  <2> QED
    BY <2>1, <2>2, <2>3 DEF Init, TypeOK, BackoffBase
<1>2. AnswerInv
  BY LimitAssumption DEF Init, AnswerInv, Ready
<1>3. OffsetInv
  BY BoundsAssumption DEF Init, OffsetInv, DoneBelow, Updates
<1>4. CountInv
  BY DEF Init, CountInv
<1> QED
  BY <1>1, <1>2, <1>3, <1>4 DEF PollInv

(* Every step keeps the types; the backoff stays in its six values.        *)
LEMMA TypeStep == PollInv /\ [Next]_vars => TypeOK'
<1> SUFFICES ASSUME PollInv, [Next]_vars PROVE TypeOK'
  OBVIOUS
<1>1. TypeOK /\ AnswerInv /\ OffsetInv
  BY DEF PollInv
<1>2. MaxUpdates \in Nat /\ Limit \in Nat /\ MaxRestarts \in Nat
  BY BoundsAssumption, LimitAssumption
<1>3. CASE Stopped \/ GetUpdates \/ BatchDone \/ BackoffCancelled \/ Cancel \/ UNCHANGED vars
  <2>1. CASE Stopped \/ BatchDone \/ BackoffCancelled
    BY <1>1, <2>1 DEF Stopped, BatchDone, BackoffCancelled, TypeOK
  <2>2. CASE GetUpdates
    BY <1>1, <2>2 DEF GetUpdates, TypeOK
  <2>3. CASE Cancel
    <3>1. cancelled' \in BOOLEAN /\ UNCHANGED <<runVars, callVars, serverVars, restarts, history>>
      BY <2>3 DEF Cancel
    <3> QED
      BY <1>1, <3>1 DEF TypeOK
  <2>4. CASE UNCHANGED vars
    BY <1>1, <2>4 DEF vars, TypeOK
  <2> QED
    BY <1>3, <2>1, <2>2, <2>3, <2>4
<1>4. CASE BackoffEnds
  <2>1. backoff' \in {2, 4, 8, 16, 32, 60}
    BY <1>1, <1>4 DEF BackoffEnds, minDuration, BackoffMax, TypeOK
  <2> QED
    BY <1>1, <1>4, <2>1 DEF BackoffEnds, TypeOK
<1>5. ASSUME Abandon PROVE request' = "none" /\ answer' \in Seq(Updates) /\ late' \subseteq 0..(MaxUpdates + 1)
  BY <1>1, <1>5 DEF Abandon, TypeOK
<1>6. CASE PollFails
  <2>1. /\ pc' \in {"returned", "backoff"} /\ Abandon
        /\ UNCHANGED <<offset, batch, backoff, cancelled, serverVars, restarts, history>>
    BY <1>6 DEF PollFails
  <2> QED
    BY <1>1, <1>5, <2>1 DEF TypeOK
<1>7. CASE PollOK
  <2>1. batch' \in Seq(Updates) /\ Len(batch') <= Limit
    BY <1>1, <1>7 DEF PollOK, TypeOK, AnswerInv, Ready
  <2> QED
    BY <1>1, <1>5, <1>7, <2>1 DEF PollOK, TypeOK, BackoffBase
<1>8. CASE Dispatch
  <2>1. PICK h : h = Head(batch) /\ h = batch[1]
    BY <1>1, <1>8 DEF Dispatch, TypeOK
  <2>2. h \in Updates /\ h <= arrived /\ batch' \in Seq(Updates) /\ Len(batch') <= Limit
    BY <1>1, <1>2, <1>8, <2>1 DEF Dispatch, TypeOK, AnswerInv, Ready
  <2>3. /\ offset' = h + 1 /\ count' = [count EXCEPT ![h] = @ + 1] /\ handled' = handled \cup {h}
        /\ UNCHANGED <<pc, backoff, cancelled, callVars, serverVars, restarts>>
    BY <1>8, <2>1 DEF Dispatch
  <2>4. offset' \in 0..(MaxUpdates + 1) /\ h \in 1..arrived
    BY <1>1, <1>2, <2>2, <2>3 DEF Updates, TypeOK
  <2>5. count' \in [Updates -> Nat]
    BY <1>1, <2>2, <2>3 DEF TypeOK
  <2> QED
    BY <1>1, <2>2, <2>3, <2>4, <2>5 DEF TypeOK
<1>9. CASE ServerReceives \/ \E o \in late : LateArrives(o)
  <2>1. PICK o \in 0..(MaxUpdates + 1) : Confirm(o)
    BY <1>1, <1>9 DEF ServerReceives, LateArrives, TypeOK
  <2>2. confirmed' \in 0..arrived
    BY <1>1, <1>2, <2>1, ConfirmBounds DEF TypeOK
  <2> QED
    BY <1>1, <1>9, <2>2 DEF ServerReceives, LateArrives, TypeOK
<1>10. CASE ServerAnswers
  <2>1. answer' \in Seq(Updates)
    <3>1. PICK b \in Nat, n \in Nat : answer' = [i \in 1..n |-> b + i] /\ b + n <= arrived
      BY <1>10, AnswerIsRun
    <3>2. \A i \in 1..n : b + i \in Updates
      BY <1>1, <1>2, <3>1 DEF TypeOK, Updates
    <3> QED
      BY <3>1, <3>2
  <2> QED
    BY <1>1, <1>10, <2>1 DEF ServerAnswers, TypeOK
<1>11. CASE ServerAnswersEmpty
  BY <1>1, <1>11 DEF ServerAnswersEmpty, TypeOK
<1>12. CASE UserSends
  <2>1. arrived' \in 0..MaxUpdates /\ 0..arrived \subseteq 0..arrived' /\ 1..arrived \subseteq 1..arrived'
    BY <1>1, <1>2, <1>12 DEF UserSends, TypeOK
  <2> QED
    BY <1>1, <1>12, <2>1 DEF UserSends, TypeOK
<1>13. CASE Restart
  <2>1. /\ offset' \in 0..(MaxUpdates + 1) /\ batch' \in Seq(Updates) /\ Len(batch') <= Limit
        /\ restarts' \in 0..MaxRestarts /\ count' \in [Updates -> Nat]
    BY <1>1, <1>2, <1>13 DEF Restart, TypeOK
  <2> QED
    BY <1>1, <1>5, <1>13, <2>1 DEF Restart, TypeOK, BackoffBase
<1> QED
  BY <1>3, <1>4, <1>6, <1>7, <1>8, <1>9, <1>10, <1>11, <1>12, <1>13 DEF Next, LocalStep

(* handled only grows.                                                     *)
LEMMA DoneGrows ==
  ASSUME NEW o, DoneBelow(o), handled \subseteq handled'
  PROVE  DoneBelow(o)'
BY DEF DoneBelow

(* An update may be dispatched as long as the offset is where it was.      *)
LEMMA ReadyStays ==
  ASSUME TypeOK, NEW s \in Seq(Updates), Ready(s), offset' \in Nat, offset' <= offset, handled \subseteq handled',
         arrived' \in Nat, arrived <= arrived'
  PROVE  Ready(s)'
<1>1. \A i \in 1..Len(s) : s[i] \in Nat /\ arrived \in Nat /\ offset \in Nat
  BY BoundsAssumption DEF Updates, TypeOK
<1>2. \A i \in 1..Len(s) : s[i] <= arrived' /\ s[i] + 1 = s[1] + i
  BY <1>1 DEF Ready
<1>3. s # <<>> => offset' <= s[1] /\ DoneBelow(s[1])'
  BY <1>1, DoneGrows DEF Ready
<1> QED
  BY <1>2, <1>3 DEF Ready

(* The answer and the batch stay consecutive and undispatched: nothing     *)
(* moves the offset while an answer waits, and Dispatch moves it to the    *)
(* next update of the batch.                                               *)
LEMMA AnswerStep == PollInv /\ [Next]_vars => AnswerInv'
<1> SUFFICES ASSUME PollInv, [Next]_vars PROVE AnswerInv'
  OBVIOUS
<1>1. TypeOK /\ AnswerInv /\ OffsetInv
  BY DEF PollInv
<1>2. /\ MaxUpdates \in Nat /\ Limit \in Nat /\ offset \in Nat /\ arrived \in Nat
      /\ answer \in Seq(Updates) /\ batch \in Seq(Updates)
  BY <1>1, BoundsAssumption, LimitAssumption DEF TypeOK
<1>3. Ready(<<>>)'
  BY <1>2 DEF Ready
<1>4. ASSUME offset' \in Nat, offset' <= offset, handled \subseteq handled', arrived' \in Nat, arrived <= arrived'
      PROVE  /\ answer' = answer => Ready(answer)'
             /\ batch' = answer => Ready(batch)'
             /\ batch' = batch => Ready(batch)'
  <2>1. \A s \in Seq(Updates) : Ready(s) => Ready(s)'
    BY <1>1, <1>4, ReadyStays
  <2> QED
    BY <1>1, <1>2, <2>1 DEF AnswerInv
<1>5. ASSUME Abandon PROVE Ready(answer)' /\ answer' = <<>>
  BY <1>3, <1>5 DEF Abandon
<1>6. CASE Stopped \/ GetUpdates \/ BatchDone \/ BackoffEnds \/ BackoffCancelled \/ Cancel
            \/ ServerReceives \/ UNCHANGED vars \/ \E o \in late : LateArrives(o)
  <2>1. /\ UNCHANGED <<offset, handled, arrived, answer, batch>>
        /\ request = "answered" => request' = "answered" \/ pc # "poll"
        /\ pc' = "dispatch" \/ pc # "dispatch" \/ batch = <<>>
    BY <1>6 DEF Stopped, GetUpdates, BatchDone, BackoffEnds, BackoffCancelled, Cancel, ServerReceives, vars, LateArrives
  <2>2. Ready(answer)' /\ Ready(batch)'
    BY <1>2, <1>4, <2>1
  <2>3. answer' # <<>> => request' = "answered"
    BY <1>1, <2>1 DEF AnswerInv, TypeOK
  <2> QED
    BY <1>1, <2>1, <2>2, <2>3 DEF AnswerInv
<1>7. CASE PollFails
  <2>1. UNCHANGED <<offset, handled, arrived, batch>> /\ Abandon /\ pc = "poll"
    BY <1>7 DEF PollFails
  <2>2. Ready(batch)' /\ batch' = <<>>
    BY <1>1, <1>2, <1>4, <2>1 DEF AnswerInv
  <2> QED
    BY <1>5, <2>1, <2>2 DEF AnswerInv
<1>8. CASE PollOK
  <2>1. UNCHANGED <<offset, handled, arrived>> /\ Abandon /\ batch' = answer /\ pc' = "dispatch"
    BY <1>8 DEF PollOK
  <2> QED
    BY <1>2, <1>4, <1>5, <2>1 DEF AnswerInv
<1>9. CASE Dispatch
  <2>1. PICK h : h = Head(batch)
    OBVIOUS
  <2>2. /\ pc = "dispatch" /\ batch # <<>> /\ batch' = Tail(batch) /\ offset' = h + 1 /\ handled' = handled \cup {h}
        /\ UNCHANGED <<pc, answer, request, arrived>>
    BY <1>9, <2>1 DEF Dispatch
  <2>3. answer' = <<>> /\ Ready(answer)'
    BY <1>1, <1>3, <2>2 DEF AnswerInv, TypeOK
  <2>4. h = batch[1] /\ Len(batch) > 0 /\ \A i \in 1..Len(batch) : batch[i] \in Updates
    BY <1>2, <2>1, <2>2
  <2>5. Len(batch') + 1 = Len(batch) /\ \A i \in 1..Len(batch') : batch'[i] = batch[i + 1]
    BY <1>2, <2>2
  <2>6. /\ \A i \in 1..Len(batch) : batch[i] \in Nat /\ batch[i] <= arrived /\ batch[i] + 1 = h + i
        /\ DoneBelow(h) /\ Len(batch) <= Limit
    BY <1>1, <2>2, <2>4 DEF AnswerInv, Ready, Updates
  <2>7. Len(batch') \in Nat /\ h \in Nat
    BY <1>2, <2>2, <2>4 DEF Updates
  <2>8. ASSUME NEW i \in 1..Len(batch') PROVE batch'[i] = h + i /\ batch'[i] <= arrived'
    <3>1. i + 1 \in 1..Len(batch) /\ i \in Nat
      BY <2>5, <2>7
    <3>2. batch'[i] = batch[i + 1]
      BY <2>5
    <3>3. batch[i + 1] \in Nat /\ batch[i + 1] <= arrived /\ batch[i + 1] + 1 = h + (i + 1)
      BY <2>6, <3>1
    <3> QED
      BY <2>2, <2>7, <3>1, <3>2, <3>3
  <2>9. ASSUME NEW u \in Updates, u < h + 1 PROVE u \in handled'
    BY <2>2, <2>6, <2>7, <2>9 DEF DoneBelow, Updates
  <2>10. batch' # <<>> => batch'[1] = h + 1
    BY <1>2, <2>2, <2>7, <2>8
  <2>11. batch' # <<>> => offset' <= batch'[1] /\ DoneBelow(batch[1])'
    BY <2>2, <2>7, <2>9, <2>10 DEF DoneBelow
  <2>12. ASSUME NEW i \in 1..Len(batch') PROVE batch'[i] + 1 = batch'[1] + i
    <3>1. 1 \in 1..Len(batch') /\ i \in Nat
      BY <2>7
    <3>2. batch'[i] = h + i /\ batch'[1] = h + 1
      BY <2>8, <3>1
    <3> QED
      BY <2>7, <3>1, <3>2
  <2>13. Ready(batch)'
    BY <1>2, <2>5, <2>6, <2>7, <2>8, <2>11, <2>12 DEF Ready
  <2> QED
    BY <2>2, <2>3, <2>13 DEF AnswerInv
<1>10. CASE ServerAnswers
  <2>1. PICK b \in Nat, n \in Nat : /\ answer' = [i \in 1..n |-> b + i]
                                    /\ b + n <= arrived /\ n <= Limit
                                    /\ offset <= b + 1 /\ (b = confirmed \/ b + 1 = offset)
    BY <1>10, AnswerIsRun
  <2>2. UNCHANGED <<offset, handled, arrived, batch, pc>> /\ request' = "answered"
    BY <1>10 DEF ServerAnswers
  <2>3. Len(answer') = n /\ \A i \in 1..n : answer'[i] = b + i
    BY <2>1
  <2>4. answer' # <<>> => answer'[1] = b + 1 /\ DoneBelow(b + 1)
    BY <1>1, <2>1, <2>3 DEF OffsetInv
  <2>5. answer' # <<>> => offset' <= answer'[1] /\ DoneBelow(answer[1])'
    BY <2>1, <2>2, <2>4 DEF DoneBelow
  <2>6. \A i \in 1..n : answer'[i] <= arrived' /\ answer'[i] + 1 = answer'[1] + i
    BY <1>2, <2>1, <2>2, <2>3
  <2>7. Ready(answer)'
    BY <2>1, <2>3, <2>5, <2>6 DEF Ready
  <2>8. Ready(batch)'
    BY <1>2, <1>4, <2>2
  <2> QED
    BY <1>1, <2>2, <2>7, <2>8 DEF AnswerInv
<1>11. CASE ServerAnswersEmpty
  <2>1. UNCHANGED <<offset, handled, arrived, batch, pc>> /\ answer' = <<>>
    BY <1>11 DEF ServerAnswersEmpty
  <2> QED
    BY <1>1, <1>2, <1>3, <1>4, <2>1 DEF AnswerInv
<1>12. CASE UserSends
  <2>1. UNCHANGED <<offset, handled, batch, pc, answer, request>> /\ arrived' = arrived + 1
    BY <1>12 DEF UserSends
  <2> QED
    BY <1>1, <1>2, <1>4, <2>1 DEF AnswerInv
<1>13. CASE Restart
  <2>1. Abandon /\ batch' = <<>>
    BY <1>13 DEF Restart
  <2> QED
    BY <1>3, <1>5, <2>1 DEF AnswerInv
<1> QED
  BY <1>6, <1>7, <1>8, <1>9, <1>10, <1>11, <1>12, <1>13 DEF Next, LocalStep

(* An update leaves the server only by an offset above it, and the offset  *)
(* only rises past an update when that is dispatched.                      *)
LEMMA OffsetStep == PollInv /\ [Next]_vars => OffsetInv'
<1> SUFFICES ASSUME PollInv, [Next]_vars PROVE OffsetInv'
  OBVIOUS
<1>1. TypeOK /\ AnswerInv /\ OffsetInv
  BY DEF PollInv
<1>2. /\ MaxUpdates \in Nat /\ offset \in Nat /\ arrived \in Nat /\ confirmed \in Nat
      /\ late \subseteq 0..(MaxUpdates + 1) /\ batch \in Seq(Updates)
  BY <1>1, BoundsAssumption DEF TypeOK
<1>3. CASE Stopped \/ GetUpdates \/ BatchDone \/ BackoffEnds \/ BackoffCancelled \/ Cancel
            \/ ServerAnswers \/ ServerAnswersEmpty \/ UNCHANGED vars
  <2>1. UNCHANGED <<offset, late, confirmed, arrived, handled>>
    BY <1>3 DEF Stopped, GetUpdates, BatchDone, BackoffEnds, BackoffCancelled, Cancel, ServerAnswers,
       ServerAnswersEmpty, vars
  <2> QED
    BY <1>1, <2>1 DEF OffsetInv, DoneBelow
<1>4. CASE PollFails \/ PollOK
  <2>1. UNCHANGED <<offset, confirmed, arrived, handled>> /\ late' \subseteq late \cup {offset}
    BY <1>4 DEF PollFails, PollOK, Abandon
  <2> QED
    BY <1>1, <2>1 DEF OffsetInv, DoneBelow
<1>5. CASE Dispatch
  <2>1. PICK h : h = Head(batch)
    OBVIOUS
  <2>2. /\ batch # <<>> /\ offset' = h + 1 /\ handled' = handled \cup {h}
        /\ UNCHANGED <<late, confirmed, arrived>>
    BY <1>5, <2>1 DEF Dispatch
  <2>3. h = batch[1] /\ h \in Updates /\ 1 \in 1..Len(batch)
    BY <1>2, <2>1, <2>2
  <2>4. h \in Nat /\ h <= arrived /\ DoneBelow(h)
    BY <1>1, <2>2, <2>3 DEF AnswerInv, Ready, Updates
  <2>5. offset' <= arrived' + 1
    BY <1>2, <2>2, <2>4
  <2>6. DoneBelow(offset)'
    BY <2>2, <2>4 DEF DoneBelow, Updates
  <2> QED
    BY <1>1, <2>2, <2>5, <2>6 DEF OffsetInv, DoneBelow
<1>6. CASE ServerReceives \/ \E o \in late : LateArrives(o)
  <2>1. PICK o : o \in late \cup {offset} /\ Confirm(o)
    BY <1>6 DEF ServerReceives, LateArrives
  <2>2. UNCHANGED <<offset, arrived, handled>> /\ late' \subseteq late
    BY <1>6 DEF ServerReceives, LateArrives
  <2>3. o \in 0..(MaxUpdates + 1) /\ o \in Nat /\ DoneBelow(o)
    BY <1>1, <1>2, <2>1 DEF OffsetInv, TypeOK
  <2>4. confirmed' \in Nat /\ (confirmed' = confirmed \/ confirmed' + 1 <= o)
    BY <1>1, <1>2, <2>1, <2>3, ConfirmBounds
  <2>5. PICK c \in Nat : c = confirmed' /\ (c = confirmed \/ c + 1 <= o)
    BY <2>4
  <2>6. ASSUME NEW u \in Updates, u < c + 1 PROVE u \in handled'
    <3>1. u \in Nat /\ o \in Nat
      BY <2>3 DEF Updates
    <3>2. CASE c = confirmed
      BY <1>1, <2>2, <2>6, <3>2 DEF OffsetInv, DoneBelow
    <3>3. CASE c + 1 <= o
      <4>1. u < o
        BY <2>6, <3>1, <3>3
      <4> QED
        BY <2>2, <2>3, <4>1 DEF DoneBelow
    <3> QED
      BY <2>5, <3>2, <3>3
  <2> QED
    BY <1>1, <2>2, <2>5, <2>6 DEF OffsetInv, DoneBelow
<1>7. CASE UserSends
  <2>1. UNCHANGED <<offset, late, confirmed, handled>> /\ arrived' = arrived + 1
    BY <1>7 DEF UserSends
  <2>2. \A o \in late : o \in Nat
    BY <1>2
  <2> QED
    BY <1>1, <1>2, <2>1, <2>2 DEF OffsetInv, DoneBelow
<1>8. CASE Restart
  <2>1. UNCHANGED <<confirmed, arrived, handled>> /\ late' \subseteq late \cup {offset} /\ offset' = 0
    BY <1>8 DEF Restart, Abandon
  <2> QED
    BY <1>1, <1>2, <2>1 DEF OffsetInv, DoneBelow, Updates
<1> QED
  BY <1>3, <1>4, <1>5, <1>6, <1>7, <1>8 DEF Next, LocalStep

(* The update that is dispatched was not below the offset.                 *)
LEMMA CountStep == PollInv /\ [Next]_vars => CountInv'
<1> SUFFICES ASSUME PollInv, [Next]_vars PROVE CountInv'
  OBVIOUS
<1>1. TypeOK /\ AnswerInv /\ CountInv
  BY DEF PollInv
<1>2. offset \in Nat /\ batch \in Seq(Updates) /\ count \in [Updates -> Nat]
  BY <1>1, BoundsAssumption DEF TypeOK
<1>3. CASE Dispatch
  <2>1. PICK h : h = Head(batch)
    OBVIOUS
  <2>2. batch # <<>> /\ offset' = h + 1 /\ count' = [count EXCEPT ![h] = @ + 1]
    BY <1>3, <2>1 DEF Dispatch
  <2>3. h = batch[1] /\ h \in Updates
    BY <1>2, <2>1, <2>2
  <2>4. h \in Nat /\ offset <= h
    BY <1>1, <2>2, <2>3 DEF AnswerInv, Ready, Updates
  <2>5. count[h] = 0
    BY <1>1, <1>2, <2>3, <2>4 DEF CountInv
  <2>6. ASSUME NEW u \in Updates PROVE count'[u] <= 1 /\ (count'[u] = 1 => u < h + 1)
    BY <1>1, <1>2, <2>2, <2>3, <2>4, <2>5 DEF CountInv, Updates
  <2> QED
    BY <2>2, <2>6 DEF CountInv
<1>4. CASE Restart
  BY <1>4 DEF Restart, CountInv
<1>5. CASE UNCHANGED <<offset, count>>
  BY <1>1, <1>5 DEF CountInv
<1> QED
  BY <1>3, <1>4, <1>5 DEF Next, LocalStep, Stopped, GetUpdates, PollFails, PollOK, BatchDone, BackoffEnds,
     BackoffCancelled, ServerReceives, ServerAnswers, ServerAnswersEmpty, LateArrives, UserSends, Cancel, vars

(* The invariant of the poller holds in every reachable state.             *)
THEOREM PollCorrect == Spec => []PollInv
<1>1. PollInv /\ [Next]_vars => PollInv'
  BY TypeStep, AnswerStep, OffsetStep, CountStep DEF PollInv
<1> QED
  BY <1>1, InitPoll, PTL DEF Spec

(* No run hands an update to two handlers, however often requests are      *)
(* repeated and answers lost, for every size of an answer.                 *)
THEOREM UpdatesDispatchedOnce == Spec => []DispatchedOnce
<1>1. PollInv => DispatchedOnce
  BY DEF PollInv, CountInv, DispatchedOnce
<1> QED
  BY <1>1, PollCorrect, PTL

(* The server forgets an update only after some run dispatched it: no      *)
(* crash in the middle of a batch and no request that arrives late loses   *)
(* one.                                                                    *)
THEOREM NoUpdateLost == Spec => []ForgottenWasDispatched
<1>1. ASSUME PollInv PROVE ForgottenWasDispatched
  <2>1. ASSUME NEW u \in 1..confirmed PROVE u \in Updates /\ u < confirmed + 1
    BY <1>1, <2>1, BoundsAssumption DEF PollInv, TypeOK, Updates
  <2> QED
    BY <1>1, <2>1 DEF PollInv, OffsetInv, DoneBelow, ForgottenWasDispatched
<1> QED
  BY <1>1, PollCorrect, PTL

(* The update that a step hands to a handler comes after all that this run *)
(* has dispatched, and everything before it was dispatched by some run.    *)
NextInOrder ==
  \A u \in Updates : count'[u] > count[u] =>
    DoneBelow(u) /\ \A v \in Updates : count[v] > 0 => v < u

(* Only Dispatch calls a handler, for the first update of its batch.       *)
LEMMA DispatchIsNext == PollInv /\ [Next]_vars => NextInOrder
<1> SUFFICES ASSUME PollInv, [Next]_vars PROVE NextInOrder
  OBVIOUS
<1>1. TypeOK /\ AnswerInv /\ CountInv
  BY DEF PollInv
<1>2. offset \in Nat /\ batch \in Seq(Updates) /\ count \in [Updates -> Nat]
  BY <1>1, BoundsAssumption DEF TypeOK
<1>3. CASE Dispatch
  <2>1. PICK h : h = Head(batch)
    OBVIOUS
  <2>2. batch # <<>> /\ count' = [count EXCEPT ![h] = @ + 1]
    BY <1>3, <2>1 DEF Dispatch
  <2>3. h = batch[1] /\ h \in Updates
    BY <1>2, <2>1, <2>2
  <2>4. h \in Nat /\ offset <= h /\ DoneBelow(h)
    BY <1>1, <2>2, <2>3 DEF AnswerInv, Ready, Updates
  <2>5. ASSUME NEW u \in Updates, count'[u] > count[u] PROVE u = h
    BY <1>2, <2>2, <2>5
  <2>6. ASSUME NEW v \in Updates, count[v] > 0 PROVE v < h
    <3>1. count[v] \in Nat /\ count[v] <= 1 /\ (count[v] = 1 => v < offset)
      BY <1>1, <1>2 DEF CountInv
    <3> QED
      BY <1>2, <2>4, <2>6, <3>1 DEF Updates
  <2> QED
    BY <2>4, <2>5, <2>6 DEF NextInOrder
<1>4. CASE Restart
  BY <1>2, <1>4 DEF Restart, NextInOrder
<1>5. CASE UNCHANGED count
  BY <1>2, <1>5 DEF NextInOrder
<1> QED
  BY <1>3, <1>4, <1>5 DEF Next, LocalStep, Stopped, GetUpdates, PollFails, PollOK, BatchDone, BackoffEnds,
     BackoffCancelled, ServerReceives, ServerAnswers, ServerAnswersEmpty, LateArrives, UserSends, Cancel, vars

(* Each run starts its handlers in the order of the updates and leaves no  *)
(* gap before one, for every size of an answer and whatever was lost.      *)
THEOREM UpdatesInOrder == Spec => [][NextInOrder]_vars
BY DispatchIsNext, PollCorrect, PTL DEF Spec
=============================================================================
