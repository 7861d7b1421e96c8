-------------------------------- MODULE Cron --------------------------------
(***************************************************************************)
(* modules/scheduler/cron.go: five fields of an expression become five     *)
(* sets of values (the bitsets), and a minute matches when each of its     *)
(* calendar fields is in the set.                                          *)
(*                                                                         *)
(* An expression is what strings.Fields and strings.Cut leave of it: an    *)
(* alias or a list of fields, each field a set of comma separated parts.   *)
(* A part "from-to/step" has the step 1 if none is written; "junk" stands  *)
(* for what Atoi refuses.  An int wraps at MaxInt.                         *)
(***************************************************************************)
EXTENDS Integers, Sequences, FiniteSets

CONSTANTS
  Exprs,      \* the expressions that callers use
  Calendar,   \* fields of each minute: minute, hour, day, month, weekday
  MaxIter,    \* minutes that NextAfter looks ahead
  MaxInt      \* the largest int

ASSUME CronAssumption == MaxIter \in Nat /\ MaxInt \in Nat /\ MaxInt >= 59

CronFields == 1..5
Lo == <<0, 0, 1, 1, 0>>
Hi == <<59, 23, 31, 12, 6>>

AnyValue == {[kind |-> "any", from |-> 0, to |-> 0, step |-> 1]}
One(v) == {[kind |-> "one", from |-> v, to |-> v, step |-> 1]}

(* The fields of e, an alias replaced by what it stands for.               *)
Fields(e) ==
  CASE e.alias = "@yearly" -> <<One(0), One(0), One(1), One(1), AnyValue>>
    [] e.alias = "@monthly" -> <<One(0), One(0), One(1), AnyValue, AnyValue>>
    [] e.alias = "@weekly" -> <<One(0), One(0), AnyValue, AnyValue, One(0)>>
    [] e.alias = "@daily" -> <<One(0), One(0), AnyValue, AnyValue, AnyValue>>
    [] e.alias = "@hourly" -> <<One(0), AnyValue, AnyValue, AnyValue, AnyValue>>
    [] OTHER -> e.fields

(* A part as strings.Cut and Atoi leave it: Atoi returns an int.           *)
CronPart == [kind : {"any", "one", "range", "junk"}, from : Int, to : Int, step : Int]

ASSUME PartsAssumption == \A e \in Exprs : Fields(e) \in Seq(SUBSET CronPart)

(* parsePart, parseRange and parseSingle return an error unless this holds. *)
PartOK(p, lo, hi) ==
  /\ p.kind # "junk" /\ p.step > 0
  /\ p.kind = "range" => lo <= p.from /\ p.to <= hi /\ p.from <= p.to
  /\ p.kind = "one" => p.from \in lo..hi

Wrap(v) == ((v + MaxInt + 1) % (2 * MaxInt + 2)) - MaxInt - 1
SafeUint(v) == IF v < 0 THEN 0 ELSE v

(* for v := start; v <= end; v += step, with each turn's v as a bit.       *)
LoopValues(start, end, step) ==
  LET v(k) == Wrap(start + k * step)
  IN {SafeUint(v(k)) : k \in {k \in 0..MaxInt : \A j \in 0..k : v(j) <= end}}

PartValues(p, lo, hi) ==
  CASE p.kind = "any" -> LoopValues(lo, hi, p.step)
    [] p.kind = "range" -> LoopValues(p.from, p.to, p.step)
    [] OTHER -> {p.from}

ParseCronOK(e) ==
  /\ Len(Fields(e)) = 5
  /\ \A f \in CronFields : \A p \in Fields(e)[f] : PartOK(p, Lo[f], Hi[f])

ParseCron(e) ==
  [f \in CronFields |-> UNION {PartValues(p, Lo[f], Hi[f]) : p \in Fields(e)[f]}]

(* The schedules of the expressions that ParseCron accepts.                *)
Accepted == {e \in Exprs : ParseCronOK(e)}
Schedule == [e \in Accepted |-> ParseCron(e)]

(* the weekday is not consulted *)
Matches_AnyWeekdayBug(schedule, m) == \A f \in 1..4 : Calendar[m][f] \in schedule[f]

Matches(schedule, m) == \A f \in CronFields : Calendar[m][f] \in schedule[f]

Zero == -1

(* The first match among the MaxIter minutes after t, else the zero time.  *)
NextAfter(schedule, t) ==
  LET hits == {m \in (t + 1)..(t + MaxIter) : m \in DOMAIN Calendar /\ Matches(schedule, m)}
  IN IF hits = {} THEN Zero ELSE CHOOSE m \in hits : \A h \in hits : m <= h

-----------------------------------------------------------------------------
(* What an expression says, without parsing it.                            *)

PartNames(p, lo, hi, v) ==
  CASE p.kind = "any" -> v \in lo..hi /\ (v - lo) % p.step = 0
    [] p.kind = "range" -> v \in p.from..p.to /\ (v - p.from) % p.step = 0
    [] OTHER -> v = p.from

Says(e, m) ==
  \A f \in CronFields : \E p \in Fields(e)[f] : PartNames(p, Lo[f], Hi[f], Calendar[m][f])

(* v += step passes MaxInt while v is still in the range.                  *)
StepOverflows(e) ==
  \E f \in CronFields : \E p \in Fields(e)[f] :
    p.kind # "one" /\ p.step > MaxInt - (IF p.kind = "any" THEN Hi[f] ELSE p.to)
=============================================================================
