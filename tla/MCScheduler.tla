---------------------------- MODULE MCScheduler ----------------------------
(* The last two minutes of a year, a Thursday, and the first of the next.  *)
(* An expression for every minute of Thursdays, one whose step wraps so    *)
(* that it matches 23:58 and 00:00, and three expressions that ParseCron   *)
(* refuses.  An int has 8 bits.                                            *)
EXTENDS Scheduler, TLC

MCCalendar == 0 :> <<58, 23, 31, 12, 4>> @@ 1 :> <<59, 23, 31, 12, 4>> @@ 2 :> <<0, 0, 1, 1, 5>>

Text(fields) == [alias |-> "", fields |-> fields]
Part(kind, from, to, step) == {[kind |-> kind, from |-> from, to |-> to, step |-> step]}

Thursdays == Text(<<Part("any", 0, 0, 2) \cup One(59), AnyValue, AnyValue, AnyValue, One(4)>>)
Refused == {
  Text(<<Part("range", 40, 1, 1), AnyValue, AnyValue, AnyValue, AnyValue>>),
  Text(<<Part("any", 0, 0, 0), AnyValue, AnyValue, AnyValue, AnyValue>>),
  Text(<<AnyValue, AnyValue, AnyValue, AnyValue>>)}

MCExprs == Refused \cup {Thursdays, Text(<<Part("range", 58, 58, 127), AnyValue, AnyValue, AnyValue, AnyValue>>)}

(* One expression is enough for the restart.                               *)
RestartExprs == {Thursdays}
=============================================================================
