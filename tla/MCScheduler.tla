----------------------------- MODULE MCScheduler -----------------------------
(***************************************************************************)
(* A configuration with one job of every kind: an interval that is not a   *)
(* multiple of the tick, cron jobs with lists, ranges and steps, one for   *)
(* all days but Saturday, one that restricts both kinds of day ("month"),  *)
(* a disabled job, one that does not parse, and two that share a name by   *)
(* mistake.  A unit is 10 s, so a minute has six and a tick three.  The    *)
(* clock goes from 23:59 on Saturday, 31 January, to 00:01 on Sunday.      *)
(***************************************************************************)
EXTENDS Scheduler

Star        == [kind |-> "star", lo |-> 0, hi |-> 0, step |-> 1]
Value(v)    == [kind |-> "value", lo |-> v, hi |-> v, step |-> 1]
Span(l, h)  == [kind |-> "range", lo |-> l, hi |-> h, step |-> 1]
By(part, n) == [part EXCEPT !.step = n]
Word        == [kind |-> "word", lo |-> 0, hi |-> 0, step |-> 1]

Every(n)   == [kind |-> "every", n |-> n, expr |-> <<>>]
Crontab(expr) == [kind |-> "cron", n |-> 0, expr |-> expr]

Job(name, sched, enabled) == [name |-> name, sched |-> sched, enabled |-> enabled]

Any == <<Star>>

MCJobs ==
  << Job("poll",  Every(4), TRUE),
     Job("night", Crontab(<< <<By(Span(50, 59), 3), Value(0)>>, <<Value(0), Value(23)>>,
                             Any, Any, <<Span(6, 7)>> >>), TRUE),
     Job("sunday", Crontab(<< Any, Any, Any, Any, <<Span(1, 5), Value(7)>> >>), TRUE),
     Job("off",   Every(2), FALSE),
     Job("typo",  Crontab(<< <<Word>>, Any, Any, Any, Any >>), TRUE),
     Job("month", Crontab(<< <<By(Star, 59)>>, <<By(Star, 23)>>, <<Value(1), Value(31)>>,
                             Any, <<Value(0)>> >>), TRUE),
     Job("twice", Every(6), TRUE),
     Job("twice", Crontab(<< <<Value(59), Value(1)>>, Any, Any, Any, Any >>), TRUE) >>

MCWallClock ==
  [m \in 0 .. 2 |-> CASE m = 0 -> <<59, 23, 31, 1, 6>>
                      [] m = 1 -> << 0,  0,  1, 2, 0>>
                      [] m = 2 -> << 1,  0,  1, 2, 0>>]

\* The parser against its reading, for every part and pair of parts of a
\* day-of-week field; a step near the largest int is what panics.
MCParts ==
  [kind : {"star", "word"}, lo : {0}, hi : {0}, step : {0, 1, 2, 7, 9}]
    \cup [kind : {"range"}, lo : 0 .. 8, hi : 0 .. 8, step : {1, 2, 3, MaxInt}]

ASSUME ParserAssumption ==
  \A p, q \in MCParts :
    LET field == <<p, q>>
        table == ParseField(field, Low[5], High[5])
    IN  /\ (\A k \in 1 .. 2 : PartIsLegal(field[k], 5) /\ field[k].step < MaxInt)
             => Weekdays(table) = {d \in 0 .. 6 : FieldSays(field, 5, d)}
        /\ (\E k \in 1 .. 2 : ~PartIsLegal(field[k], 5)) =>
             table \cap {Refused, Panics} # {}
=============================================================================
