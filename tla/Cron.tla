--------------------------------- MODULE Cron ---------------------------------
(***************************************************************************)
(* pkg/scheduler/cron.go: what ParseCron makes of an expression and when   *)
(* the result matches a time.                                              *)
(*                                                                         *)
(* An expression is a sequence of fields, a field a sequence of parts (the *)
(* text between commas).  A part is [kind, lo, hi, step]: "star", "value"  *)
(* (lo = hi), "range", or "word" for a text that is no number; step is 1   *)
(* without a slash and 0 for a step that is no number.  A []bool table is  *)
(* the set of its true indices.                                            *)
(***************************************************************************)
EXTENDS Integers, Sequences

CONSTANT MaxInt            \* the largest int

ASSUME MaxIntAssumption == MaxInt \in Nat /\ MaxInt > 59

\* minute, hour, day of month, month, day of week
Low  == <<0, 0, 1, 1, 0>>
High == <<59, 23, 31, 12, 7>>

Part == [kind : {"star", "value", "range", "word"}, lo : Int, hi : Int, step : Int]
Expr == Seq(Seq(Part))

Refused == -1              \* the parser returns an error
Panics  == -2              \* the parser indexes its table outside

\* The loop "for i := lo; i <= hi; i += step".  Beyond MaxInt the sum is
\* negative, so the loop goes on and indexes the table with it.
Marks(lo, hi, step) ==
  LET from[i \in lo .. hi] ==
        {i} \cup IF i + step > MaxInt THEN {Panics}
                 ELSE IF i + step <= hi THEN from[i + step] ELSE {}
  IN  from[lo]

\* parsePart
ParsePart(part, min, max) ==
  LET lo == IF part.kind = "star" THEN min ELSE part.lo
      hi == IF part.kind = "star" THEN max ELSE part.hi
  IN  IF part.kind = "word" \/ part.step <= 0 \/ lo < min \/ hi > max \/ lo > hi
        THEN {Refused}
        ELSE Marks(lo, hi, part.step)

\* parseField: the first part that does not parse ends it.
ParseField(field, min, max) ==
  LET table == [k \in DOMAIN field |-> ParsePart(field[k], min, max)]
      odd   == {k \in DOMAIN field : table[k] \cap {Refused, Panics} # {}}
  IN  IF odd = {} THEN UNION {table[k] : k \in DOMAIN field}
                  ELSE table[CHOOSE k \in odd : \A j \in odd : k <= j]

\* The last loop of ParseCron: 7 is Sunday as well.
Weekdays(table) == {i % 7 : i \in table}

\* ParseCron of an expression that Parses: its five tables.
ParseCron(expr) ==
  LET tables == [f \in 1 .. 5 |-> ParseField(expr[f], Low[f], High[f])]
  IN  [tables EXCEPT ![5] = Weekdays(@)]

Parses(expr) ==
  /\ Len(expr) = 5
  /\ \A f \in 1 .. 5 : Refused \notin ParseField(expr[f], Low[f], High[f])

\* ParseCron indexes a table outside before it can refuse the expression.
Crashes(expr) ==
  /\ Len(expr) = 5
  /\ \E f \in 1 .. 5 :
       /\ Panics \in ParseField(expr[f], Low[f], High[f])
       /\ \A e \in 1 .. f - 1 : Refused \notin ParseField(expr[e], Low[e], High[e])

\* Mutant: the day of the week is not looked at.
Matches_AnyWeekday(tables, time) == \A f \in 1 .. 4 : time[f] \in tables[f]

\* CronExpr.Matches: all five tables have the time's entry.
Matches(tables, time) == \A f \in 1 .. 5 : time[f] \in tables[f]

-----------------------------------------------------------------------------
(* The reference: what an expression says, read part by part.              *)

PartSays(part, value, min) ==
  LET lo == IF part.kind = "star" THEN min ELSE part.lo
  IN  /\ part.kind = "star" \/ value \in part.lo .. part.hi
      /\ (value - lo) % part.step = 0

FieldSays(field, f, value) ==
  \E k \in DOMAIN field :
    \/ PartSays(field[k], value, Low[f])
    \/ f = 5 /\ value = 0 /\ PartSays(field[k], 7, Low[f])

PartIsLegal(part, f) ==
  /\ part.kind # "word" /\ part.step > 0
  /\ part.kind = "star" \/ (Low[f] <= part.lo /\ part.lo <= part.hi /\ part.hi <= High[f])

Legal(expr) ==
  Len(expr) = 5 /\ \A f \in 1 .. 5 : \A k \in DOMAIN expr[f] : PartIsLegal(expr[f][k], f)

\* A day field that begins with a star leaves the days to the other one;
\* where both restrict them, standard cron takes either.
Restricted(field) == Head(field).kind # "star"
EitherDay(expr) == Legal(expr) /\ Restricted(expr[3]) /\ Restricted(expr[5])

\* The times an expression stands for in the "standard 5-field cron" that the
\* head of cron.go says it supports.
Says(expr, time) ==
  LET said == {f \in 1 .. 5 : FieldSays(expr[f], f, time[f])}
  IN  /\ Legal(expr)
      /\ {1, 2, 4} \subseteq said
      /\ IF EitherDay(expr) THEN {3, 5} \cap said # {} ELSE {3, 5} \subseteq said
=============================================================================
