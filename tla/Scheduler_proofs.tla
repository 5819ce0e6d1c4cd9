--------------------------- MODULE Scheduler_proofs ---------------------------
(***************************************************************************)
(* Who can stop a loop, what a stopped loop still does, and what a loop    *)
(* starts and when, for every configuration, period and bounded delay.     *)
(*                                                                         *)
(* Control: Start derives a live context only while nothing is running, so *)
(* the one cancel function the scheduler keeps belongs to the one loop     *)
(* that is live.                                                           *)
(*                                                                         *)
(* Timing: a late check moves the next tick beyond the time by which a     *)
(* loop must have seen the end of its context, because two delays are      *)
(* shorter than a period.                                                  *)
(*                                                                         *)
(* Parsing: the table a field is parsed to holds exactly what the field    *)
(* says (AllFieldsSay).  So an expression matches no time but those it     *)
(* stands for in standard cron, and all of them unless it restricts both   *)
(* days (CronReads).                                                       *)
(*                                                                         *)
(* Jobs: a pass over the configuration is described by what it leaves in   *)
(* lastRun and starts, job by job (Pass), by induction over its length.    *)
(* JInv relates lastRun, fires and the next check: no start is newer than  *)
(* its job's entry, an interval is not over long before the next check,    *)
(* and a minute whose second check is past has had its start.              *)
(***************************************************************************)
EXTENDS Scheduler, WellFoundedInduction, TLAPS

Types ==
  /\ now \in Nat
  /\ parent \in {"live", "done"}
  /\ running \in BOOLEAN
  /\ pc \in [Loops -> {"none", "first", "wait", "gone"}]
  /\ ctx \in [Loops -> {"live", "done"}]
  /\ due \in [Loops -> Nat]
  /\ since \in [Loops -> Nat]
  /\ late \in [Loops -> Nat]

Controlled ==
  /\ \A g \in Loops : ctx[g] = "live" => running /\ owner = g /\ parent = "live"
  /\ running /\ parent = "live" => \E g \in Loops : ctx[g] = "live"

\* A loop that has not begun, waits for its first check, or waits for ticks.
OnTime(g) ==
  /\ since[g] <= now
  /\ pc[g] = "none" => ctx[g] = "done"
  /\ pc[g] \in {"none", "first"} => late[g] = 0
  /\ pc[g] = "first" => due[g] <= since[g]
  /\ pc[g] \in {"first", "wait"} => now <= due[g] + MaxDelay
  /\ pc[g] = "wait" /\ ctx[g] = "done" => now <= since[g] + MaxDelay

\* After a late check the next tick comes too late to be taken.
LateOnce(g) ==
  /\ late[g] <= 1
  /\ late[g] = 1 => ctx[g] = "done" /\ due[g] > since[g] + MaxDelay
  /\ pc[g] = "wait" /\ late[g] = 0 /\ ctx[g] = "done" => since[g] <= due[g] + MaxDelay

IInv == Types /\ Controlled /\ \A g \in Loops : OnTime(g) /\ LateOnce(g)

-----------------------------------------------------------------------------
LEMMA InitIInv == Init => IInv
  <1> SUFFICES ASSUME Init PROVE IInv
    OBVIOUS
  <1>1. Types
    BY DEF Init, Types
  <1>2. Controlled
    BY DEF Init, Controlled
  <1>3. ASSUME NEW g \in Loops PROVE OnTime(g) /\ LateOnce(g)
    <2>1. /\ now = 0 /\ pc[g] = "none" /\ ctx[g] = "done"
          /\ due[g] = 0 /\ since[g] = 0 /\ late[g] = 0
      BY DEF Init
    <2> QED BY <2>1 DEF OnTime, LateOnce
  <1> QED BY <1>1, <1>2, <1>3 DEF IInv

LEMMA StartIInv ==
  ASSUME IInv, Start
  PROVE  IInv'
  <1>1. PICK h \in Loops :
          /\ pc[h] = "none"
          /\ running' = TRUE /\ owner' = h
          /\ pc' = [pc EXCEPT ![h] = "first"]
          /\ ctx' = [ctx EXCEPT ![h] = parent]
          /\ due' = [due EXCEPT ![h] = now]
          /\ since' = [since EXCEPT ![h] = now]
    BY DEF Start
  <1>2. ~running /\ UNCHANGED <<now, parent, late>>
    BY DEF Start
  <1>3. Types'
    BY <1>1, <1>2 DEF IInv, Types
  <1>4. Controlled'
    BY <1>1, <1>2 DEF IInv, Types, Controlled
  <1>5. ASSUME NEW g \in Loops PROVE (OnTime(g) /\ LateOnce(g))'
    BY <1>1, <1>2, TimeAssumption DEF IInv, Types, OnTime, LateOnce
  <1> QED BY <1>3, <1>4, <1>5 DEF IInv

\* Contexts end; nothing else of a loop changes.
LEMMA EndTimes ==
  ASSUME IInv, NEW S, End(S), UNCHANGED <<now, pc, due, late>>
  PROVE  /\ \A g \in Loops : (OnTime(g) /\ LateOnce(g))'
         /\ ctx' \in [Loops -> {"live", "done"}] /\ since' \in [Loops -> Nat]
         /\ \A g \in Loops : ctx'[g] = "live" => ctx[g] = "live" /\ g \notin S
  <1>1. /\ ctx' \in [Loops -> {"live", "done"}] /\ since' \in [Loops -> Nat]
        /\ \A g \in Loops : ctx'[g] = "live" => ctx[g] = "live" /\ g \notin S
    BY DEF IInv, Types, End
  <1>2. ASSUME NEW g \in Loops PROVE (OnTime(g) /\ LateOnce(g))'
    <2>1. CASE ctx[g] = "live" /\ g \in S
      <3>1. ctx'[g] = "done" /\ since'[g] = now
        BY <2>1 DEF End
      <3> QED BY <2>1, <3>1, TimeAssumption DEF IInv, Types, OnTime, LateOnce
    <2>2. CASE ~(ctx[g] = "live" /\ g \in S)
      <3>1. ctx'[g] = ctx[g] /\ since'[g] = since[g]
        BY <2>2 DEF End
      <3> QED BY <3>1 DEF IInv, OnTime, LateOnce
    <2> QED BY <2>1, <2>2
  <1> QED BY <1>1, <1>2

LEMMA StopIInv ==
  ASSUME IInv, Stop
  PROVE  IInv'
  <1>1. /\ End({owner} \cap Loops) /\ running' = FALSE
        /\ UNCHANGED <<now, parent, owner, pc, due, late>>
    BY DEF Stop, loopVars
  <1>2. /\ \A g \in Loops : (OnTime(g) /\ LateOnce(g))'
        /\ ctx' \in [Loops -> {"live", "done"}] /\ since' \in [Loops -> Nat]
        /\ \A g \in Loops : ctx'[g] = "live" => ctx[g] = "live" /\ g # owner
    BY <1>1, EndTimes
  <1>3. Types'
    BY <1>1, <1>2 DEF IInv, Types
  <1>4. Controlled'
    BY <1>1, <1>2 DEF IInv, Controlled
  <1> QED BY <1>2, <1>3, <1>4 DEF IInv

LEMMA ParentEndsIInv ==
  ASSUME IInv, ParentEnds
  PROVE  IInv'
  <1>1. /\ End(Loops) /\ parent' = "done"
        /\ UNCHANGED <<now, running, owner, pc, due, late>>
    BY DEF ParentEnds, loopVars
  <1>2. /\ \A g \in Loops : (OnTime(g) /\ LateOnce(g))'
        /\ ctx' \in [Loops -> {"live", "done"}] /\ since' \in [Loops -> Nat]
        /\ \A g \in Loops : ctx'[g] # "live"
    BY <1>1, EndTimes
  <1>3. Types'
    BY <1>1, <1>2 DEF IInv, Types
  <1>4. Controlled'
    BY <1>1, <1>2 DEF IInv, Controlled
  <1> QED BY <1>2, <1>3, <1>4 DEF IInv

\* A check, whatever it fires.
LEMMA CheckTypes ==
  ASSUME IInv, NEW g \in Loops, NEW d \in Nat, Check(g, d),
         pc' \in [Loops -> {"none", "first", "wait", "gone"}]
  PROVE  /\ Types' /\ Controlled'
         /\ UNCHANGED <<now, ctx, since>>
         /\ due'[g] = d
         /\ late'[g] = IF ctx[g] = "done" THEN late[g] + 1 ELSE late[g]
         /\ \A h \in Loops \ {g} : due'[h] = due[h] /\ late'[h] = late[h]
  <1>1. /\ UNCHANGED <<now, parent, running, owner, ctx, since>>
        /\ due' = [due EXCEPT ![g] = d]
        /\ late' = [late EXCEPT ![g] = IF ctx[g] = "done" THEN late[g] + 1 ELSE late[g]]
    BY DEF Check
  <1>2. late[g] + 1 \in Nat /\ late[g] \in Nat
    BY DEF IInv, Types
  <1>3. Types' /\ Controlled'
    BY <1>1, <1>2 DEF IInv, Types, Controlled
  <1> QED BY <1>1, <1>3 DEF IInv, Types

LEMMA FirstCheckIInv ==
  ASSUME IInv, NEW g \in Loops, FirstCheck(g)
  PROVE  IInv'
  <1> USE TimeAssumption
  <1>1. pc[g] = "first" /\ pc' = [pc EXCEPT ![g] = "wait"] /\ now + Period \in Nat
    BY DEF FirstCheck, IInv, Types
  <1>2. /\ Types' /\ Controlled'
        /\ UNCHANGED <<now, ctx, since>>
        /\ due'[g] = now + Period
        /\ late'[g] = IF ctx[g] = "done" THEN late[g] + 1 ELSE late[g]
        /\ \A h \in Loops \ {g} : due'[h] = due[h] /\ late'[h] = late[h]
    <2>1. Check(g, now + Period) /\ pc' \in [Loops -> {"none", "first", "wait", "gone"}]
      BY <1>1 DEF FirstCheck, IInv, Types
    <2> QED BY <1>1, <2>1, CheckTypes
  <1>3. (OnTime(g) /\ LateOnce(g))'
    BY <1>1, <1>2 DEF IInv, Types, OnTime, LateOnce
  <1>4. ASSUME NEW h \in Loops, h # g PROVE (OnTime(h) /\ LateOnce(h))'
    BY <1>1, <1>2, <1>4 DEF IInv, Types, OnTime, LateOnce
  <1> QED BY <1>2, <1>3, <1>4 DEF IInv

LEMMA TickCheckIInv ==
  ASSUME IInv, NEW g \in Loops, TickCheck(g)
  PROVE  IInv'
  <1> USE TimeAssumption
  <1>1. pc[g] = "wait" /\ due[g] <= now /\ pc' = pc /\ due[g] + Period \in Nat
    BY DEF TickCheck, IInv, Types
  <1>2. /\ Types' /\ Controlled'
        /\ UNCHANGED <<now, ctx, since>>
        /\ due'[g] = due[g] + Period
        /\ late'[g] = IF ctx[g] = "done" THEN late[g] + 1 ELSE late[g]
        /\ \A h \in Loops \ {g} : due'[h] = due[h] /\ late'[h] = late[h]
    <2>1. Check(g, due[g] + Period) /\ pc' \in [Loops -> {"none", "first", "wait", "gone"}]
      BY <1>1 DEF TickCheck, IInv, Types
    <2> QED BY <1>1, <2>1, CheckTypes
  <1>3. (OnTime(g) /\ LateOnce(g))'
    <2>1. ctx[g] = "done" => late[g] = 0 /\ since[g] <= due[g] + MaxDelay
      BY <1>1 DEF IInv, Types, OnTime, LateOnce
    <2> QED BY <1>1, <1>2, <2>1 DEF IInv, Types, OnTime, LateOnce
  <1>4. ASSUME NEW h \in Loops, h # g PROVE (OnTime(h) /\ LateOnce(h))'
    BY <1>1, <1>2, <1>4 DEF IInv, Types, OnTime, LateOnce
  <1> QED BY <1>2, <1>3, <1>4 DEF IInv

LEMMA LoopExitIInv ==
  ASSUME IInv, NEW g \in Loops, LoopExit(g)
  PROVE  IInv'
  <1>1. Types' /\ Controlled'
    BY DEF LoopExit, IInv, Types, Controlled
  <1>2. ASSUME NEW h \in Loops PROVE (OnTime(h) /\ LateOnce(h))'
    BY DEF LoopExit, IInv, Types, OnTime, LateOnce
  <1> QED BY <1>1, <1>2 DEF IInv

LEMMA AdvanceIInv ==
  ASSUME IInv, Advance
  PROVE  IInv'
  <1>1. Types' /\ Controlled'
    BY DEF Advance, IInv, Types, Controlled
  <1>2. ASSUME NEW g \in Loops PROVE (OnTime(g) /\ LateOnce(g))'
    BY TimeAssumption DEF Advance, IInv, Types, OnTime, LateOnce
  <1> QED BY <1>1, <1>2 DEF IInv

LEMMA NextIInv == IInv /\ [Next]_vars => IInv'
  <1> SUFFICES ASSUME IInv, [Next]_vars PROVE IInv'
    OBVIOUS
  <1>1. CASE UNCHANGED vars
    BY <1>1 DEF vars, IInv, Types, Controlled, OnTime, LateOnce
  <1>2. CASE Next
    BY <1>2, StartIInv, StopIInv, ParentEndsIInv, FirstCheckIInv, TickCheckIInv,
       LoopExitIInv, AdvanceIInv DEF Next
  <1> QED BY <1>1, <1>2

LEMMA Invariance == Spec => []IInv
  BY InitIInv, NextIInv, PTL DEF Spec

-----------------------------------------------------------------------------
\* No sequence of Start and Stop loses the cancel function of a live loop,
\* and two loops never go on side by side.
THEOREM LoopsInReach == Spec => []StopReachesEveryLoop
  <1>1. IInv => StopReachesEveryLoop
    BY DEF IInv, Controlled, StopReachesEveryLoop
  <1> QED BY <1>1, Invariance, PTL

\* After its context has ended a loop makes one more check at most, for every
\* period that is longer than two delays.
THEOREM OneCheckTooLate == Spec => []OneLateCheck
  <1>1. IInv => OneLateCheck
    BY DEF IInv, LateOnce, OneLateCheck
  <1> QED BY <1>1, Invariance, PTL

-----------------------------------------------------------------------------
(* Numbers: induction, and division by a constant that is not known.       *)

LEMMA Least ==
  ASSUME NEW T \in SUBSET Nat, T # {}
  PROVE  \E x \in T : \A y \in T : x <= y
  <1> DEFINE R == OpToRel(<, Nat)
  <1>1. IsWellFoundedOn(R, Nat)
    BY NatLessThanWellFounded
  <1>2. \A x, y \in Nat : <<y, x>> \in R <=> y < x
    BY DEF OpToRel
  <1> HIDE DEF R
  <1>3. PICK x \in T : \A y \in T : ~(<<y, x>> \in R)
    BY <1>1, WFMin
  <1>4. ASSUME NEW y \in T PROVE x <= y
    <2>1. ~(y < x) /\ x \in Nat /\ y \in Nat
      BY <1>2, <1>3
    <2> QED BY <2>1
  <1> QED BY <1>4

LEMMA Induction ==
  ASSUME NEW S, 0 \in S, \A n \in Nat : n \in S => n + 1 \in S
  PROVE  Nat \subseteq S
  <1> SUFFICES ASSUME Nat \ S # {} PROVE FALSE
    OBVIOUS
  <1>1. PICK x \in Nat \ S : \A y \in Nat \ S : x <= y
    BY Least
  <1>2. x - 1 \in Nat /\ x - 1 \notin Nat \ S
    BY <1>1
  <1> QED BY <1>1, <1>2

LEMMA ModNext ==
  ASSUME NEW s \in Nat, s > 0, NEW q \in Int, NEW r \in Nat, r < s,
         NEW x \in Int, x = s * q + r, NEW y \in Int, y = x + s
  PROVE  y % s = r
  OBVIOUS

LEMMA ModShift ==
  ASSUME NEW s \in Nat, s > 0, NEW x \in Int, NEW y \in Int, y = x + s
  PROVE  y % s = x % s
  <1>1. PICK q \in Int, r \in Nat : r < s /\ r = x % s /\ x = s * q + r
    <2>1. x % s \in Nat /\ x % s < s /\ x \div s \in Int /\ x = s * (x \div s) + (x % s)
      OBVIOUS
    <2> QED BY <2>1
  <1>2. y % s = r
    BY <1>1, ModNext
  <1> QED BY <1>1, <1>2

LEMMA ModSmall ==
  ASSUME NEW s \in Nat, s > 0, NEW x \in Nat, x < s
  PROVE  x % s = x
  OBVIOUS

-----------------------------------------------------------------------------
(* The parser.  What the loop of parsePart marks from i on is given in     *)
(* closed form; the recursion of Marks has it as its one solution.         *)

MarkedFrom(lo, hi, step, from) ==
  from = [i \in lo .. hi |->
            {i} \cup IF i + step > MaxInt THEN {Panics}
                     ELSE IF i + step <= hi THEN from[i + step] ELSE {}]

Closed(i, hi, step) ==
  {j \in i .. hi : (j - i) % step = 0}
    \cup IF \E j \in i .. hi : (j - i) % step = 0 /\ j + step > MaxInt
         THEN {Panics} ELSE {}

LEMMA ClosedStep ==
  ASSUME NEW hi \in Int, hi < MaxInt, NEW step \in Nat, step > 0,
         NEW i \in Int, i <= hi
  PROVE  Closed(i, hi, step) =
           {i} \cup IF i + step > MaxInt THEN {Panics}
                    ELSE IF i + step <= hi THEN Closed(i + step, hi, step) ELSE {}
  <1> DEFINE On(j) == (j - i) % step = 0
  <1>1. MaxInt \in Int
    BY MaxIntAssumption
  <1>2. i \in i .. hi /\ On(i)
    BY ModSmall
  <1>3. PICK k \in Int : k = i + step
    OBVIOUS
  <1>4. ASSUME NEW j \in i .. hi, On(j), j # i PROVE j >= k
    <2>1. j - i \in Nat /\ j - i > 0
      BY <1>4
    <2>2. ~(j - i < step)
      BY <2>1, <1>4, ModSmall
    <2> QED BY <2>1, <2>2, <1>3
  <1>5. ASSUME NEW j \in Int PROVE On(j) <=> (j - k) % step = 0
    <2>1. PICK x \in Int, y \in Int : x = j - k /\ y = j - i /\ y = x + step
      BY <1>3
    <2> QED BY <2>1, ModShift
  <1> HIDE DEF On
  <1>6. CASE k > hi
    <2>1. {j \in i .. hi : On(j)} = {i}
      BY <1>2, <1>3, <1>4, <1>6
    <2>2. (\E j \in i .. hi : On(j) /\ j + step > MaxInt) <=> k > MaxInt
      BY <1>2, <1>3, <1>4, <1>6
    <2> QED BY <2>1, <2>2, <1>3, <1>6 DEF Closed, On
  <1>7. CASE k <= hi
    <2>1. k .. hi \subseteq i .. hi
      BY <1>3
    <2>2. {j \in i .. hi : On(j)} = {i} \cup {j \in k .. hi : (j - k) % step = 0}
      <3>1. ASSUME NEW j \in i .. hi, On(j), j # i
            PROVE  j \in k .. hi /\ (j - k) % step = 0
        BY <3>1, <1>4, <1>5
      <3>2. ASSUME NEW j \in k .. hi, (j - k) % step = 0
            PROVE  j \in i .. hi /\ On(j)
        BY <3>2, <2>1, <1>5
      <3> QED BY <3>1, <3>2, <1>2
    <2>3. (\E j \in i .. hi : On(j) /\ j + step > MaxInt)
            <=> (\E j \in k .. hi : (j - k) % step = 0 /\ j + step > MaxInt)
      <3>1. i + step <= MaxInt
        BY <1>1, <1>3, <1>7
      <3>2. ASSUME NEW j \in i .. hi, On(j), j + step > MaxInt
            PROVE  j \in k .. hi /\ (j - k) % step = 0
        <4>1. j # i
          BY <3>1, <3>2, <1>1
        <4> QED BY <4>1, <3>2, <1>4, <1>5
      <3>3. ASSUME NEW j \in k .. hi, (j - k) % step = 0
            PROVE  j \in i .. hi /\ On(j)
        BY <3>3, <2>1, <1>5
      <3> QED BY <3>2, <3>3
    <2>4. ~(k > MaxInt)
      BY <1>1, <1>7
    <2> QED BY <2>2, <2>3, <2>4, <1>3, <1>7 DEF Closed, On
  <1> QED BY <1>3, <1>6, <1>7

LEMMA MarksValue ==
  ASSUME NEW lo \in Int, NEW hi \in Int, lo <= hi, hi < MaxInt,
         NEW step \in Nat, step > 0
  PROVE  Marks(lo, hi, step) = Closed(lo, hi, step)
  <1> DEFINE from[i \in lo .. hi] ==
               {i} \cup IF i + step > MaxInt THEN {Panics}
                        ELSE IF i + step <= hi THEN from[i + step] ELSE {}
             closed == [i \in lo .. hi |-> Closed(i, hi, step)]
  <1>1. Marks(lo, hi, step) = from[lo]
    BY DEF Marks
  <1>2. from = CHOOSE f : MarkedFrom(lo, hi, step, f)
    BY DEF MarkedFrom
  <1>3. MarkedFrom(lo, hi, step, closed)
    <2>1. ASSUME NEW i \in lo .. hi
          PROVE  closed[i] = {i} \cup IF i + step > MaxInt THEN {Panics}
                                      ELSE IF i + step <= hi THEN closed[i + step] ELSE {}
      <3>1. i + step <= hi => i + step \in lo .. hi
        OBVIOUS
      <3>2. i + step <= hi => closed[i + step] = Closed(i + step, hi, step)
        BY <3>1
      <3>3. closed[i] = Closed(i, hi, step)
        OBVIOUS
      <3> HIDE DEF closed
      <3>4. Closed(i, hi, step) =
              {i} \cup IF i + step > MaxInt THEN {Panics}
                       ELSE IF i + step <= hi THEN Closed(i + step, hi, step) ELSE {}
        BY ClosedStep
      <3> QED BY <3>2, <3>3, <3>4
    <2> QED BY <2>1 DEF MarkedFrom
  <1> HIDE DEF from, closed
  <1>4. MarkedFrom(lo, hi, step, from)
    <2>1. MarkedFrom(lo, hi, step, CHOOSE f : MarkedFrom(lo, hi, step, f))
      BY <1>3, Zenon
    <2> QED BY <2>1, <1>2
  <1> DEFINE T == {n \in Nat : \E i \in lo .. hi : n = hi - i /\ from[i] # Closed(i, hi, step)}
  <1>5. T = {}
    <2> SUFFICES ASSUME T # {} PROVE FALSE
      OBVIOUS
    <2>1. PICK n \in T : \A m \in T : n <= m
      BY Least
    <2>2. PICK i \in lo .. hi : n = hi - i /\ from[i] # Closed(i, hi, step)
      OBVIOUS
    <2>3. i + step <= hi => i + step \in lo .. hi /\ from[i + step] = Closed(i + step, hi, step)
      <3> SUFFICES ASSUME i + step <= hi
                   PROVE  i + step \in lo .. hi /\ from[i + step] = Closed(i + step, hi, step)
        OBVIOUS
      <3>1. i + step \in lo .. hi
        OBVIOUS
      <3>2. PICK m \in Nat : m = hi - (i + step) /\ m < n
        BY <2>2, <3>1
      <3>3. m \notin T
        <4> HIDE DEF T
        <4>1. m \in T => n <= m
          BY <2>1
        <4> QED BY <3>2, <4>1, <2>2
      <3> QED BY <3>1, <3>2, <3>3
    <2> HIDE DEF T
    <2>4. from[i] = {i} \cup IF i + step > MaxInt THEN {Panics}
                             ELSE IF i + step <= hi THEN from[i + step] ELSE {}
      BY <1>4 DEF MarkedFrom
    <2>5. Closed(i, hi, step) =
            {i} \cup IF i + step > MaxInt THEN {Panics}
                     ELSE IF i + step <= hi THEN Closed(i + step, hi, step) ELSE {}
      BY ClosedStep
    <2> QED BY <2>2, <2>3, <2>4, <2>5
  <1>6. from[lo] = Closed(lo, hi, step)
    <2>1. PICK n \in Nat : n = hi - lo
      OBVIOUS
    <2>2. n \notin T
      <3> HIDE DEF T
      <3> QED BY <1>5
    <2>3. lo \in lo .. hi
      OBVIOUS
    <2> QED BY <2>1, <2>2, <2>3
  <1> QED BY <1>1, <1>6

\* A part that the parser takes marks what it says, and the sum of its last
\* mark and the step is no overflow.
LEMMA PartRead ==
  ASSUME NEW f \in 1 .. 5, NEW part \in Part,
         ParsePart(part, Low[f], High[f]) \cap {Refused, Panics} = {}
  PROVE  /\ PartIsLegal(part, f)
         /\ ParsePart(part, Low[f], High[f]) \subseteq Int
         /\ \A v \in Int : v \in ParsePart(part, Low[f], High[f])
              <=> v \in Low[f] .. High[f] /\ PartSays(part, v, Low[f])
  <1> DEFINE min == Low[f]
             max == High[f]
             lo == IF part.kind = "star" THEN min ELSE part.lo
             hi == IF part.kind = "star" THEN max ELSE part.hi
  <1>1. /\ min \in Nat /\ max \in Nat /\ max < MaxInt /\ min <= max
        /\ MaxInt \in Nat
    BY MaxIntAssumption DEF Low, High
  <1>2. /\ part.step \in Int /\ part.lo \in Int /\ part.hi \in Int
        /\ lo \in Int /\ hi \in Int
    BY <1>1 DEF Part
  <1>3. /\ ~(part.kind = "word" \/ part.step <= 0 \/ lo < min \/ hi > max \/ lo > hi)
        /\ ParsePart(part, min, max) = Marks(lo, hi, part.step)
    BY DEF ParsePart
  <1>4. /\ part.kind # "word" /\ part.step > 0 /\ part.step \in Nat
        /\ min <= lo /\ hi <= max /\ lo <= hi /\ hi < MaxInt
    BY <1>1, <1>2, <1>3
  <1>5. ParsePart(part, min, max) = Closed(lo, hi, part.step)
    BY <1>2, <1>3, <1>4, MarksValue
  <1>6. PartIsLegal(part, f)
    BY <1>4 DEF PartIsLegal
  <1>7. ASSUME NEW v \in Int
        PROVE  v \in Closed(lo, hi, part.step)
                 <=> v \in min .. max /\ PartSays(part, v, min)
    <2>1. v \in Closed(lo, hi, part.step) <=> v \in lo .. hi /\ (v - lo) % part.step = 0
      <3>1. Panics \notin Closed(lo, hi, part.step)
        BY <1>5
      <3> HIDE DEF lo, hi
      <3> QED BY <3>1 DEF Closed
    <2>2. CASE part.kind = "star"
      BY <2>1, <2>2 DEF PartSays
    <2>3. CASE part.kind # "star"
      <3>1. v \in lo .. hi => v \in min .. max
        BY <1>1, <1>2, <1>4
      <3> QED BY <2>1, <2>3, <3>1 DEF PartSays
    <2> QED BY <2>2, <2>3
  <1>8. Closed(lo, hi, part.step) \subseteq Int
    <2>1. Panics \in Int
      BY DEF Panics
    <2> HIDE DEF lo, hi
    <2> QED BY <1>2, <2>1 DEF Closed
  <1> QED BY <1>5, <1>6, <1>7, <1>8

\* Conversely, a legal part is not refused.
LEMMA LegalPart ==
  ASSUME NEW f \in 1 .. 5, NEW part \in Part, PartIsLegal(part, f)
  PROVE  Refused \notin ParsePart(part, Low[f], High[f])
  <1> DEFINE min == Low[f]
             max == High[f]
             lo == IF part.kind = "star" THEN min ELSE part.lo
             hi == IF part.kind = "star" THEN max ELSE part.hi
  <1>1. /\ min \in Nat /\ max \in Nat /\ max < MaxInt /\ min <= max
    BY MaxIntAssumption DEF Low, High
  <1>2. /\ part.kind # "word" /\ part.step > 0 /\ part.step \in Nat
        /\ lo \in Int /\ hi \in Int /\ min <= lo /\ lo <= hi /\ hi <= max /\ hi < MaxInt
    BY <1>1, MaxIntAssumption DEF PartIsLegal, Part
  <1>3. ParsePart(part, min, max) = Marks(lo, hi, part.step)
    BY <1>1, <1>2 DEF ParsePart
  <1>4. ParsePart(part, min, max) = Closed(lo, hi, part.step)
    BY <1>2, <1>3, MarksValue
  <1>5. lo >= 0 /\ Refused = -1 /\ Panics = -2
    BY <1>1, <1>2 DEF Refused, Panics
  <1> HIDE DEF lo, hi
  <1>6. Refused \notin Closed(lo, hi, part.step)
    BY <1>2, <1>5 DEF Closed
  <1> QED BY <1>4, <1>6

\* parseField: all parts, or the first that does not parse.
LEMMA FieldTable ==
  ASSUME NEW f \in 1 .. 5, NEW field \in Seq(Part)
  PROVE  \/ \E k \in DOMAIN field :
              /\ ParsePart(field[k], Low[f], High[f]) \cap {Refused, Panics} # {}
              /\ ParseField(field, Low[f], High[f]) = ParsePart(field[k], Low[f], High[f])
         \/ /\ \A k \in DOMAIN field :
                 ParsePart(field[k], Low[f], High[f]) \cap {Refused, Panics} = {}
            /\ ParseField(field, Low[f], High[f]) =
                 UNION {ParsePart(field[k], Low[f], High[f]) : k \in DOMAIN field}
  <1> DEFINE P(k) == ParsePart(field[k], Low[f], High[f])
             odd == {k \in DOMAIN field : P(k) \cap {Refused, Panics} # {}}
             First(k) == \A j \in odd : k <= j
  <1>1. ParseField(field, Low[f], High[f]) =
          IF odd = {} THEN UNION {P(k) : k \in DOMAIN field}
                      ELSE P(CHOOSE k \in odd : First(k))
    <2> DEFINE table == [k \in DOMAIN field |-> P(k)]
    <2>1. \A k \in DOMAIN field : table[k] = P(k)
      OBVIOUS
    <2>2. {k \in DOMAIN field : table[k] \cap {Refused, Panics} # {}} = odd
      BY <2>1
    <2>3. {table[k] : k \in DOMAIN field} = {P(k) : k \in DOMAIN field}
      BY <2>1
    <2>4. odd # {} => (CHOOSE k \in odd : First(k)) \in odd
      <3> SUFFICES ASSUME odd # {} PROVE (CHOOSE k \in odd : First(k)) \in odd
        OBVIOUS
      <3>1. odd \in SUBSET Nat
        OBVIOUS
      <3>2. \E k \in odd : First(k)
        BY <3>1, Least
      <3> HIDE DEF odd, First
      <3> QED BY <3>2
    <2>5. odd # {} => table[CHOOSE k \in odd : First(k)] = P(CHOOSE k \in odd : First(k))
      BY <2>1, <2>4
    <2>6. ParseField(field, Low[f], High[f]) =
            IF {k \in DOMAIN field : table[k] \cap {Refused, Panics} # {}} = {}
            THEN UNION {table[k] : k \in DOMAIN field}
            ELSE table[CHOOSE k \in {i \in DOMAIN field : table[i] \cap {Refused, Panics} # {}} :
                         \A j \in {i \in DOMAIN field : table[i] \cap {Refused, Panics} # {}} : k <= j]
      BY DEF ParseField
    <2> HIDE DEF P, table
    <2> QED BY <2>2, <2>3, <2>5, <2>6
  <1>2. CASE odd = {}
    <2>1. \A k \in DOMAIN field : P(k) \cap {Refused, Panics} = {}
      BY <1>2
    <2> QED BY <1>1, <1>2, <2>1
  <1>3. CASE odd # {}
    <2>1. odd \in SUBSET Nat
      OBVIOUS
    <2>2. \E k \in odd : First(k)
      BY <1>3, <2>1, Least
    <2>3. (CHOOSE k \in odd : First(k)) \in odd
      <3> HIDE DEF odd, First
      <3> QED BY <2>2
    <2>4. PICK k \in odd : k = CHOOSE x \in odd : First(x)
      <3> HIDE DEF odd, First
      <3> QED BY <2>3
    <2>5. ParseField(field, Low[f], High[f]) = P(k)
      BY <1>1, <1>3, <2>4
    <2>6. k \in DOMAIN field /\ P(k) \cap {Refused, Panics} # {}
      OBVIOUS
    <2> QED BY <2>5, <2>6
  <1> QED BY <1>2, <1>3

\* A field that the parser takes has the entries its parts speak of.
LEMMA FieldRead ==
  ASSUME NEW f \in 1 .. 5, NEW field \in Seq(Part),
         ParseField(field, Low[f], High[f]) \cap {Refused, Panics} = {}
  PROVE  /\ \A k \in DOMAIN field : PartIsLegal(field[k], f)
         /\ ParseField(field, Low[f], High[f]) \subseteq Int
         /\ \A v \in Int : v \in ParseField(field, Low[f], High[f])
              <=> /\ v \in Low[f] .. High[f]
                  /\ \E k \in DOMAIN field : PartSays(field[k], v, Low[f])
  <1> DEFINE P(k) == ParsePart(field[k], Low[f], High[f])
  <1>1. /\ \A k \in DOMAIN field : P(k) \cap {Refused, Panics} = {}
        /\ ParseField(field, Low[f], High[f]) = UNION {P(k) : k \in DOMAIN field}
    BY FieldTable
  <1>2. \A k \in DOMAIN field : field[k] \in Part
    OBVIOUS
  <1>3. \A k \in DOMAIN field :
          /\ PartIsLegal(field[k], f)
          /\ P(k) \subseteq Int
          /\ \A v \in Int : v \in P(k)
               <=> v \in Low[f] .. High[f] /\ PartSays(field[k], v, Low[f])
    BY <1>1, <1>2, PartRead
  <1> HIDE DEF P
  <1> QED BY <1>1, <1>3

LEMMA LegalField ==
  ASSUME NEW f \in 1 .. 5, NEW field \in Seq(Part),
         \A k \in DOMAIN field : PartIsLegal(field[k], f)
  PROVE  Refused \notin ParseField(field, Low[f], High[f])
  <1>1. \A k \in DOMAIN field : field[k] \in Part
    OBVIOUS
  <1>2. \A k \in DOMAIN field : Refused \notin ParsePart(field[k], Low[f], High[f])
    BY <1>1, LegalPart
  <1>3. CASE \E k \in DOMAIN field :
               ParseField(field, Low[f], High[f]) = ParsePart(field[k], Low[f], High[f])
    BY <1>2, <1>3
  <1>4. CASE ParseField(field, Low[f], High[f]) =
               UNION {ParsePart(field[k], Low[f], High[f]) : k \in DOMAIN field}
    BY <1>2, <1>4
  <1> QED BY <1>3, <1>4, FieldTable

LEMMA WeekdayTable ==
  ASSUME NEW table, table \subseteq 0 .. 7, NEW d \in 0 .. 6
  PROVE  d \in Weekdays(table) <=> d \in table \/ (d = 0 /\ 7 \in table)
  <1>1. \A i \in 0 .. 7 : i % 7 = IF i = 7 THEN 0 ELSE i
    OBVIOUS
  <1>2. \A i \in table : i \in 0 .. 7
    OBVIOUS
  <1> QED BY <1>1, <1>2 DEF Weekdays

\* An expression matches the times of which all its fields say so: every
\* list, range and step, and both names of Sunday.
LEMMA AllFieldsSay ==
  ASSUME NEW expr \in Expr, ~Crashes(expr),
         NEW time, \A f \in 1 .. 5 : time[f] \in Low[f] .. High[f], time[5] <= 6
  PROVE  Parses(expr) /\ Matches(ParseCron(expr), time)
           <=> Legal(expr) /\ \A f \in 1 .. 5 : FieldSays(expr[f], f, time[f])
  <1> DEFINE T(f) == ParseField(expr[f], Low[f], High[f])
  <1>1. ASSUME Len(expr) = 5 PROVE \A f \in 1 .. 5 : expr[f] \in Seq(Part)
    <2>1. ASSUME NEW S, NEW s \in Seq(S), Len(s) = 5, NEW f \in 1 .. 5 PROVE s[f] \in S
      <3>1. f \in 1 .. Len(s)
        BY <2>1
      <3> QED BY <3>1
    <2>2. expr \in Seq(Seq(Part))
      BY DEF Expr
    <2> QED BY <1>1, <2>1, <2>2, Zenon
  <1>2. ASSUME Legal(expr) PROVE Parses(expr)
    <2>1. Len(expr) = 5 /\ \A f \in 1 .. 5 : \A k \in DOMAIN expr[f] : PartIsLegal(expr[f][k], f)
      BY <1>2 DEF Legal
    <2>2. \A f \in 1 .. 5 : Refused \notin T(f)
      BY <2>1, <1>1, LegalField
    <2> QED BY <2>1, <2>2 DEF Parses
  <1>3. ASSUME Parses(expr)
        PROVE  Legal(expr) /\ (Matches(ParseCron(expr), time) <=>
                                  \A f \in 1 .. 5 : FieldSays(expr[f], f, time[f]))
    <2>1. Len(expr) = 5 /\ \A f \in 1 .. 5 : Refused \notin T(f)
      BY <1>3 DEF Parses
    <2>2. \A f \in 1 .. 5 : Panics \notin T(f)
      BY <2>1 DEF Crashes
    <2>3. ASSUME NEW f \in 1 .. 5
          PROVE  /\ \A k \in DOMAIN expr[f] : PartIsLegal(expr[f][k], f)
                 /\ T(f) \subseteq Int
                 /\ \A v \in Int : v \in T(f)
                      <=> /\ v \in Low[f] .. High[f]
                          /\ \E k \in DOMAIN expr[f] : PartSays(expr[f][k], v, Low[f])
      <3>1. expr[f] \in Seq(Part) /\ T(f) \cap {Refused, Panics} = {}
        BY <2>1, <2>2, <1>1
      <3> QED BY <3>1, FieldRead
    <2>4. Legal(expr)
      BY <2>1, <2>3 DEF Legal
    <2> DEFINE cron == ParseCron(expr)
    <2>5. cron[5] = Weekdays(T(5)) /\ \A f \in 1 .. 4 : cron[f] = T(f)
      BY DEF ParseCron
    <2> HIDE DEF T, cron
    <2>6. ASSUME NEW f \in 1 .. 4
          PROVE  time[f] \in cron[f] <=> FieldSays(expr[f], f, time[f])
      <3>1. f \in 1 .. 5 /\ f # 5 /\ time[f] \in Low[f] .. High[f]
        OBVIOUS
      <3>2. time[f] \in Int
        BY <3>1 DEF Low, High
      <3> QED BY <3>1, <3>2, <2>3, <2>5 DEF FieldSays
    <2>7. time[5] \in cron[5] <=> FieldSays(expr[5], 5, time[5])
      <3>1. Low[5] = 0 /\ High[5] = 7
        BY DEF Low, High
      <3>2. time[5] \in 0 .. 6 /\ 7 \in 0 .. 7 /\ time[5] \in 0 .. 7 /\ 5 \in 1 .. 5
        BY <3>1
      <3>3. \A v \in 0 .. 7 : v \in T(5) <=> \E k \in DOMAIN expr[5] : PartSays(expr[5][k], v, Low[5])
        BY <2>3, <3>1
      <3>4. T(5) \subseteq 0 .. 7
        BY <2>3, <3>1, <3>2
      <3>5. time[5] \in cron[5] <=> time[5] \in T(5) \/ (time[5] = 0 /\ 7 \in T(5))
        BY <2>5, <3>2, <3>4, WeekdayTable
      <3> QED BY <3>2, <3>3, <3>5 DEF FieldSays
    <2>8. \A f \in 1 .. 5 : f \in 1 .. 4 \/ f = 5
      OBVIOUS
    <2>9. Matches(cron, time) <=> \A f \in 1 .. 5 : FieldSays(expr[f], f, time[f])
      BY <2>6, <2>7, <2>8 DEF Matches
    <2> QED BY <2>4, <2>9 DEF cron
  <1> QED BY <1>2, <1>3

\* An expression matches only times it stands for in standard cron, and all of
\* them if it leaves the day of the month or the day of the week open.
THEOREM CronReads ==
  ASSUME NEW expr \in Expr, ~Crashes(expr),
         NEW time, \A f \in 1 .. 5 : time[f] \in Low[f] .. High[f], time[5] <= 6
  PROVE  /\ Parses(expr) /\ Matches(ParseCron(expr), time) => Says(expr, time)
         /\ ~EitherDay(expr) /\ Says(expr, time)
              => Parses(expr) /\ Matches(ParseCron(expr), time)
  <1> DEFINE said == {f \in 1 .. 5 : FieldSays(expr[f], f, time[f])}
  <1>1. Says(expr, time) <=>
          /\ Legal(expr) /\ {1, 2, 4} \subseteq said
          /\ IF EitherDay(expr) THEN {3, 5} \cap said # {} ELSE {3, 5} \subseteq said
    BY DEF Says
  <1>2. Parses(expr) /\ Matches(ParseCron(expr), time) <=> Legal(expr) /\ 1 .. 5 \subseteq said
    BY AllFieldsSay
  <1>3. 1 .. 5 = {1, 2, 3, 4, 5}
    OBVIOUS
  <1> HIDE DEF said
  <1> QED BY <1>1, <1>2, <1>3

-----------------------------------------------------------------------------
(* A pass of checkJobs.                                                    *)

\* Whether a job is run, by its entry.
Fires(sched, last, t) ==
  IF last = Never THEN ShouldRunInitial(sched, t) ELSE ShouldRun(sched, last, t)

\* What has become of the entries and which jobs are run, after k jobs.
Pass(last, t, k, acc) ==
  /\ acc.last \in [Names -> Nat \cup {Never}]
  /\ acc.fired \subseteq EnabledJobs
  /\ \A n \in Names : acc.last[n] \in {last[n], t}
  /\ \A job \in acc.fired :
       /\ acc.last[job.name] = t
       /\ job.sched.kind = "cron" =>
            /\ CronMatches(job.sched, t)
            /\ last[job.name] = Never \/ t \div Minute > last[job.name] \div Minute
  /\ \A i \in DOMAIN Jobs : Jobs[i].enabled /\ Unshared(i) =>
       LET job == Jobs[i]  old == last[job.name] IN
       /\ i > k => acc.last[job.name] = old /\ job \notin acc.fired
       /\ i <= k =>
            /\ job \in acc.fired <=> Fires(job.sched, old, t)
            /\ acc.last[job.name] = IF old = Never \/ Fires(job.sched, old, t)
                                    THEN t ELSE old

LEMMA JobFacts ==
  /\ Len(Jobs) \in Nat /\ DOMAIN Jobs = 1 .. Len(Jobs)
  /\ \A k \in DOMAIN Jobs : Jobs[k].name \in Names /\ Jobs[k].enabled \in BOOLEAN
  BY JobsAssumption DEF Names

LEMMA MinuteFacts == Period \in Nat /\ Period >= 1 /\ Minute = 2 * Period /\ Minute \in Nat
                       /\ Minute >= 2 /\ MaxDelay \in Nat /\ 2 * MaxDelay < Period
  BY TimeAssumption

LEMMA PassStep ==
  ASSUME NEW last \in [Names -> Nat \cup {Never}], NEW t \in Nat,
         NEW k \in Nat, k + 1 <= Len(Jobs), NEW acc, Pass(last, t, k, acc)
  PROVE  Pass(last, t, k + 1, CheckJob(acc, Jobs[k + 1], t))
  <1> DEFINE job == Jobs[k + 1]
             old == acc.last[job.name]
             fire == job.enabled /\ Fires(job.sched, old, t)
             r == CheckJob(acc, job, t)
  <1>1. /\ k + 1 \in DOMAIN Jobs /\ job.name \in Names /\ job.enabled \in BOOLEAN
        /\ t # Never
    BY JobFacts DEF Never
  <1>2. /\ r.last = IF fire \/ (job.enabled /\ old = Never)
                     THEN [acc.last EXCEPT ![job.name] = t] ELSE acc.last
        /\ r.fired = IF fire THEN acc.fired \cup {job} ELSE acc.fired
    BY DEF CheckJob, Fires
  <1>3. acc.last \in [Names -> Nat \cup {Never}]
    BY DEF Pass
  <1>4. fire => job \in EnabledJobs
    BY <1>1 DEF EnabledJobs
  <1>5. fire /\ job.sched.kind = "cron" =>
          /\ CronMatches(job.sched, t) /\ old = last[job.name]
          /\ old = Never \/ t \div Minute > old \div Minute
    <2>1. old \in {last[job.name], t}
      BY <1>1 DEF Pass
    <2>2. ~(t \div Minute > t \div Minute)
      BY MinuteFacts
    <2> QED BY <1>1, <2>1, <2>2 DEF Fires, ShouldRun, ShouldRunInitial
  <1> DEFINE put == fire \/ (job.enabled /\ old = Never)
  <1>6. /\ put => r.last[job.name] = t
        /\ ~put => r.last = acc.last
        /\ \A n \in Names : n # job.name => r.last[n] = acc.last[n]
        /\ r.last \in [Names -> Nat \cup {Never}]
    BY <1>1, <1>2, <1>3
  <1>7. /\ fire => r.fired = acc.fired \cup {job}
        /\ ~fire => r.fired = acc.fired
        /\ fire => put
    BY <1>2
  <1> HIDE DEF r, fire, put
  <1>8. r.fired \subseteq EnabledJobs
    BY <1>4, <1>7 DEF Pass
  <1>9. \A n \in Names : r.last[n] \in {last[n], t}
    BY <1>6 DEF Pass
  <1>10. ASSUME NEW j \in r.fired
         PROVE  /\ r.last[j.name] = t
                /\ j.sched.kind = "cron" =>
                     /\ CronMatches(j.sched, t)
                     /\ last[j.name] = Never \/ t \div Minute > last[j.name] \div Minute
    <2>1. CASE j \in acc.fired
      <3>1. j.name \in Names
        BY <2>1 DEF Pass, EnabledJobs, Names
      <3> QED BY <2>1, <3>1, <1>6 DEF Pass
    <2>2. CASE j \notin acc.fired
      <3>1. fire /\ j = job
        BY <2>2, <1>7
      <3> QED BY <3>1, <1>5, <1>6, <1>7
    <2> QED BY <2>1, <2>2
  <1>11. ASSUME NEW i \in DOMAIN Jobs, Jobs[i].enabled, Unshared(i),
                NEW prev, prev = last[Jobs[i].name]
         PROVE  /\ i > k + 1 => r.last[Jobs[i].name] = prev /\ Jobs[i] \notin r.fired
                /\ i <= k + 1 =>
                     /\ Jobs[i] \in r.fired <=> Fires(Jobs[i].sched, prev, t)
                     /\ r.last[Jobs[i].name] =
                          IF prev = Never \/ Fires(Jobs[i].sched, prev, t) THEN t ELSE prev
    <2>1. i \in Nat /\ Jobs[i].name \in Names
      BY JobFacts
    <2>2. CASE i # k + 1
      <3>1. Jobs[i].name # job.name
        BY <2>2, <1>1, <1>11 DEF Unshared
      <3>2. /\ r.last[Jobs[i].name] = acc.last[Jobs[i].name]
            /\ Jobs[i] \in r.fired <=> Jobs[i] \in acc.fired
        BY <2>1, <3>1, <1>6, <1>7
      <3>3. /\ i > k + 1 => i > k
            /\ i <= k + 1 => i <= k
        BY <2>1, <2>2
      <3> QED BY <3>2, <3>3, <1>11 DEF Pass
    <2>3. CASE i = k + 1
      <3>1. old = prev /\ job \notin acc.fired /\ job.enabled
        BY <2>3, <1>11 DEF Pass
      <3>2. fire <=> Fires(job.sched, prev, t)
        BY <3>1 DEF fire
      <3>3. put <=> prev = Never \/ Fires(job.sched, prev, t)
        BY <3>1, <3>2 DEF put
      <3>4. job \in r.fired <=> Fires(job.sched, prev, t)
        BY <3>1, <3>2, <1>7
      <3>5. r.last[job.name] = IF prev = Never \/ Fires(job.sched, prev, t) THEN t ELSE prev
        BY <3>1, <3>3, <1>6
      <3>6. ~(i > k + 1) /\ Jobs[i] = job
        BY <2>3
      <3> QED BY <3>4, <3>5, <3>6
    <2> QED BY <2>2, <2>3
  <1> QED BY <1>6, <1>8, <1>9, <1>10, <1>11 DEF Pass, r

UpTo(last, t, n, upTo) ==
  upTo = [k \in 0 .. n |->
            IF k = 0 THEN [last |-> last, fired |-> {}]
                     ELSE CheckJob(upTo[k - 1], Jobs[k], t)]

LEMMA UpToExists ==
  ASSUME NEW last, NEW t, NEW n \in Nat
  PROVE  \E upTo : UpTo(last, t, n, upTo)
  <1> DEFINE S == {m \in Nat : \E u : UpTo(last, t, m, u)}
             Value(u, k) == IF k = 0 THEN [last |-> last, fired |-> {}]
                                     ELSE CheckJob(u[k - 1], Jobs[k], t)
  <1>1. 0 \in S
    <2> DEFINE u == [k \in 0 .. 0 |-> [last |-> last, fired |-> {}]]
    <2>1. UpTo(last, t, 0, u)
      BY DEF UpTo
    <2> QED BY <2>1
  <1>2. ASSUME NEW m \in Nat, m \in S PROVE m + 1 \in S
    <2>1. PICK u : UpTo(last, t, m, u)
      BY <1>2
    <2> DEFINE v == [k \in 0 .. m + 1 |-> IF k = m + 1 THEN Value(u, k) ELSE u[k]]
    <2>2. ASSUME NEW k \in 0 .. m + 1 PROVE v[k] = Value(v, k)
      <3>1. CASE k = m + 1
        BY <3>1
      <3>2. CASE k # m + 1
        <4>1. k \in 0 .. m /\ (k # 0 => k - 1 \in 0 .. m)
          BY <3>2
        <4>2. u[k] = Value(u, k)
          BY <2>1, <4>1 DEF UpTo
        <4> QED BY <3>2, <4>1, <4>2
      <3> QED BY <3>1, <3>2
    <2>3. UpTo(last, t, m + 1, v)
      BY <2>2 DEF UpTo
    <2> QED BY <2>3
  <1> HIDE DEF S
  <1>3. n \in S
    BY <1>1, <1>2, Induction
  <1> QED BY <1>3 DEF S

\* checkJobs, over the whole configuration.
LEMMA CheckJobsPass ==
  ASSUME NEW last \in [Names -> Nat \cup {Never}], NEW t \in Nat
  PROVE  Pass(last, t, Len(Jobs), CheckJobs(last, t))
  <1> DEFINE n == Len(Jobs)
             upTo[k \in 0 .. n] ==
               IF k = 0 THEN [last |-> last, fired |-> {}]
                        ELSE CheckJob(upTo[k - 1], Jobs[k], t)
  <1>1. CheckJobs(last, t) = upTo[n]
    BY DEF CheckJobs
  <1>2. upTo = CHOOSE u : UpTo(last, t, n, u)
    BY DEF UpTo
  <1>3. n \in Nat
    BY JobFacts
  <1> HIDE DEF upTo, n
  <1>4. UpTo(last, t, n, upTo)
    <2>1. \E u : UpTo(last, t, n, u)
      BY <1>3, UpToExists
    <2>2. UpTo(last, t, n, CHOOSE u : UpTo(last, t, n, u))
      BY <2>1, Zenon
    <2> QED BY <1>2, <2>2
  <1> DEFINE S == {k \in Nat : k <= n => Pass(last, t, k, upTo[k])}
  <1>5. 0 \in S
    <2>1. upTo[0] = [last |-> last, fired |-> {}]
      BY <1>3, <1>4 DEF UpTo
    <2>2. Pass(last, t, 0, [last |-> last, fired |-> {}])
      BY JobFacts DEF Pass
    <2> QED BY <2>1, <2>2
  <1>6. ASSUME NEW k \in Nat, k \in S PROVE k + 1 \in S
    <2> SUFFICES ASSUME k + 1 <= n PROVE Pass(last, t, k + 1, upTo[k + 1])
      OBVIOUS
    <2>1. Pass(last, t, k, upTo[k])
      BY <1>3, <1>6
    <2>2. upTo[k + 1] = CheckJob(upTo[k], Jobs[k + 1], t)
      <3>1. k + 1 \in 0 .. n /\ k + 1 # 0 /\ (k + 1) - 1 = k
        BY <1>3
      <3>2. upTo[k + 1] = IF k + 1 = 0 THEN [last |-> last, fired |-> {}]
                          ELSE CheckJob(upTo[(k + 1) - 1], Jobs[k + 1], t)
        BY <1>4, <3>1 DEF UpTo
      <3> QED BY <3>1, <3>2
    <2> QED BY <2>1, <2>2, PassStep DEF n
  <1> HIDE DEF S
  <1>7. n \in S
    BY <1>3, <1>5, <1>6, Induction
  <1> QED BY <1>1, <1>3, <1>7 DEF S, n

-----------------------------------------------------------------------------
(* What the loops remember and what they have fired.                       *)

\* The entries of a loop: none before its first check, none ahead of time.
Entries ==
  /\ owner \in 0 .. MaxStarts
  /\ now <= MaxTime
  /\ lastRun \in [Loops -> [Names -> Nat \cup {Never}]]
  /\ \A g \in Loops, n \in Names :
       /\ lastRun[g][n] <= now
       /\ pc[g] \in {"none", "first"} => lastRun[g][n] = Never
  /\ \A g \in Loops : pc[g] \in {"none", "gone"} => ctx[g] = "done"

\* What has been fired was due, and the entry is not older.
Fired ==
  /\ fires \subseteq [loop : Loops, at : 0 .. MaxTime, job : EnabledJobs]
  /\ \A f \in fires :
       /\ f.at <= lastRun[f.loop][f.job.name]
       /\ f.job.sched.kind = "cron" => CronMatches(f.job.sched, f.at)
  /\ OncePerMinute

\* A job's entry, of an interval or of a cron job that shares it with no other.
Spaced(g, job) ==
  LET last == lastRun[g][job.name] IN
  /\ pc[g] = "wait" => last # Never /\ due[g] - Period - last <= Interval(job.sched)
  /\ \A f \in fires : f.loop = g /\ f.job = job /\ f.at # last
                        => last - f.at >= Interval(job.sched)

RanIn(g, job, m) == \E f \in fires : f.loop = g /\ f.job = job /\ f.at \div Minute = m

\* An entry in a minute that matches is one of a run, and every minute whose
\* second tick is not ahead has had its run.
Caught(g, job) ==
  LET last == lastRun[g][job.name] IN
  /\ last # Never /\ CronMatches(job.sched, last) => RanIn(g, job, last \div Minute)
  /\ \A m \in Matching[job.sched] :
       /\ ctx[g] = "live" /\ pc[g] = "wait"
       /\ since[g] <= m * Minute /\ m * Minute + Period <= due[g]
       => RanIn(g, job, m)

CronJobs ==
  {Jobs[k] : k \in {i \in DOMAIN Jobs :
                      Jobs[i].enabled /\ Jobs[i].sched.kind = "cron" /\ Unshared(i)}}

JInv ==
  /\ IInv
  /\ Entries
  /\ Fired
  /\ \A g \in Loops : /\ \A job \in IntervalJobs : Spaced(g, job)
                      /\ \A job \in CronJobs : Caught(g, job)

LEMMA JobNames ==
  /\ \A job \in EnabledJobs : job.name \in Names
  /\ \A job \in IntervalJobs : job.name \in Names
  /\ \A job \in CronJobs : job.name \in Names
  BY DEF EnabledJobs, IntervalJobs, CronJobs, Names

LEMMA InitJInv == Init => JInv
  <1> SUFFICES ASSUME Init PROVE JInv
    OBVIOUS
  <1>1. IInv
    BY InitIInv
  <1>2. /\ now = 0 /\ owner = 0 /\ fires = {}
        /\ pc = [g \in Loops |-> "none"] /\ ctx = [g \in Loops |-> "done"]
        /\ lastRun = [g \in Loops |-> [n \in Names |-> Never]]
    BY DEF Init
  <1>3. \A g \in Loops : /\ pc[g] = "none" /\ ctx[g] = "done"
                         /\ \A n \in Names : lastRun[g][n] = Never
    BY <1>2
  <1>4. Entries
    BY <1>2, <1>3, TimeAssumption DEF Entries, Never
  <1>5. Fired
    BY <1>2 DEF Fired, OncePerMinute
  <1>6. ASSUME NEW g \in Loops
        PROVE  /\ \A job \in IntervalJobs : Spaced(g, job)
               /\ \A job \in CronJobs : Caught(g, job)
    BY <1>2, <1>3, JobNames DEF Spaced, Caught
  <1> QED BY <1>1, <1>4, <1>5, <1>6 DEF JInv

\* Steps in which no loop checks.
LEMMA NoCheckJInv ==
  ASSUME JInv, IInv', UNCHANGED <<lastRun, fires>>,
         owner' \in 0 .. MaxStarts, now <= now', now' <= MaxTime,
         \A g \in Loops :
           /\ pc'[g] \in {"none", "first"} => pc[g] \in {"none", "first"}
           /\ pc'[g] \in {"none", "gone"} => ctx'[g] = "done"
           /\ pc'[g] = "wait" => pc[g] = "wait" /\ due'[g] = due[g]
           /\ pc'[g] = "wait" /\ ctx'[g] = "live" => ctx[g] = "live" /\ since'[g] = since[g]
  PROVE  JInv'
  <1>1. Entries'
    <2>1. lastRun \in [Loops -> [Names -> Nat \cup {Never}]] /\ now \in Nat /\ now' \in Nat
      BY DEF JInv, Entries, IInv, Types
    <2>2. ASSUME NEW g \in Loops, NEW n \in Names
          PROVE  lastRun[g][n] <= now'
      <3>1. lastRun[g][n] \in Nat \cup {Never} /\ lastRun[g][n] <= now
        BY <2>1 DEF JInv, Entries
      <3> QED BY <3>1, <2>1 DEF Never
    <2> QED BY <2>1, <2>2 DEF JInv, Entries
  <1>2. Fired'
    BY DEF JInv, Fired, OncePerMinute, CronMatches
  <1>3. ASSUME NEW g \in Loops, NEW job \in IntervalJobs PROVE Spaced(g, job)'
    BY <1>3 DEF JInv, Spaced
  <1>4. ASSUME NEW g \in Loops, NEW job \in CronJobs PROVE Caught(g, job)'
    BY <1>4 DEF JInv, Caught, RanIn, CronMatches
  <1> QED BY <1>1, <1>2, <1>3, <1>4 DEF JInv

\* What a pass means to a job that shares its entry with no other.
LEMMA PassUnshared ==
  ASSUME NEW last \in [Names -> Nat \cup {Never}], NEW t \in Nat, NEW r,
         Pass(last, t, Len(Jobs), r), NEW job \in IntervalJobs \cup CronJobs
  PROVE  /\ job \in r.fired <=> Fires(job.sched, last[job.name], t)
         /\ r.last[job.name] =
              IF last[job.name] = Never \/ Fires(job.sched, last[job.name], t)
              THEN t ELSE last[job.name]
  <1>1. PICK i \in DOMAIN Jobs : Jobs[i] = job /\ Jobs[i].enabled /\ Unshared(i)
    BY DEF IntervalJobs, CronJobs
  <1>2. i <= Len(Jobs)
    BY JobFacts
  <1> QED BY <1>1, <1>2 DEF Pass

LEMMA DivMonotone ==
  ASSUME NEW x \in Nat, NEW y \in Nat, x <= y
  PROVE  x \div Minute <= y \div Minute
  BY MinuteFacts

LEMMA DivIs ==
  ASSUME NEW x \in Nat, NEW m \in Nat, m * Minute <= x, x < m * Minute + 2 * Period
  PROVE  x \div Minute = m
  BY MinuteFacts

\* A check of loop g, due at base.
LEMMA CheckJInv ==
  ASSUME JInv, IInv', NEW g \in Loops, NEW base \in Nat, base <= now,
         Check(g, base + Period), pc' = [pc EXCEPT ![g] = "wait"],
         (pc[g] = "wait" /\ base = due[g]) \/ (pc[g] = "first" /\ base = now)
  PROVE  JInv'
  <1>1. PICK t \in Nat : t = now
    BY DEF JInv, IInv, Types
  <1>2. PICK last \in [Names -> Nat \cup {Never}] : last = lastRun[g]
    BY DEF JInv, Entries
  <1>3. PICK r : r = CheckJobs(last, t)
    OBVIOUS
  <1>4. Pass(last, t, Len(Jobs), r)
    BY <1>3, CheckJobsPass
  <1>5. /\ lastRun' = [lastRun EXCEPT ![g] = r.last]
        /\ fires' = fires \cup {[loop |-> g, job |-> j, at |-> t] : j \in r.fired}
        /\ due' = [due EXCEPT ![g] = base + Period]
        /\ UNCHANGED <<now, parent, running, owner, ctx, since>>
    BY <1>1, <1>2, <1>3 DEF Check
  <1>6. /\ r.last \in [Names -> Nat \cup {Never}] /\ r.fired \subseteq EnabledJobs
        /\ lastRun \in [Loops -> [Names -> Nat \cup {Never}]]
        /\ pc \in [Loops -> {"none", "first", "wait", "gone"}]
        /\ due \in [Loops -> Nat] /\ since \in [Loops -> Nat]
    BY <1>4 DEF Pass, JInv, Entries, IInv, Types
  <1>7. /\ lastRun'[g] = r.last /\ pc'[g] = "wait" /\ due'[g] = base + Period
        /\ \A h \in Loops : h # g => /\ lastRun'[h] = lastRun[h] /\ pc'[h] = pc[h]
                                     /\ due'[h] = due[h]
    BY <1>5, <1>6
  <1>8. \A n \in Names : last[n] <= t /\ r.last[n] <= t /\ r.last[n] >= last[n]
    <2>1. ASSUME NEW n \in Names PROVE last[n] <= t /\ r.last[n] <= t /\ r.last[n] >= last[n]
      <3>1. last[n] <= t /\ last[n] \in Int /\ r.last[n] \in {last[n], t}
        BY <1>1, <1>2, <1>4 DEF JInv, Entries, Pass, Never
      <3> QED BY <3>1
    <2> QED BY <2>1
  <1>9. \A f \in fires' : f \in fires \/ (f.loop = g /\ f.job \in r.fired /\ f.at = t)
    BY <1>5
  <1>10. /\ \A f \in fires : /\ f \in [loop : Loops, at : 0 .. MaxTime, job : EnabledJobs]
                             /\ f.job.name \in Names
         /\ \A j \in r.fired : j.name \in Names
    BY <1>6, JobNames DEF JInv, Fired
  <1>11. Entries'
    <2>1. lastRun' \in [Loops -> [Names -> Nat \cup {Never}]]
      BY <1>5, <1>6
    <2>2. ASSUME NEW h \in Loops, NEW n \in Names
          PROVE  /\ lastRun'[h][n] <= now
                 /\ pc'[h] \in {"none", "first"} => lastRun'[h][n] = Never
      BY <1>1, <1>7, <1>8 DEF JInv, Entries
    <2>3. ASSUME NEW h \in Loops, pc'[h] \in {"none", "gone"} PROVE ctx'[h] = "done"
      BY <1>5, <1>7, <2>3 DEF JInv, Entries
    <2> QED BY <1>5, <2>1, <2>2, <2>3 DEF JInv, Entries
  <1>12. Fired'
    <2>1. fires' \subseteq [loop : Loops, at : 0 .. MaxTime, job : EnabledJobs]
      <3>1. t \in 0 .. MaxTime
        BY <1>1, TimeAssumption DEF JInv, Entries
      <3> QED BY <1>5, <1>6, <3>1 DEF JInv, Fired
    <2>2. ASSUME NEW f \in fires'
          PROVE  /\ f.at <= lastRun'[f.loop][f.job.name]
                 /\ f.job.sched.kind = "cron" => CronMatches(f.job.sched, f.at)
      <3>1. CASE f \in fires
        <4>1. f.at <= lastRun[f.loop][f.job.name] /\ f.at \in Nat /\ f.loop \in Loops
          BY <3>1, <1>10 DEF JInv, Fired
        <4>2. CASE f.loop = g
          <5>1. f.at <= last[f.job.name] /\ last[f.job.name] \in Int /\ r.last[f.job.name] \in Int
            BY <4>1, <4>2, <1>2, <1>6, <1>10, <3>1 DEF Never
          <5> QED BY <3>1, <4>1, <4>2, <5>1, <1>7, <1>8, <1>10 DEF JInv, Fired
        <4>3. CASE f.loop # g
          BY <3>1, <4>1, <4>3, <1>7 DEF JInv, Fired
        <4> QED BY <4>2, <4>3
      <3>2. CASE f.loop = g /\ f.job \in r.fired /\ f.at = t
        BY <3>2, <1>4, <1>7 DEF Pass
      <3> QED BY <1>9, <3>1, <3>2
    <2>3. ASSUME NEW f \in fires', NEW h \in fires', f.job.sched.kind = "cron",
                 h.loop = f.loop, h.job = f.job, f.at \div Minute = h.at \div Minute
          PROVE  f = h
      <3>1. ASSUME NEW x \in fires, NEW y, y.loop = g, y.job \in r.fired, y.at = t,
                   y.job.sched.kind = "cron", x.loop = y.loop, x.job = y.job,
                   x.at \div Minute = y.at \div Minute
            PROVE  FALSE
        <4>1. x.at \in Nat /\ x.at <= last[x.job.name] /\ last[x.job.name] \in Nat
          BY <3>1, <1>2, <1>10 DEF JInv, Fired, Never
        <4>2. t \div Minute > last[x.job.name] \div Minute
          BY <3>1, <4>1, <1>4 DEF Pass, Never
        <4>3. x.at \div Minute <= last[x.job.name] \div Minute
          BY <4>1, DivMonotone
        <4> QED BY <3>1, <4>1, <4>2, <4>3, MinuteFacts
      <3>2. CASE f \in fires /\ h \in fires
        BY <2>3, <3>2 DEF JInv, Fired, OncePerMinute
      <3>3. CASE f \notin fires /\ h \notin fires
        BY <2>3, <3>3, <1>5
      <3> QED BY <2>3, <1>9, <3>1, <3>2, <3>3
    <2> QED BY <2>1, <2>2, <2>3 DEF Fired, OncePerMinute, CronMatches
  <1>13. ASSUME NEW h \in Loops, NEW job \in IntervalJobs PROVE Spaced(h, job)'
    <2>1. job.name \in Names
      BY JobNames
    <2>2. CASE h # g
      <3>1. \A f \in fires' : f.loop = h => f \in fires
        BY <1>9, <2>2
      <3>2. /\ lastRun'[h] = lastRun[h] /\ pc'[h] = pc[h] /\ due'[h] = due[h]
        BY <2>2, <1>7
      <3> QED BY <3>1, <3>2, <1>13 DEF JInv, Spaced
    <2>3. CASE h = g
      <3>1. PICK n \in Int : n = job.sched.n /\ Interval(job.sched) = IF n < 0 THEN 0 ELSE n
        BY JobsAssumption DEF IntervalJobs, Interval
      <3>2. job.sched.kind = "every"
        BY DEF IntervalJobs
      <3>3. PICK old \in Nat \cup {Never}, new \in Nat \cup {Never} :
              old = last[job.name] /\ new = r.last[job.name] /\ old <= t
        BY <1>6, <1>8, <2>1
      <3>4. /\ job \in r.fired <=> old = Never \/ t - old >= n
            /\ new = IF old = Never \/ t - old >= n THEN t ELSE old
        <4>1. /\ job \in r.fired <=> Fires(job.sched, old, t)
              /\ new = IF old = Never \/ Fires(job.sched, old, t) THEN t ELSE old
          BY <1>4, <3>3, PassUnshared
        <4>2. ~CronMatches(job.sched, t)
          <5>1. job.sched \in {Jobs[k].sched : k \in DOMAIN Jobs}
            BY DEF IntervalJobs
          <5> QED BY <3>2, <5>1 DEF CronMatches, Matching
        <4>3. Fires(job.sched, old, t) <=> old = Never \/ t - old >= n
          BY <3>1, <3>2, <4>2 DEF Fires, ShouldRun, ShouldRunInitial
        <4> QED BY <4>1, <4>3
      <3>5. /\ new # Never
            /\ (base + Period) - Period - new <= IF n < 0 THEN 0 ELSE n
        BY <1>1, <3>3, <3>4, MinuteFacts DEF Never
      <3>6. ASSUME NEW f \in fires', f.loop = g, f.job = job, f.at # new
            PROVE  new - f.at >= IF n < 0 THEN 0 ELSE n
        <4>1. f \in fires
          BY <3>4, <3>6, <1>9
        <4>2. f.at \in Nat /\ f.at <= old
          BY <4>1, <3>3, <3>6, <1>2, <1>10 DEF JInv, Fired
        <4>3. f.at # old => old - f.at >= IF n < 0 THEN 0 ELSE n
          BY <4>1, <3>1, <3>3, <3>6, <1>2 DEF JInv, Spaced
        <4> QED BY <3>3, <3>4, <3>6, <4>2, <4>3 DEF Never
      <3> QED BY <2>3, <1>7, <3>1, <3>3, <3>5, <3>6 DEF Spaced
    <2> QED BY <2>2, <2>3
  <1>14. ASSUME NEW h \in Loops, NEW job \in CronJobs PROVE Caught(h, job)'
    <2>1. job.name \in Names /\ job.sched.kind = "cron"
      BY JobNames DEF CronJobs
    <2>2. CASE h # g
      <3>1. /\ lastRun'[h] = lastRun[h] /\ pc'[h] = pc[h] /\ due'[h] = due[h]
            /\ ctx' = ctx /\ since' = since /\ fires \subseteq fires'
        BY <2>2, <1>5, <1>7
      <3> QED BY <3>1, <1>14 DEF JInv, Caught, RanIn, CronMatches
    <2>3. CASE h = g
      <3>1. PICK old \in Nat \cup {Never}, new \in Nat \cup {Never} :
              old = last[job.name] /\ new = r.last[job.name] /\ old <= t
        BY <1>6, <1>8, <2>1
      <3>2. /\ job \in r.fired <=>
                 CronMatches(job.sched, t) /\ (old = Never \/ t \div Minute > old \div Minute)
            /\ new = IF old = Never \/ job \in r.fired THEN t ELSE old
        <4>1. /\ job \in r.fired <=> Fires(job.sched, old, t)
              /\ new = IF old = Never \/ Fires(job.sched, old, t) THEN t ELSE old
          BY <1>4, <3>1, PassUnshared
        <4>2. Fires(job.sched, old, t) <=>
                CronMatches(job.sched, t) /\ (old = Never \/ t \div Minute > old \div Minute)
          BY <2>1 DEF Fires, ShouldRun, ShouldRunInitial
        <4> QED BY <4>1, <4>2
      <3>3. job \in r.fired => RanIn(g, job, t \div Minute)'
        <4>1. job \in r.fired => [loop |-> g, job |-> job, at |-> t] \in fires'
          BY <1>5
        <4> QED BY <4>1 DEF RanIn
      <3>4. \A m : RanIn(g, job, m) => RanIn(g, job, m)'
        BY <1>5 DEF RanIn
      <3>5. old # Never /\ CronMatches(job.sched, old) => RanIn(g, job, old \div Minute)
        BY <3>1, <1>2 DEF JInv, Caught
      <3>6. ASSUME new # Never, CronMatches(job.sched, new)
            PROVE  RanIn(g, job, new \div Minute)'
        BY <3>6, <3>2, <3>3, <3>4, <3>5
      <3>7. ASSUME NEW m \in Matching[job.sched], ctx[g] = "live",
                   since[g] <= m * Minute, m * Minute + Period <= base + Period
            PROVE  RanIn(g, job, m)'
        <4>1. m \in Nat
          BY ClockAssumption, MinuteFacts, TimeAssumption DEF Matching, CronJobs
        <4>2. PICK begin \in Nat, at \in Nat : begin = since[g] /\ at = m * Minute
          <5>1. m * Minute \in Nat
            BY <4>1, MinuteFacts
          <5> QED BY <1>6, <5>1
        <4>3. CASE pc[g] = "wait" /\ at + Period <= base
          <5>1. RanIn(g, job, m)
            BY <3>7, <4>2, <4>3 DEF JInv, Caught
          <5> QED BY <3>4, <5>1
        <4>4. CASE ~(pc[g] = "wait" /\ at + Period <= base)
          <5>1. at <= t /\ t < at + 2 * Period
            <6>1. CASE pc[g] = "wait"
              <7>1. t <= base + MaxDelay
                BY <1>1, <6>1 DEF JInv, IInv, OnTime
              <7> QED BY <7>1, <6>1, <4>4, <4>2, <3>7, <1>1, MinuteFacts
            <6>2. CASE pc[g] = "first"
              <7>1. t <= due[g] + MaxDelay /\ due[g] <= begin /\ due[g] \in Nat
                BY <1>1, <1>6, <4>2, <6>2 DEF JInv, IInv, OnTime
              <7> QED BY <7>1, <6>2, <4>2, <3>7, <1>1, MinuteFacts
            <6> QED BY <6>1, <6>2
          <5>2. t \div Minute = m
            BY <4>1, <4>2, <5>1, DivIs
          <5>3. CronMatches(job.sched, t)
            BY <3>7, <5>2 DEF CronMatches
          <5>4. CASE job \in r.fired
            BY <3>3, <5>2, <5>4
          <5>5. CASE job \notin r.fired
            <6>1. old \in Nat /\ old # Never /\ old <= t /\ ~(t \div Minute > old \div Minute)
              BY <3>1, <3>2, <5>3, <5>5
            <6>2. old \div Minute = m
              BY <5>2, <6>1, DivMonotone, MinuteFacts
            <6> QED BY <3>4, <3>5, <3>7, <6>1, <6>2 DEF CronMatches
          <5> QED BY <5>4, <5>5
        <4> QED BY <4>3, <4>4
      <3> QED BY <2>3, <1>5, <1>7, <3>1, <3>6, <3>7 DEF Caught, CronMatches
    <2> QED BY <2>2, <2>3
  <1> QED BY <1>11, <1>12, <1>13, <1>14 DEF JInv

LEMMA StartJInv ==
  ASSUME JInv, Start
  PROVE  JInv'
  <1>1. PICK h \in Loops :
          /\ pc[h] = "none" /\ owner' = h
          /\ pc' = [pc EXCEPT ![h] = "first"]
          /\ ctx' = [ctx EXCEPT ![h] = parent]
          /\ due' = [due EXCEPT ![h] = now]
          /\ since' = [since EXCEPT ![h] = now]
    BY DEF Start
  <1>2. UNCHANGED <<now, lastRun, fires>>
    BY DEF Start
  <1>3. IInv'
    BY StartIInv DEF JInv
  <1>4. owner' \in 0 .. MaxStarts /\ now <= now' /\ now' <= MaxTime
    BY <1>1, <1>2, TimeAssumption DEF Loops, JInv, Entries, IInv, Types
  <1>5. ASSUME NEW g \in Loops
        PROVE  /\ pc'[g] \in {"none", "first"} => pc[g] \in {"none", "first"}
               /\ pc'[g] \in {"none", "gone"} => ctx'[g] = "done"
               /\ pc'[g] = "wait" => pc[g] = "wait" /\ due'[g] = due[g]
               /\ pc'[g] = "wait" /\ ctx'[g] = "live" => ctx[g] = "live" /\ since'[g] = since[g]
    BY <1>1 DEF JInv, Entries, IInv, Types
  <1> QED BY <1>2, <1>3, <1>4, <1>5, NoCheckJInv

LEMMA EndJInv ==
  ASSUME JInv, IInv', NEW S, End(S), UNCHANGED <<now, owner, pc, due, lastRun, fires>>
  PROVE  JInv'
  <1>1. owner' \in 0 .. MaxStarts /\ now <= now' /\ now' <= MaxTime
    BY DEF JInv, Entries, IInv, Types
  <1>2. ASSUME NEW g \in Loops
        PROVE  /\ ctx'[g] = "live" => ctx[g] = "live" /\ since'[g] = since[g]
               /\ ctx[g] = "done" => ctx'[g] = "done"
    BY DEF End, JInv, IInv, Types
  <1>3. ASSUME NEW g \in Loops
        PROVE  /\ pc'[g] \in {"none", "first"} => pc[g] \in {"none", "first"}
               /\ pc'[g] \in {"none", "gone"} => ctx'[g] = "done"
               /\ pc'[g] = "wait" => pc[g] = "wait" /\ due'[g] = due[g]
               /\ pc'[g] = "wait" /\ ctx'[g] = "live" => ctx[g] = "live" /\ since'[g] = since[g]
    BY <1>2 DEF JInv, Entries
  <1> QED BY <1>1, <1>3, NoCheckJInv

LEMMA FirstCheckJInv ==
  ASSUME JInv, NEW g \in Loops, FirstCheck(g)
  PROVE  JInv'
  <1>1. IInv'
    BY FirstCheckIInv DEF JInv
  <1>2. PICK base \in Nat : base = now
    BY DEF JInv, IInv, Types
  <1>3. /\ Check(g, base + Period) /\ pc[g] = "first"
        /\ pc' = [pc EXCEPT ![g] = "wait"]
    BY <1>2 DEF FirstCheck
  <1>4. base <= now
    BY <1>2
  <1> QED BY <1>1, <1>2, <1>3, <1>4, CheckJInv

LEMMA TickCheckJInv ==
  ASSUME JInv, NEW g \in Loops, TickCheck(g)
  PROVE  JInv'
  <1>1. IInv'
    BY TickCheckIInv DEF JInv
  <1>2. PICK base \in Nat : base = due[g]
    BY DEF JInv, IInv, Types
  <1>3. pc' = [pc EXCEPT ![g] = "wait"]
    BY DEF TickCheck, JInv, IInv, Types
  <1> QED BY <1>1, <1>2, <1>3, CheckJInv DEF TickCheck

LEMMA LoopExitJInv ==
  ASSUME JInv, NEW h \in Loops, LoopExit(h)
  PROVE  JInv'
  <1>1. /\ pc[h] = "wait" /\ ctx[h] = "done" /\ pc' = [pc EXCEPT ![h] = "gone"]
        /\ UNCHANGED <<now, owner, ctx, due, since, lastRun, fires>>
    BY DEF LoopExit
  <1>2. IInv'
    BY LoopExitIInv DEF JInv
  <1>3. owner' \in 0 .. MaxStarts /\ now <= now' /\ now' <= MaxTime
    BY <1>1 DEF JInv, Entries, IInv, Types
  <1>4. ASSUME NEW g \in Loops
        PROVE  /\ pc'[g] \in {"none", "first"} => pc[g] \in {"none", "first"}
               /\ pc'[g] \in {"none", "gone"} => ctx'[g] = "done"
               /\ pc'[g] = "wait" => pc[g] = "wait" /\ due'[g] = due[g]
               /\ pc'[g] = "wait" /\ ctx'[g] = "live" => ctx[g] = "live" /\ since'[g] = since[g]
    BY <1>1 DEF JInv, Entries, IInv, Types
  <1> QED BY <1>1, <1>2, <1>3, <1>4, NoCheckJInv

LEMMA AdvanceJInv ==
  ASSUME JInv, Advance
  PROVE  JInv'
  <1>1. /\ now < MaxTime /\ now' = now + 1 /\ now \in Nat /\ MaxTime \in Nat
        /\ UNCHANGED <<owner, pc, ctx, due, since, lastRun, fires>>
    BY TimeAssumption DEF Advance, JInv, IInv, Types
  <1>2. IInv'
    BY AdvanceIInv DEF JInv
  <1>3. owner' \in 0 .. MaxStarts /\ now <= now' /\ now' <= MaxTime
    BY <1>1 DEF JInv, Entries
  <1> QED BY <1>1, <1>2, <1>3, NoCheckJInv DEF JInv, Entries

LEMMA NextJInv == JInv /\ [Next]_vars => JInv'
  <1> SUFFICES ASSUME JInv, [Next]_vars PROVE JInv'
    OBVIOUS
  <1>1. IInv'
    BY NextIInv DEF JInv
  <1>2. CASE UNCHANGED vars
    <2>1. owner' \in 0 .. MaxStarts /\ now <= now' /\ now' <= MaxTime
      BY <1>2 DEF vars, JInv, Entries, IInv, Types
    <2> QED BY <1>1, <1>2, <2>1, NoCheckJInv DEF vars, JInv, Entries
  <1>3. ASSUME Stop PROVE JInv'
    BY <1>1, <1>3, EndJInv DEF Stop, loopVars
  <1>4. ASSUME ParentEnds PROVE JInv'
    BY <1>1, <1>4, EndJInv DEF ParentEnds, loopVars
  <1>5. CASE Next
    BY <1>3, <1>4, <1>5, StartJInv, AdvanceJInv, FirstCheckJInv, TickCheckJInv, LoopExitJInv
       DEF Next
  <1> QED BY <1>2, <1>5

LEMMA Remembered == Spec => []JInv
  BY InitJInv, NextJInv, PTL DEF Spec

-----------------------------------------------------------------------------
\* The types of the variables; a disabled job is never run.
THEOREM TypeCorrect == Spec => []TypeOK
  <1>1. JInv => TypeOK
    <2> SUFFICES ASSUME JInv PROVE TypeOK
      OBVIOUS
    <2>1. now \in 0 .. MaxTime
      BY TimeAssumption DEF JInv, Entries, IInv, Types
    <2> QED BY <2>1 DEF JInv, Entries, Fired, IInv, Types, TypeOK
  <1> QED BY <1>1, Remembered, PTL

\* However the two checks in a minute are delayed, a loop does not fire a cron
\* job twice in it: the entry is of that minute and no job can move it back.
THEOREM OnceAMinute == Spec => []OncePerMinute
  <1>1. JInv => OncePerMinute
    BY DEF JInv, Fired
  <1> QED BY <1>1, Remembered, PTL

\* A job of the configuration matches in minutes its expression stands for,
\* and in all of them if it leaves one of the days open.
LEMMA MatchingIsWritten ==
  ASSUME NEW job \in {Jobs[k] : k \in DOMAIN Jobs}, job.sched.kind = "cron"
  PROVE  /\ Matching[job.sched] \subseteq Written[job]
         /\ ~EitherDay(job.sched.expr) => Matching[job.sched] = Written[job]
  <1>1. job.sched.expr \in Expr /\ ~Crashes(job.sched.expr)
    BY JobsAssumption
  <1>2. ASSUME NEW m \in DOMAIN WallClock
        PROVE  /\ Parses(job.sched.expr) /\ Matches(ParseCron(job.sched.expr), WallClock[m])
                    => Says(job.sched.expr, WallClock[m])
               /\ ~EitherDay(job.sched.expr) /\ Says(job.sched.expr, WallClock[m])
                    => Parses(job.sched.expr) /\ Matches(ParseCron(job.sched.expr), WallClock[m])
    BY <1>1, ClockAssumption, CronReads
  <1>3. Matching[job.sched] =
          {m \in DOMAIN WallClock :
             /\ Parses(job.sched.expr)
             /\ Matches(ParseCron(job.sched.expr), WallClock[m])}
    BY DEF Matching
  <1>4. Written[job] = {m \in DOMAIN WallClock : Says(job.sched.expr, WallClock[m])}
    BY DEF Written
  <1> QED BY <1>2, <1>3, <1>4

\* Every firing of a cron job is in a minute its expression stands for in
\* standard cron, for every expression on which the parser does not panic.
THEOREM AsWritten == Spec => []FiresAsWritten
  <1>1. JInv => FiresAsWritten
    <2> SUFFICES ASSUME JInv, NEW f \in fires, f.job.sched.kind = "cron"
                 PROVE  f.at \div Minute \in Written[f.job]
      BY DEF FiresAsWritten
    <2>1. f.job \in {Jobs[k] : k \in DOMAIN Jobs}
      BY DEF JInv, Fired, EnabledJobs
    <2>2. f.at \div Minute \in Matching[f.job.sched]
      BY DEF JInv, Fired, CronMatches
    <2> QED BY <2>1, <2>2, MatchingIsWritten
  <1> QED BY <1>1, Remembered, PTL

\* A loop that is live for a whole minute fires in it every enabled cron job
\* that is due then: one of the minute's two ticks is taken before it ends.
THEOREM EveryMinute == Spec => []NoMinuteMissed
  <1>1. JInv => NoMinuteMissed
    <2> SUFFICES ASSUME JInv, NEW g \in Loops, NEW k \in DOMAIN Jobs,
                        NEW m \in Written[Jobs[k]],
                        ctx[g] = "live", since[g] <= m * Minute,
                        (m + 1) * Minute <= now,
                        Jobs[k].enabled, Unshared(k), ~EitherDay(Jobs[k].sched.expr)
                 PROVE  RanIn(g, Jobs[k], m)
      BY DEF NoMinuteMissed, Alone, FiresWhenWritten, RanIn
    <2>1. /\ Jobs[k] \in {Jobs[i] : i \in DOMAIN Jobs}
          /\ Jobs[k].sched.kind = "cron" /\ m \in DOMAIN WallClock
      BY DEF Written
    <2>2. Jobs[k] \in CronJobs /\ m \in Matching[Jobs[k].sched]
      BY <2>1, MatchingIsWritten DEF CronJobs
    <2>3. PICK t \in Nat, at \in Nat, begin \in Nat, next \in Nat :
            t = now /\ at = m * Minute /\ begin = since[g] /\ next = due[g]
      <3>1. now \in Nat /\ since[g] \in Nat /\ due[g] \in Nat
        BY DEF JInv, IInv, Types
      <3>2. m \in Nat /\ m * Minute \in Nat
        <4>1. m \in Nat
          BY <2>1, ClockAssumption
        <4> QED BY <4>1, MinuteFacts
      <3> QED BY <3>1, <3>2
    <2>4. at + 2 * Period <= t
      <3>1. m \in Nat /\ (m + 1) * Minute <= t
        BY <2>1, <2>3, ClockAssumption
      <3>2. (m + 1) * Minute = at + 2 * Period
        BY <3>1, <2>3, MinuteFacts
      <3> QED BY <3>1, <3>2
    <2>5. pc[g] = "first" \/ pc[g] = "wait"
      BY DEF JInv, Entries, IInv, Types
    <2>6. t <= next + MaxDelay
      BY <2>3, <2>5 DEF JInv, IInv, OnTime
    <2>7. pc[g] = "wait"
      <3>1. pc[g] = "first" => next <= begin
        BY <2>3 DEF JInv, IInv, OnTime
      <3> QED BY <3>1, <2>3, <2>4, <2>5, <2>6, MinuteFacts
    <2>8. m * Minute + Period <= due[g]
      BY <2>3, <2>4, <2>6, MinuteFacts
    <2> QED BY <2>2, <2>7, <2>8 DEF JInv, Caught
  <1> QED BY <1>1, Remembered, PTL

\* An interval job runs no sooner than its interval, and in a live loop not
\* later than a tick and a delay beyond it.
THEOREM IntervalsAreKept == Spec => []IntervalsKept
  <1>1. JInv => IntervalsKept
    <2> SUFFICES ASSUME JInv, NEW g \in Loops, NEW job \in IntervalJobs,
                        NEW last, last = lastRun[g][job.name], last # Never
                 PROVE  /\ ctx[g] = "live" => now - last <= Interval(job.sched) + Period + MaxDelay
                        /\ \A f \in fires : f.loop = g /\ f.at # last /\ f.job = job
                                              => last - f.at >= Interval(job.sched)
      BY DEF IntervalsKept
    <2>1. Spaced(g, job)
      BY DEF JInv
    <2>2. ASSUME ctx[g] = "live"
          PROVE  now - last <= Interval(job.sched) + Period + MaxDelay
      <3>1. last \in Nat /\ now \in Nat /\ due[g] \in Nat
        BY JobNames DEF JInv, Entries, IInv, Types
      <3>2. Interval(job.sched) \in Int
        BY JobsAssumption DEF IntervalJobs, Interval
      <3>3. pc[g] = "wait"
        BY <2>2, JobNames DEF JInv, Entries, IInv, Types
      <3>4. now <= due[g] + MaxDelay
        BY <3>3 DEF JInv, IInv, OnTime
      <3>5. due[g] - Period - last <= Interval(job.sched)
        BY <2>1, <3>3 DEF Spaced
      <3> QED BY <3>1, <3>2, <3>4, <3>5, MinuteFacts
    <2> QED BY <2>1, <2>2 DEF Spaced
  <1> QED BY <1>1, Remembered, PTL
=============================================================================
