------------------------------- MODULE Scheduler -------------------------------
(***************************************************************************)
(* pkg/scheduler/scheduler.go: Start, Stop and the loops they leave        *)
(* behind, over a discrete clock.  Each Start makes a loop with a context, *)
(* a ticker and a lastRun map of its own; the map is what keeps a job from *)
(* firing twice, and it dies with its loop.                                *)
(*                                                                         *)
(* Time: the clock moves in units; a check is due at each tick and happens *)
(* at most MaxDelay units after it (the Go runtime's delay in running a    *)
(* goroutine).  A schedule is "every" n units or "cron" with an expression *)
(* that is parsed and matched at every check (module Cron).                *)
(***************************************************************************)
EXTENDS Cron

CONSTANTS
  Jobs,       \* the configuration: sequence of [name, sched, enabled]
  Minute,     \* units in a minute
  Period,     \* units between ticks (30 s in the code)
  WallClock,  \* per minute: <<minute, hour, day, month, weekday>> as shown
  MaxDelay,   \* bound on the delay of a goroutine that can run
  MaxStarts,  \* bound on the loops
  MaxTime     \* bound on the clock

ASSUME TimeAssumption ==
  /\ Period \in Nat /\ MaxDelay \in Nat /\ 2 * MaxDelay < Period
  /\ Minute = 2 * Period
  /\ MaxTime \in Nat /\ MaxStarts \in Nat

ASSUME ClockAssumption ==
  /\ DOMAIN WallClock = 0 .. MaxTime \div Minute
  /\ \A m \in DOMAIN WallClock :
       /\ \A f \in 1 .. 5 : WallClock[m][f] \in Low[f] .. High[f]
       /\ WallClock[m][5] <= 6

\* A negative interval is one that time.ParseDuration accepts.  A panic of the
\* parser ends the daemon; a configuration with one is left out.
ASSUME JobsAssumption ==
  /\ Jobs \in Seq({Jobs[k] : k \in DOMAIN Jobs})
  /\ \A k \in DOMAIN Jobs :
       /\ Jobs[k].enabled \in BOOLEAN
       /\ Jobs[k].sched.n \in Int /\ Jobs[k].sched.expr \in Expr
       /\ ~Crashes(Jobs[k].sched.expr)

Loops == 1 .. MaxStarts
Names == {Jobs[k].name : k \in DOMAIN Jobs}
Never == -1                 \* no entry in lastRun

VARIABLES
  now,      \* the clock
  parent,   \* the context given to Start: "live" or "done"
  running,  \* Scheduler.running
  owner,    \* the loop that Scheduler.cancel ends; 0 for nil
  pc,       \* per loop: "none", "first" (check at once), "wait", "gone"
  ctx,      \* per loop: "live" or "done"
  due,      \* per loop: when its next check is due
  since,    \* per loop: when its context began or, if done, ended
  lastRun,  \* per loop and job name: the last run
  fires,    \* history: [loop, job, at] for every runJob started
  late      \* history: per loop, checks made after its context ended

loopVars == <<pc, due, lastRun, fires, late>>
vars == <<now, parent, running, owner, pc, ctx, due, since, lastRun, fires, late>>

Init ==
  /\ now = 0
  /\ parent = "live"
  /\ running = FALSE
  /\ owner = 0
  /\ pc = [g \in Loops |-> "none"]
  /\ ctx = [g \in Loops |-> "done"]
  /\ due = [g \in Loops |-> 0]
  /\ since = [g \in Loops |-> 0]
  /\ lastRun = [g \in Loops |-> [n \in Names |-> Never]]
  /\ fires = {}
  /\ late = [g \in Loops |-> 0]

-----------------------------------------------------------------------------
\* Per schedule, the minutes in which it parses and matches the local time.
Matching ==
  [sched \in {Jobs[k].sched : k \in DOMAIN Jobs} |->
    {m \in DOMAIN WallClock : /\ sched.kind = "cron" /\ Parses(sched.expr)
                              /\ Matches(ParseCron(sched.expr), WallClock[m])}]

CronMatches(sched, t) == t \div Minute \in Matching[sched]

\* Mutant: the entry is compared by elapsed time, not by minute.
ShouldRun_NoTruncate(sched, last, t) ==
  \/ sched.kind = "every" /\ t - last >= sched.n
  \/ CronMatches(sched, t) /\ t > last

\* Mutant: one more tick goes by before an interval counts as over.
ShouldRun_Late(sched, last, t) ==
  \/ sched.kind = "every" /\ t - last > sched.n + Period
  \/ CronMatches(sched, t) /\ t \div Minute > last \div Minute

\* Mutant: a minute that follows a run is skipped.
ShouldRun_SkipsNext(sched, last, t) ==
  \/ sched.kind = "every" /\ t - last >= sched.n
  \/ CronMatches(sched, t) /\ t \div Minute > last \div Minute + 1

\* A job that has run: its interval is over, or this minute matches and is
\* not the minute of the last run.
ShouldRun(sched, last, t) ==
  \/ sched.kind = "every" /\ t - last >= sched.n
  \/ CronMatches(sched, t) /\ t \div Minute > last \div Minute

\* A job the loop meets for the first time.
ShouldRunInitial(sched, t) ==
  sched.kind = "every" \/ CronMatches(sched, t)

\* Mutant: disabled jobs are not skipped.
CheckJob_Disabled(acc, job, t) ==
  LET last == acc.last[job.name]
      fire == IF last = Never THEN ShouldRunInitial(job.sched, t)
                              ELSE ShouldRun(job.sched, last, t)
  IN  [last  |-> [acc.last EXCEPT ![job.name] = IF fire \/ last = Never THEN t ELSE @],
       fired |-> IF fire THEN acc.fired \cup {job} ELSE acc.fired]

\* One pass of checkJobs over the configuration, in order; acc carries the
\* map and the jobs to run.  Jobs with one name share one entry.
CheckJob(acc, job, t) ==
  LET last  == acc.last[job.name]
      fresh == last = Never
      fire  == job.enabled /\ IF fresh THEN ShouldRunInitial(job.sched, t)
                                       ELSE ShouldRun(job.sched, last, t)
  IN  [last  |-> IF fire \/ (job.enabled /\ fresh)
                   THEN [acc.last EXCEPT ![job.name] = t] ELSE acc.last,
       fired |-> IF fire THEN acc.fired \cup {job} ELSE acc.fired]

CheckJobs(last, t) ==
  LET upTo[k \in 0 .. Len(Jobs)] ==
        IF k = 0 THEN [last |-> last, fired |-> {}]
                 ELSE CheckJob(upTo[k - 1], Jobs[k], t)
  IN  upTo[Len(Jobs)]

-----------------------------------------------------------------------------
\* Mutant: the running flag is not looked at.
Start_Unguarded ==
  \E g \in Loops :
    /\ pc[g] = "none" /\ \A h \in Loops : h < g => pc[h] # "none"
    /\ running' = TRUE /\ owner' = g
    /\ pc' = [pc EXCEPT ![g] = "first"]
    /\ ctx' = [ctx EXCEPT ![g] = parent]
    /\ due' = [due EXCEPT ![g] = now]
    /\ since' = [since EXCEPT ![g] = now]
    /\ UNCHANGED <<now, parent, lastRun, fires, late>>

\* Start does nothing while running is set.  A context derived from one that
\* has ended has ended too.
Start ==
  /\ ~running
  /\ \E g \in Loops :
       /\ pc[g] = "none" /\ \A h \in Loops : h < g => pc[h] # "none"
       /\ running' = TRUE /\ owner' = g
       /\ pc' = [pc EXCEPT ![g] = "first"]
       /\ ctx' = [ctx EXCEPT ![g] = parent]
       /\ due' = [due EXCEPT ![g] = now]
       /\ since' = [since EXCEPT ![g] = now]
  /\ UNCHANGED <<now, parent, lastRun, fires, late>>

\* The contexts of the loops in S end now.
End(S) ==
  LET ended == {g \in S : ctx[g] = "live"} IN
  /\ ctx' = [g \in Loops |-> IF g \in ended THEN "done" ELSE ctx[g]]
  /\ since' = [g \in Loops |-> IF g \in ended THEN now ELSE since[g]]

Stop ==
  /\ running' = FALSE
  /\ End({owner} \cap Loops)
  /\ UNCHANGED <<now, parent, owner, loopVars>>

\* The caller's context ends (SIGINT or SIGTERM in the daemon).
ParentEnds ==
  /\ parent = "live"
  /\ parent' = "done"
  /\ End(Loops)
  /\ UNCHANGED <<now, running, owner, loopVars>>

\* checkJobs in loop g; nextDue is when the ticker fires again.
Check(g, nextDue) ==
  LET r == CheckJobs(lastRun[g], now) IN
  /\ lastRun' = [lastRun EXCEPT ![g] = r.last]
  /\ fires' = fires \cup {[loop |-> g, job |-> j, at |-> now] : j \in r.fired}
  /\ due' = [due EXCEPT ![g] = nextDue]
  /\ late' = [late EXCEPT ![g] = IF ctx[g] = "done" THEN @ + 1 ELSE @]
  /\ UNCHANGED <<now, parent, running, owner, ctx, since>>

\* Mutant: the ticker ticks at once as well.
FirstCheck_TickAtOnce(g) ==
  /\ pc[g] = "first"
  /\ pc' = [pc EXCEPT ![g] = "wait"]
  /\ Check(g, now)

\* The loop begins: it checks at once, whatever its context says.
FirstCheck(g) ==
  /\ pc[g] = "first"
  /\ pc' = [pc EXCEPT ![g] = "wait"]
  /\ Check(g, now + Period)

\* A tick.  select may take it although the context has ended as well.
TickCheck(g) ==
  /\ pc[g] = "wait" /\ due[g] <= now
  /\ UNCHANGED pc
  /\ Check(g, due[g] + Period)

\* select sees the end of the context.
LoopExit(g) ==
  /\ pc[g] = "wait" /\ ctx[g] = "done"
  /\ pc' = [pc EXCEPT ![g] = "gone"]
  /\ UNCHANGED <<now, parent, running, owner, ctx, due, since, lastRun, fires, late>>

\* Time passes, but no loop that can run is kept waiting beyond MaxDelay.
Advance ==
  /\ now < MaxTime
  /\ \A g \in Loops :
       /\ pc[g] \in {"first", "wait"} => now < due[g] + MaxDelay
       /\ pc[g] = "wait" /\ ctx[g] = "done" => now < since[g] + MaxDelay
  /\ now' = now + 1
  /\ UNCHANGED <<parent, running, owner, pc, ctx, due, since, lastRun, fires, late>>

Next ==
  \/ Start \/ Stop \/ ParentEnds \/ Advance
  \/ \E g \in Loops : FirstCheck(g) \/ TickCheck(g) \/ LoopExit(g)

Spec == Init /\ [][Next]_vars

-----------------------------------------------------------------------------
EnabledJobs == {Jobs[k] : k \in {i \in DOMAIN Jobs : Jobs[i].enabled}}

\* TypeOK: the types of the variables; only enabled jobs are ever run.
TypeOK ==
  /\ now \in 0 .. MaxTime
  /\ parent \in {"live", "done"}
  /\ running \in BOOLEAN
  /\ owner \in 0 .. MaxStarts
  /\ pc \in [Loops -> {"none", "first", "wait", "gone"}]
  /\ ctx \in [Loops -> {"live", "done"}]
  /\ due \in [Loops -> Nat] /\ since \in [Loops -> Nat]
  /\ lastRun \in [Loops -> [Names -> Nat \cup {Never}]]
  /\ fires \subseteq [loop : Loops, at : 0 .. MaxTime, job : EnabledJobs]
  /\ late \in [Loops -> Nat]

\* A stopped scheduler has no loop that could go on: no sequence of Start and
\* Stop loses the cancel function of a loop whose context is live, and two
\* loops never go on side by side.  Until the caller's context ends, Running
\* is true only if there is such a loop.
StopReachesEveryLoop ==
  /\ \A g \in Loops : ctx[g] = "live" => running /\ owner = g
  /\ running /\ parent = "live" => \E g \in Loops : ctx[g] = "live"

\* After its context has ended a loop makes one more check at most, also when
\* a tick or its start and the end come together.
OneLateCheck == \A g \in Loops : late[g] <= 1

\* In one loop a cron job fires at most once in a minute, however its two
\* checks per minute are delayed.
OncePerMinute ==
  \A f \in {e \in fires : e.job.sched.kind = "cron"} :
    \A h \in {e \in fires : e.loop = f.loop /\ e.job = f.job} :
      f.at \div Minute = h.at \div Minute => f = h

\* The job shares its name, and so its lastRun entry, with no other.
Unshared(k) == \A i \in DOMAIN Jobs \ {k} : Jobs[i].name # Jobs[k].name

\* Per job, the minutes its expression stands for in standard cron.
Written ==
  [job \in {Jobs[k] : k \in DOMAIN Jobs} |->
    {m \in DOMAIN WallClock : job.sched.kind = "cron" /\ Says(job.sched.expr, WallClock[m])}]

\* A cron job fires only in minutes its expression stands for: ranges, steps,
\* lists and both names of Sunday, also across midnight and a month's end.
FiresAsWritten ==
  \A f \in fires :
    f.job.sched.kind = "cron" => f.at \div Minute \in Written[f.job]

\* Every loop whose context was live for a whole minute that the job stands
\* for has fired it in that minute.
FiresWhenWritten(k) ==
  \A g \in Loops, m \in Written[Jobs[k]] :
    (/\ ctx[g] = "live" /\ since[g] <= m * Minute /\ (m + 1) * Minute <= now)
      => \E f \in fires : f.loop = g /\ f.job = Jobs[k] /\ f.at \div Minute = m

\* The jobs whose runs do not depend on another's.
Alone == {k \in DOMAIN Jobs : Jobs[k].enabled /\ Unshared(k)}

\* Every enabled cron job fires in every minute its expression stands for, in
\* every loop that was live for the whole minute.  An expression that
\* restricts both days is left to StandardCron.
NoMinuteMissed ==
  \A k \in Alone : ~EitherDay(Jobs[k].sched.expr) => FiresWhenWritten(k)

\* "Supports standard 5-field cron" (cron.go:2): the same for all of them.
StandardCron == \A k \in Alone : FiresWhenWritten(k)

\* The interval jobs that run, and share their names with no other.
IntervalJobs ==
  {Jobs[k] : k \in {i \in DOMAIN Jobs :
                      Jobs[i].enabled /\ Jobs[i].sched.kind = "every" /\ Unshared(i)}}

\* A negative interval is always over.
Interval(sched) == IF sched.n < 0 THEN 0 ELSE sched.n

\* Between two runs of an interval job lies its interval, and not more than a
\* tick and a delay beyond it.
IntervalsKept ==
  \A g \in Loops, job \in IntervalJobs :
    LET last == lastRun[g][job.name] IN
    last # Never =>
      /\ ctx[g] = "live" => now - last <= Interval(job.sched) + Period + MaxDelay
      /\ \A f \in fires : f.loop = g /\ f.at # last /\ f.job = job
                            => last - f.at >= Interval(job.sched)
=============================================================================
