---------------------------- MODULE ProcessManager ----------------------------
(***************************************************************************)
(* internal/process/manager.go: sessions, each an operating system process *)
(* with a deadline, a context and a goroutine that captures its output,    *)
(* reaps it and records a verdict.                                         *)
(*                                                                         *)
(* Spawn holds the manager's lock from the count of running sessions to    *)
(* its return, so it is one step; a session is never removed, so its ID is *)
(* used once.  Kill, the goroutine and Wait synchronise on the session's   *)
(* own lock, one critical section per action here.  What os/exec and the   *)
(* kernel do (exit, signal, end of file) are actions marked external.      *)
(***************************************************************************)
EXTENDS Integers, FiniteSets

CONSTANTS
  Ids,           \* session IDs that callers use
  MaxConcurrent  \* the manager's limit on running sessions

ASSUME IdsAssumption == IsFiniteSet(Ids)
ASSUME MaxAssumption == MaxConcurrent \in Nat \ {0}

VARIABLES
  status,   \* "absent" before Spawn, then Session.Status
  child,    \* the process: "none", "alive", "ok" or "bad" once it has exited
  holds,    \* does a descendant keep the output pipes open?
  ctx,      \* procCtx: "none", "live", "canceled", "expired"
  gor,      \* the goroutine: "none", "capture", "reap", "report", "end"
  err,      \* did cmd.Wait return an error?
  killed,   \* history: sessions for which Kill succeeded
  seen      \* history: the status with which Wait first returned, or "none"

vars == <<status, child, holds, ctx, gor, err, killed, seen>>

\* The sessions Spawn counts against the limit.
RunningIds == {s \in Ids : status[s] = "running"}

Init ==
  /\ status = [s \in Ids |-> "absent"]
  /\ child = [s \in Ids |-> "none"]
  /\ holds = [s \in Ids |-> FALSE]
  /\ ctx = [s \in Ids |-> "none"]
  /\ gor = [s \in Ids |-> "none"]
  /\ err = [s \in Ids |-> FALSE]
  /\ killed = {}
  /\ seen = [s \in Ids |-> "none"]

-----------------------------------------------------------------------------
\* Mutant: the limit is compared with <= instead of <.
Admits_OneMore(s) ==
  /\ Cardinality(RunningIds) <= MaxConcurrent
  /\ status[s] = "absent"

\* Neither the limit nor the ID stands in the way.
Admits(s) ==
  /\ Cardinality(RunningIds) < MaxConcurrent
  /\ status[s] = "absent"

\* Mutant: exec.Command in place of exec.CommandContext: nothing kills the process.
Spawn_NoContext(s) ==
  /\ Admits(s)
  /\ status' = [status EXCEPT ![s] = "running"]
  /\ child' = [child EXCEPT ![s] = "alive"]
  /\ gor' = [gor EXCEPT ![s] = "capture"]
  /\ UNCHANGED <<holds, ctx, err, killed, seen>>

Spawn(s) ==
  /\ Admits(s)
  /\ status' = [status EXCEPT ![s] = "running"]
  /\ child' = [child EXCEPT ![s] = "alive"]
  /\ ctx' = [ctx EXCEPT ![s] = "live"]
  /\ gor' = [gor EXCEPT ![s] = "capture"]
  /\ UNCHANGED <<holds, err, killed, seen>>

\* cmd.Start fails: no such binary, or the context is done already.
SpawnStartFails(s) ==
  /\ Admits(s)
  /\ status' = [status EXCEPT ![s] = "failed"]
  /\ ctx' = [ctx EXCEPT ![s] = "canceled"]
  /\ UNCHANGED <<child, holds, gor, err, killed, seen>>

\* A pipe cannot be made: the caller gets an error, but the session is in the
\* map already and stays "running" with no goroutine behind it.
SpawnPipeFails(s) ==
  /\ Admits(s)
  /\ status' = [status EXCEPT ![s] = "running"]
  /\ ctx' = [ctx EXCEPT ![s] = "canceled"]
  /\ UNCHANGED <<child, holds, gor, err, killed, seen>>

\* Kill cancels the context and records "killed"; it waits for nothing.
Kill(s) ==
  /\ status[s] = "running"
  /\ status' = [status EXCEPT ![s] = "killed"]
  /\ ctx' = [ctx EXCEPT ![s] = IF @ = "live" THEN "canceled" ELSE @]
  /\ killed' = killed \cup {s}
  /\ UNCHANGED <<child, holds, gor, err, seen>>

\* Mutant: wait looks once and does not poll.
WaitReturns_NoPoll(s) ==
  /\ status[s] # "absent"
  /\ seen[s] = "none"
  /\ seen' = [seen EXCEPT ![s] = status[s]]
  /\ UNCHANGED <<status, child, holds, ctx, gor, err, killed>>

\* Wait polls; only the first return for a session is remembered.
WaitReturns(s) ==
  /\ status[s] \notin {"absent", "running"}
  /\ seen[s] = "none"
  /\ seen' = [seen EXCEPT ![s] = status[s]]
  /\ UNCHANGED <<status, child, holds, ctx, gor, err, killed>>

-----------------------------------------------------------------------------
\* Both readers returned: end of file, or a line beyond the scanner's buffer
\* while the process is still writing.
CaptureDone(s) ==
  /\ gor[s] = "capture"
  /\ gor' = [gor EXCEPT ![s] = "reap"]
  /\ UNCHANGED <<status, child, holds, ctx, err, killed, seen>>

AtEOF(s) == child[s] # "alive" /\ ~holds[s]

\* Mutant: the end of the output is taken for the end of the process.
Reap_AtEOF(s) ==
  /\ gor[s] = "reap"
  /\ gor' = [gor EXCEPT ![s] = "report"]
  /\ UNCHANGED <<status, child, holds, ctx, err, killed, seen>>

\* cmd.Wait returns only when the process has exited.  A clean exit yields an
\* error nonetheless if the context ended before Wait noticed the exit.
Reap(s) ==
  /\ gor[s] = "reap"
  /\ child[s] # "alive"
  /\ gor' = [gor EXCEPT ![s] = "report"]
  /\ \E e \in BOOLEAN :
       /\ child[s] = "bad" => e
       /\ child[s] = "ok" /\ ctx[s] = "live" => ~e
       /\ err' = [err EXCEPT ![s] = e]
  /\ UNCHANGED <<status, child, holds, ctx, killed, seen>>

Verdict(s) ==
  IF ctx[s] = "expired" THEN "timed_out" ELSE IF err[s] THEN "failed" ELSE "done"

\* The verdict does not look at the status it overwrites, "killed" included.
Report(s) ==
  /\ gor[s] = "report"
  /\ status' = [status EXCEPT ![s] = Verdict(s)]
  /\ ctx' = [ctx EXCEPT ![s] = IF @ = "live" THEN "canceled" ELSE @]
  /\ gor' = [gor EXCEPT ![s] = "end"]
  /\ UNCHANGED <<child, holds, err, killed, seen>>

-----------------------------------------------------------------------------
\* External: the process exits by itself and may leave a descendant behind
\* that holds its pipes.
ChildExits(s) ==
  /\ child[s] = "alive"
  /\ \E r \in {"ok", "bad"} : child' = [child EXCEPT ![s] = r]
  /\ \E h \in BOOLEAN : holds' = [holds EXCEPT ![s] = h]
  /\ UNCHANGED <<status, ctx, gor, err, killed, seen>>

\* External: os/exec kills the process, not its descendants, when the context
\* ends.
KillByContext(s) ==
  /\ child[s] = "alive" /\ ctx[s] \in {"canceled", "expired"}
  /\ child' = [child EXCEPT ![s] = "bad"]
  /\ \E h \in BOOLEAN : holds' = [holds EXCEPT ![s] = h]
  /\ UNCHANGED <<status, ctx, gor, err, killed, seen>>

\* External: the last descendant with the pipes exits.
HolderExits(s) ==
  /\ holds[s]
  /\ holds' = [holds EXCEPT ![s] = FALSE]
  /\ UNCHANGED <<status, child, ctx, gor, err, killed, seen>>

\* External: the deadline passes, or the caller cancels the parent context.
ContextEnds(s, how) ==
  /\ ctx[s] = "live"
  /\ ctx' = [ctx EXCEPT ![s] = how]
  /\ UNCHANGED <<status, child, holds, gor, err, killed, seen>>

Next ==
  \E s \in Ids :
    \/ Spawn(s) \/ SpawnStartFails(s) \/ SpawnPipeFails(s)
    \/ Kill(s) \/ WaitReturns(s)
    \/ CaptureDone(s) \/ Reap(s) \/ Report(s)
    \/ ChildExits(s) \/ KillByContext(s) \/ HolderExits(s)
    \/ \E how \in {"canceled", "expired"} : ContextEnds(s, how)

Spec == Init /\ [][Next]_vars

(***************************************************************************)
(* The goroutine runs when it can, a deadline passes, and os/exec acts on  *)
(* an ended context.  No process, and no descendant, has to exit.          *)
(***************************************************************************)
Fairness ==
  \A s \in Ids :
    /\ WF_vars(CaptureDone(s) /\ AtEOF(s))
    /\ WF_vars(Reap(s)) /\ WF_vars(Report(s))
    /\ WF_vars(KillByContext(s)) /\ WF_vars(ContextEnds(s, "expired"))

FairSpec == Spec /\ Fairness

-----------------------------------------------------------------------------
\* TypeOK: the types of the variables.
TypeOK ==
  /\ status \in [Ids -> {"absent", "running", "killed", "done", "failed", "timed_out"}]
  /\ child \in [Ids -> {"none", "alive", "ok", "bad"}]
  /\ holds \in [Ids -> BOOLEAN]
  /\ ctx \in [Ids -> {"none", "live", "canceled", "expired"}]
  /\ gor \in [Ids -> {"none", "capture", "reap", "report", "end"}]
  /\ err \in [Ids -> BOOLEAN]
  /\ killed \subseteq Ids
  /\ seen \in [Ids -> {"none", "killed", "done", "failed", "timed_out"}]

\* The limit bounds real processes, not only records: more than MaxConcurrent
\* of them live only if the ones too many have been killed and not died yet.
ProcessesBounded ==
  Cardinality({s \in Ids : child[s] = "alive" /\ s \notin killed}) <= MaxConcurrent

\* A verdict is never better than the fate of the process, and never given
\* while the process lives; "timed_out" needs a passed deadline, "failed" a
\* bad exit, an ended context or a process that never started.
VerdictsMatchFates ==
  \A s \in Ids :
    /\ status[s] = "done" => child[s] = "ok"
    /\ status[s] = "timed_out" => ctx[s] = "expired" /\ child[s] \in {"ok", "bad"}
    /\ status[s] = "failed" =>
         child[s] \in {"none", "bad"} \/ (child[s] = "ok" /\ ctx[s] = "canceled")
    /\ status[s] = "killed" => s \in killed /\ gor[s] # "end"

\* What Wait reported of a session that nobody killed is the last word on it,
\* and its process is gone ("Wait blocks until a session completes").
WaitIsFinalUnlessKilled ==
  \A s \in Ids \ killed :
    seen[s] # "none" => status[s] = seen[s] /\ child[s] # "alive"

\* No process outlives its deadline, whoever waits and whatever blocks.
ProcessesEnd == \A s \in Ids : child[s] = "alive" ~> child[s] # "alive"

\* Every session that started gets its verdict and frees its slot, unless a
\* descendant keeps the pipes open for ever (cmd.WaitDelay is not set).
SessionsEnd ==
  \A s \in Ids : []<>~holds[s] => (gor[s] = "capture" ~> gor[s] = "end")
=============================================================================
