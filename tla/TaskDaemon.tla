------------------------------ MODULE TaskDaemon ------------------------------
(***************************************************************************)
(* The task queue as it is used: daemons (poller and workers; nothing      *)
(* keeps a user from starting a second one) and `teeny task ...` commands  *)
(* are separate operating system processes that share one tasks.json.      *)
(* Each loads the file once, when it starts, and rewrites the whole file   *)
(* after every change; nothing is ever reloaded.                           *)
(*                                                                         *)
(* A method of TaskQueue holds the queue's mutex from its change to the    *)
(* end of its save, so within one process the change and the save are one  *)
(* unit, but the save is two visible steps for everybody else: the file is *)
(* truncated, then written.                                                *)
(***************************************************************************)
EXTENDS TaskQueue, FiniteSets

CONSTANTS
  Daemons,   \* slots for processes that run `teeny daemon`
  Clis,      \* slots for processes that run one `teeny task` command each
  MaxAdds,   \* bound on the number of submissions
  Faults     \* may a save fail, or a process end in the middle of one?

ASSUME ProcsAssumption  == Daemons \cap Clis = {}
ASSUME BoundAssumption  == MaxAdds \in Nat
ASSUME FlagsAssumption  == Faults \in BOOLEAN

Procs   == Clis \cup Daemons
Prompts == 1 .. MaxAdds

\* What Add, Cancel or ClaimNext will return when the save is over.
Receipts  == [op : {"add", "cancel", "claim"}, id : Nat, prompt : Nat]
NoReceipt == [op |-> "none", id |-> 0, prompt |-> 0]

VARIABLES
  file,      \* tasks.json: [kind, store]; the store counts if kind is "json"
  live,      \* the processes that run
  queue,     \* each process's TaskQueue
  saving,    \* "idle", or how far the save is: "open" before, "write" after
             \* the file is truncated
  workers,   \* per daemon, the IDs it claimed and has not reported
  receipt,   \* per process, what it changed and is saving
  adds,      \* submissions so far; names the prompts
  acked,     \* history: receipts of commands that exited successfully
  claimed,   \* history: prompts handed to a worker ...
  reclaimed, \* ... and those handed out more than once
  behind,    \* history: the processes whose list is older than the file,
             \* because another one has begun to rewrite it since
  disturbed  \* history: a process that was behind has saved its list all
             \* the same, or a save was not completed

history == <<acked, claimed, reclaimed, behind, disturbed>>
vars == <<file, live, queue, saving, workers, receipt, adds, history>>

Files == [kind : {"empty", "json", "garbage"}, store : Store]
Unreadable(kind) == [kind |-> kind, store |-> EmptyStore]
Json(s) == [kind |-> "json", store |-> s]

\* NewTaskQueue: what a process starting now finds.  A file that does not
\* parse is treated as no file at all.
Loaded == IF file.kind = "json" THEN LoadStore(file.store) ELSE EmptyStore

Idle(p) == p \in live /\ saving[p] = "idle"

-----------------------------------------------------------------------------
Init ==
  /\ file = Unreadable("empty")
  /\ live = {}
  /\ queue = [p \in Procs |-> EmptyStore]
  /\ saving = [p \in Procs |-> "idle"]
  /\ workers = [d \in Daemons |-> {}]
  /\ receipt = [p \in Procs |-> NoReceipt]
  /\ adds = 0
  /\ acked = {} /\ claimed = {} /\ reclaimed = {}
  /\ behind = {} /\ disturbed = FALSE

\* The process that has truncated the file and not yet written it.
Writers == {p \in live : saving[p] = "write"}

Start(p) ==
  /\ p \notin live
  /\ live' = live \cup {p}
  /\ queue' = [queue EXCEPT ![p] = Loaded]
  /\ behind' = IF Writers = {} THEN behind ELSE behind \cup {p}
  /\ UNCHANGED <<file, saving, workers, receipt, adds, acked, claimed, reclaimed, disturbed>>

\* A method of p changes its list to s and enters save.
Change(p, s) ==
  /\ queue' = [queue EXCEPT ![p] = s]
  /\ saving' = [saving EXCEPT ![p] = "open"]
  /\ UNCHANGED <<file, live>>

\* `teeny task add`
Add(c) ==
  /\ Idle(c)
  /\ adds < MaxAdds
  /\ adds' = adds + 1
  /\ Change(c, AddTask(queue[c], adds'))
  /\ receipt' = [receipt EXCEPT ![c] = [op |-> "add", id |-> queue[c].nextID,
                                        prompt |-> adds']]
  /\ UNCHANGED <<workers, history>>

\* `teeny task cancel <id>`; a refused cancel only exits: see Exit.
Cancel(c) ==
  /\ Idle(c)
  /\ \E i \in DOMAIN queue[c].tasks :
       LET t == queue[c].tasks[i] IN
       /\ IsFirst(At(queue[c], t.id), i)
       /\ Cancelable(t)
       /\ Change(c, SetStatus(queue[c], i, Canceled))
       /\ receipt' = [receipt EXCEPT ![c] = [op |-> "cancel", id |-> t.id,
                                             prompt |-> t.prompt]]
  /\ UNCHANGED <<workers, adds, history>>

\* Mutant: the poller re-reads the file before it claims.
Poll_Reload(d) ==
  /\ Idle(d)
  /\ \E i \in DOMAIN Loaded.tasks :
       LET t == Loaded.tasks[i] IN
       /\ ClaimAt(Loaded, i)
       /\ Change(d, SetStatus(Loaded, i, Running))
       /\ workers' = [workers EXCEPT ![d] = @ \cup {t.id}]
  /\ UNCHANGED <<receipt, adds, history>>

\* Mutant: the poller waits for its worker before it claims again.
Poll_OneWorker(d) ==
  /\ Idle(d) /\ workers[d] = {}
  /\ \E i \in DOMAIN queue[d].tasks :
       LET t == queue[d].tasks[i] IN
       /\ ClaimAt(queue[d], i)
       /\ Change(d, SetStatus(queue[d], i, Running))
       /\ workers' = [workers EXCEPT ![d] = {t.id}]
  /\ UNCHANGED <<receipt, adds, history>>

\* The poller claims on a tick, to start a worker once ClaimNext returns;
\* there is no limit on the workers.
Poll(d) ==
  /\ Idle(d)
  /\ \E i \in DOMAIN queue[d].tasks :
       LET t == queue[d].tasks[i] IN
       /\ ClaimAt(queue[d], i)
       /\ Change(d, SetStatus(queue[d], i, Running))
       /\ workers' = [workers EXCEPT ![d] = @ \cup {t.id}]
       /\ receipt' = [receipt EXCEPT ![d] = [op |-> "claim", id |-> t.id,
                                             prompt |-> t.prompt]]
  /\ UNCHANGED <<adds, history>>

\* A worker's agent run ended: Complete or Fail.  Neither looks at the
\* present status of the task.
Report(d, id, outcome) ==
  /\ Idle(d)
  /\ id \in workers[d]
  /\ \E i \in DOMAIN queue[d].tasks :
       /\ IsFirst(At(queue[d], id), i)
       /\ Change(d, SetStatus(queue[d], i, outcome))
  /\ workers' = [workers EXCEPT ![d] = @ \ {id}]
  /\ UNCHANGED <<receipt, adds, history>>

-----------------------------------------------------------------------------
\* Mutant: the file is opened without O_TRUNC and written from its start.
Truncate_KeepsContent(p) ==
  /\ p \in live /\ saving[p] = "open"
  /\ saving' = [saving EXCEPT ![p] = "write"]
  /\ behind' = live \ {p}
  /\ disturbed' = (disturbed \/ p \in behind)
  /\ UNCHANGED <<file, live, queue, workers, receipt, adds, acked, claimed, reclaimed>>

\* os.WriteFile, first half: open with O_TRUNC.
Truncate(p) ==
  /\ p \in live /\ saving[p] = "open"
  /\ saving' = [saving EXCEPT ![p] = "write"]
  /\ file' = Unreadable("empty")
  /\ behind' = live \ {p}
  /\ disturbed' = (disturbed \/ p \in behind)
  /\ UNCHANGED <<live, queue, workers, receipt, adds, acked, claimed, reclaimed>>

\* What ClaimNext, returning, hands to a new worker of p.
Handed(p) == IF receipt[p].op = "claim" THEN {receipt[p].prompt} ELSE {}

\* save returns.  A daemon goes on; a command prints its result and exits,
\* whether or not the save succeeded: save's error is dropped.
Return(p) ==
  /\ saving' = [saving EXCEPT ![p] = "idle"]
  /\ receipt' = [receipt EXCEPT ![p] = NoReceipt]
  /\ claimed' = claimed \cup Handed(p)
  /\ reclaimed' = reclaimed \cup (Handed(p) \cap claimed)
  /\ IF p \in Daemons
     THEN UNCHANGED <<live, queue, acked, behind>>
     ELSE /\ live' = live \ {p} /\ behind' = behind \ {p}
          /\ queue' = [queue EXCEPT ![p] = EmptyStore]
          /\ acked' = acked \cup {receipt[p]}
  /\ UNCHANGED <<workers, adds>>

\* os.WriteFile, second half.  If another process wrote in between, a shorter
\* text leaves the tail of the longer one behind it.
Write(p) ==
  /\ p \in live /\ saving[p] = "write"
  /\ \/ file' = Json(queue[p])
     \/ file.kind # "empty" /\ file' = Unreadable("garbage")
  /\ UNCHANGED disturbed
  /\ Return(p)

\* The file cannot be opened, or the write fails part of the way.
SaveError(p) ==
  /\ Faults
  /\ p \in live /\ saving[p] # "idle"
  /\ \/ saving[p] = "open" /\ UNCHANGED file
     \/ saving[p] = "write" /\ file' = Unreadable("garbage")
  /\ disturbed' = TRUE
  /\ Return(p)

\* A process ends: a command with nothing to save (list, logs, a refused
\* cancel), a signal or a crash.  Workers end with their daemon.
Exit(p) ==
  /\ p \in live
  /\ saving[p] # "idle" => Faults
  /\ live' = live \ {p} /\ behind' = behind \ {p}
  /\ disturbed' = (disturbed \/ saving[p] = "write")
  /\ queue' = [queue EXCEPT ![p] = EmptyStore]
  /\ saving' = [saving EXCEPT ![p] = "idle"]
  /\ receipt' = [receipt EXCEPT ![p] = NoReceipt]
  /\ workers' = [d \in Daemons |-> IF d = p THEN {} ELSE workers[d]]
  /\ UNCHANGED <<file, adds, acked, claimed, reclaimed>>

Next ==
  \/ \E p \in Procs : Start(p) \/ Truncate(p) \/ Write(p) \/ SaveError(p) \/ Exit(p)
  \/ \E c \in Clis : Add(c) \/ Cancel(c)
  \/ \E d \in Daemons :
       \/ Poll(d)
       \/ \E id \in workers[d], outcome \in {Done, Failed} : Report(d, id, outcome)

Spec == Init /\ [][Next]_vars

(***************************************************************************)
(* The ticker of a poller never stops while its daemon lives, and a save   *)
(* that began goes on.  Nothing is assumed of workers: an agent run has no *)
(* deadline, neither its context nor the HTTP client carries one.          *)
(***************************************************************************)
Fairness ==
  \A d \in Daemons : WF_vars(Poll(d)) /\ WF_vars(Truncate(d) \/ Write(d))

FairSpec == Spec /\ Fairness

-----------------------------------------------------------------------------
\* TypeOK: the types of the variables.
TypeOK ==
  /\ file \in Files
  /\ live \subseteq Procs
  /\ queue \in [Procs -> Store]
  /\ saving \in [Procs -> {"idle", "open", "write"}]
  /\ workers \in [Daemons -> SUBSET Nat]
  /\ receipt \in [Procs -> Receipts \cup {NoReceipt}]
  /\ adds \in 0 .. MaxAdds
  /\ acked \subseteq Receipts \cup {NoReceipt}
  /\ claimed \subseteq Nat /\ reclaimed \subseteq Nat
  /\ behind \subseteq live /\ disturbed \in BOOLEAN

\* A store is well formed if its IDs are its positions and the next is fresh.
WellFormed(s) ==
  /\ \A i \in DOMAIN s.tasks : s.tasks[i].id = i
  /\ s.nextID = Len(s.tasks) + 1

\* IDs stay unique and fresh in the file and in every process, whatever
\* stale copy a process loaded, overwrote or lost (Add trusts next_id alone).
IdsAreUnique ==
  WellFormed(file.store) /\ \A p \in Procs : WellFormed(queue[p])

\* No task that was handed out stands behind one that still waits.
InOrder(s) ==
  \A i, j \in DOMAIN s.tasks :
    i < j /\ s.tasks[i].status = Pending
      => s.tasks[j].status \in {Pending, Canceled}

\* First come, first claimed, in every copy of the list (ClaimNext scans in
\* order; stale copies and cancels do not disturb it).
ClaimsInOrder == InOrder(file.store) /\ \A p \in Procs : InOrder(queue[p])

\* Every worker works on a task that is "running" for its daemon, so Complete
\* and Fail, which check nothing, never overwrite an outcome or a cancel.
WorkersOwnTheirTasks ==
  \A d \in Daemons : \A id \in workers[d] : \E i \in DOMAIN queue[d].tasks :
    IsFirst(At(queue[d], id), i) /\ queue[d].tasks[i].status = Running

\* The list new has every task of old; what was started is not waiting again
\* and what has ended stays as it is.
Remembers(old, new) ==
  \A i \in DOMAIN old :
    /\ i \in DOMAIN new
    /\ new[i].id = old[i].id /\ new[i].prompt = old[i].prompt
    /\ old[i].status \notin {Pending, Running} => new[i] = old[i]
    /\ new[i].status = Pending => old[i].status = Pending

\* While a daemon lives it forgets no task, no outcome it recorded changes,
\* and no task it started goes back to waiting (a daemon never reloads).
DaemonNeverForgets ==
  [][\A d \in live \cap live' \cap Daemons :
       Remembers(queue[d].tasks, queue'[d].tasks)]_vars

\* Unless it is just being written, the file shows what every command that
\* reported success did: the task it added, or the cancel it made.
AckedCommandsHold ==
  Writers = {} =>
    \A r \in acked : \E i \in DOMAIN Loaded.tasks :
      LET t == Loaded.tasks[i] IN
      /\ t.id = r.id /\ t.prompt = r.prompt
      /\ r.op = "cancel" => t.status = Canceled

\* Processes that overlap, start and die as they like do no harm by that: an
\* acknowledged command is lost only once a process has saved a list older
\* than the file, or a save was not completed (save looks at neither).
LostOnlyByStaleSaves == ~disturbed => AckedCommandsHold

\* The same for executions: until then a submission is handed to a worker at
\* most once, by all daemons and all restarts of them together.
AtMostOnce == ~disturbed => reclaimed = {}

\* The list that counts: what the file holds, or is about to hold.
Authority == IF Writers = {} THEN Loaded ELSE queue[CHOOSE p \in Writers : TRUE]

LedgerOf(s) ==
  [i \in DOMAIN s.tasks |-> [prompt |-> s.tasks[i].prompt, status |-> s.tasks[i].status]]

Ledger == INSTANCE TaskLedger WITH ledger <- LedgerOf(Authority)

\* Until then, too, the file goes through the steps of the append-only ledger
\* and no others, with one exception: the code lets a failed task be canceled
\* (taskqueue.go:155), which the comment of Cancel denies.
ImplementsLedger ==
  /\ Ledger!Init
  /\ [][~disturbed' =>
          \/ Ledger!Next
          \/ \E i \in DOMAIN Authority.tasks : Ledger!Overturn(i)
          \/ UNCHANGED LedgerOf(Authority)]_vars

Waiting(d, i) ==
  /\ d \in live
  /\ i \in DOMAIN queue[d].tasks
  /\ queue[d].tasks[i].status = Pending

\* A task that waits in a daemon's list is claimed unless the daemon ends,
\* however many workers hang and whatever other processes do to the file.
NoStarvation == \A d \in Daemons, i \in Prompts : Waiting(d, i) ~> ~Waiting(d, i)
=============================================================================
