------------------------------ MODULE TaskQueue ------------------------------
(***************************************************************************)
(* The in-memory task list of internal/process/taskqueue.go as a value: a  *)
(* store is what one TaskQueue object holds and what one tasks.json file   *)
(* contains.  Every method of TaskQueue that changes the list is an        *)
(* operator from a store to a store; who holds which store, and when it    *)
(* reaches the disk, is the business of TaskDaemon.                        *)
(*                                                                         *)
(* Abstracted: the text of the prompt (a number that identifies the        *)
(* submission), output, error, working directory and time stamps.          *)
(***************************************************************************)
EXTENDS Integers, Sequences

Pending  == "pending"
Running  == "running"
Done     == "done"
Failed   == "failed"
Canceled == "canceled"

Statuses == {Pending, Running, Done, Failed, Canceled}

\* QueuedTask, and the taskStore that the JSON file holds.
Task  == [id : Nat, prompt : Nat, status : Statuses]
Store == [tasks : Seq(Task), nextID : Nat]

\* NewTaskQueue on a missing or unreadable file.
EmptyStore == [tasks |-> <<>>, nextID |-> 1]

\* load of a parsable file: a zero next_id is recomputed from the length.
LoadStore(s) ==
  IF s.nextID = 0 THEN [s EXCEPT !.nextID = Len(s.tasks) + 1] ELSE s

\* The positions that carry the ID.  Every method acts on the first.
At(s, id) == {i \in DOMAIN s.tasks : s.tasks[i].id = id}
IsFirst(S, i) == i \in S /\ \A j \in S : i <= j

-----------------------------------------------------------------------------
\* Mutant: the counter is not advanced: two tasks with one ID.
AddTask_NoIncrement(s, prompt) ==
  [s EXCEPT !.tasks = Append(@, [id |-> s.nextID, prompt |-> prompt,
                                 status |-> Pending])]

\* Mutant: the status field is left at its zero value.
AddTask_NoStatus(s, prompt) ==
  [tasks  |-> Append(s.tasks, [id |-> s.nextID, prompt |-> prompt,
                               status |-> ""]),
   nextID |-> s.nextID + 1]

\* Add: the new task takes the next ID and goes to the end.
AddTask(s, prompt) ==
  [tasks  |-> Append(s.tasks, [id |-> s.nextID, prompt |-> prompt,
                               status |-> Pending]),
   nextID |-> s.nextID + 1]

\* The status of one position changes, all else stays.
SetStatus(s, i, status) ==
  [tasks |-> [s.tasks EXCEPT ![i].status = status], nextID |-> s.nextID]

\* Mutant: the newest pending task is claimed.
ClaimAt_Newest(s, i) ==
  /\ i \in DOMAIN s.tasks /\ s.tasks[i].status = Pending
  /\ \A j \in DOMAIN s.tasks : j > i => s.tasks[j].status # Pending

\* Mutant: a task found running counts as claimable, as a recovery pass would have it.
ClaimAt_Requeue(s, i) ==
  LET waiting == {j \in DOMAIN s.tasks : s.tasks[j].status \in {Pending, Running}}
  IN  IsFirst(waiting, i)

\* ClaimNext scans the list in order and stops at the first pending task.
ClaimAt(s, i) ==
  IsFirst({j \in DOMAIN s.tasks : s.tasks[j].status = Pending}, i)

\* Mutant: only a task that already was canceled is refused.
Cancelable_Done(t) == t.status # Canceled

\* Cancel refuses what is done or canceled; it accepts a failed task.
Cancelable(t) == t.status \notin {Done, Canceled}
=============================================================================
