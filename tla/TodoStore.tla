------------------------------- MODULE TodoStore -------------------------------
(***************************************************************************)
(* The in-process todo-mgmt tools of pkg/toolreg/todo_internal.go.  Every  *)
(* call loads todos.json, changes its copy and writes the file again; the  *)
(* agents that call them (scheduled jobs, queued tasks, a chat) run side   *)
(* by side and nothing serialises their calls.                             *)
(*                                                                         *)
(* Abstracted: summaries, note texts and time stamps.  A random ID is a    *)
(* fresh number.  An ID argument either names one item, exactly or by a    *)
(* unique prefix, or the call fails and changes nothing; list and next     *)
(* change nothing either, and NextTodo is what next answers.               *)
(***************************************************************************)
EXTENDS Integers, Sequences

CONSTANTS
  Agents,    \* the agents that call the tools
  MaxAdds,   \* bound on the items ever added
  Faults     \* may a save fail or an agent die in the middle of it?

ASSUME AddsAssumption  == MaxAdds \in Nat
ASSUME FaultAssumption == Faults \in BOOLEAN

VARIABLES
  file,        \* todos.json: [kind, items]
  pc,          \* per agent: "idle", "open" (loaded and changed), "write"
  copy,        \* per agent: the items it will write
  call,        \* per agent: the call it is in
  adds,        \* items added so far; the last ID
  disturbed,   \* history: two calls have overlapped, or a save was hit
  ledger       \* history: what the successful calls say of each ID; kept
               \* as long as nothing was disturbed

vars == <<file, pc, copy, call, adds, disturbed, ledger>>

Ids   == 1 .. MaxAdds
Item  == [id : Nat, status : {"todo", "done", "skipped"}, position : Int]
Kinds == {"add", "done", "skipped", "note", "clear"}
NoCall == [kind |-> "none", id |-> 0]

Closed(item) == item.status \in {"done", "skipped"}

-----------------------------------------------------------------------------
\* Mutant: the position is the length of the list.
NextPosition_Length(items) == Len(items)

\* nextTodoPosition: one more than the largest among the open items.
NextPosition(items) ==
  LET open == {i \in DOMAIN items : items[i].status = "todo"} IN
  IF open = {} THEN 0
  ELSE (CHOOSE p \in {items[i].position : i \in open} :
          \A i \in open : items[i].position <= p) + 1

\* Mutant: the sort is by falling position.
NextTodo_Descending(items) ==
  LET open == {i \in DOMAIN items : items[i].status = "todo"} IN
  IF open = {} THEN 0
  ELSE items[CHOOSE i \in open :
               \A j \in open : items[i].position >= items[j].position].id

\* nextTodo: the first open item in a stable order by position; 0 for none.
NextTodo(items) ==
  LET open == {i \in DOMAIN items : items[i].status = "todo"} IN
  IF open = {} THEN 0
  ELSE items[CHOOSE i \in open : \A j \in open :
               \/ items[i].position < items[j].position
               \/ items[i].position = items[j].position /\ i <= j].id

\* Mutant: the status is left at its zero value.
AddItem_NoStatus(items, id) ==
  Append(items, [id |-> id, status |-> "", position |-> NextPosition(items)])

AddItem(items, id) ==
  Append(items, [id |-> id, status |-> "todo", position |-> NextPosition(items)])

\* setTodoStatus, whatever the status is now.
WithStatus(items, i, status) == [items EXCEPT ![i].status = status]

\* Mutant: only what is done is cleared.
Cleared_DoneOnly(items) == SelectSeq(items, LAMBDA t : t.status # "done")

\* todo-mgmt.clear keeps the open items in their order; kept[i] after i items.
Cleared(items) ==
  LET kept[i \in 0 .. Len(items)] ==
        IF i = 0 THEN <<>>
        ELSE IF Closed(items[i]) THEN kept[i - 1]
                                 ELSE Append(kept[i - 1], items[i])
  IN  kept[Len(items)]

-----------------------------------------------------------------------------
Init ==
  /\ file = [kind |-> "absent", items |-> <<>>]
  /\ pc = [a \in Agents |-> "idle"]
  /\ copy = [a \in Agents |-> <<>>]
  /\ call = [a \in Agents |-> NoCall]
  /\ adds = 0
  /\ ledger = [i \in Ids |-> "none"]
  /\ disturbed = FALSE

\* Unlike the task queue, a file that does not parse fails the call.
CanLoad == file.kind \in {"absent", "json"}

NoLedger == [i \in Ids |-> "none"]

\* Agent a has loaded the file and changed its copy to items.
Begin(a, kind, id, items) ==
  /\ pc[a] = "idle" /\ CanLoad
  /\ pc' = [pc EXCEPT ![a] = "open"]
  /\ copy' = [copy EXCEPT ![a] = items]
  /\ call' = [call EXCEPT ![a] = [kind |-> kind, id |-> id]]
  /\ disturbed' = (disturbed \/ \E b \in Agents : pc[b] # "idle")
  /\ ledger' = IF disturbed' THEN NoLedger ELSE ledger
  /\ UNCHANGED file

Add(a) ==
  /\ adds < MaxAdds
  /\ adds' = adds + 1
  /\ Begin(a, "add", adds', AddItem(file.items, adds'))

\* todo-mgmt.done and todo-mgmt.skip.
SetStatus(a, status) ==
  /\ \E i \in DOMAIN file.items :
       Begin(a, status, file.items[i].id, WithStatus(file.items, i, status))
  /\ UNCHANGED adds

\* todo-mgmt.note rewrites the file with what it has read of status and order.
Note(a) ==
  /\ \E i \in DOMAIN file.items : Begin(a, "note", file.items[i].id, file.items)
  /\ UNCHANGED adds

Clear(a) ==
  /\ Begin(a, "clear", 0, Cleared(file.items))
  /\ UNCHANGED adds

\* saveTodoStore, first half: os.WriteFile truncates the file.
Truncate(a) ==
  /\ pc[a] = "open"
  /\ pc' = [pc EXCEPT ![a] = "write"]
  /\ file' = [kind |-> "empty", items |-> <<>>]
  /\ UNCHANGED <<copy, call, adds, ledger, disturbed>>

Return(a) ==
  /\ pc' = [pc EXCEPT ![a] = "idle"]
  /\ copy' = [copy EXCEPT ![a] = <<>>]
  /\ call' = [call EXCEPT ![a] = NoCall]
  /\ UNCHANGED adds

\* What the caller may conclude from a call that succeeds.
Told(c) ==
  [i \in Ids |->
    CASE c.kind = "add" /\ i = c.id                  -> "todo"
      [] c.kind \in {"done", "skipped"} /\ i = c.id  -> c.kind
      [] c.kind = "clear" /\ ledger[i] \in {"done", "skipped"} -> "none"
      [] OTHER -> ledger[i]]

Record(c) == ledger' = IF disturbed THEN NoLedger ELSE Told(c)

\* Second half: the copy is written; after another agent's write in between,
\* the tail of a longer text may remain.
Write(a) ==
  /\ pc[a] = "write"
  /\ \/ file' = [kind |-> "json", items |-> copy[a]]
     \/ file.kind # "empty" /\ file' = [kind |-> "garbage", items |-> <<>>]
  /\ Record(call[a])
  /\ Return(a)
  /\ UNCHANGED disturbed

\* The save fails and the caller is told, or the agent's process dies.
SaveFails(a) ==
  /\ Faults /\ pc[a] # "idle"
  /\ \/ UNCHANGED file
     \/ pc[a] = "write" /\ file' = [kind |-> "garbage", items |-> <<>>]
  /\ disturbed' = TRUE /\ ledger' = NoLedger
  /\ Return(a)

Next ==
  \E a \in Agents :
    \/ Add(a) \/ Note(a) \/ Clear(a)
    \/ \E status \in {"done", "skipped"} : SetStatus(a, status)
    \/ Truncate(a) \/ Write(a) \/ SaveFails(a)

Spec == Init /\ [][Next]_vars

-----------------------------------------------------------------------------
\* Every copy of the list, on disk and in an agent.
Copies == {file.items} \cup {copy[a] : a \in Agents}

\* TypeOK: the types of the variables.
TypeOK ==
  /\ file \in [kind : {"absent", "json", "empty", "garbage"}, items : Seq(Item)]
  /\ pc \in [Agents -> {"idle", "open", "write"}]
  /\ copy \in [Agents -> Seq(Item)]
  /\ call \in [Agents -> [kind : Kinds, id : Nat] \cup {NoCall}]
  /\ adds \in 0 .. MaxAdds
  /\ ledger \in [Ids -> {"none", "todo", "done", "skipped"}]
  /\ disturbed \in BOOLEAN

\* Items stand in the order they were added, open ones with rising positions.
Ordered(items) ==
  /\ \A i, j \in DOMAIN items : i < j => items[i].id < items[j].id
  /\ \A i, j \in DOMAIN items :
       i < j /\ items[i].status = "todo" /\ items[j].status = "todo"
         => items[i].position < items[j].position

\* Positions are reused after items close, copies may be stale, and still no
\* copy of the list has an ID twice or two open items out of order.
AllOrdered == \A items \in Copies : Ordered(items)

\* todo-mgmt.next answers the open item that was added first.
NextIsOldest ==
  \A items \in Copies :
    LET open == {items[i].id : i \in {j \in DOMAIN items : items[j].status = "todo"}}
    IN  open # {} => /\ NextTodo(items) \in open
                     /\ \A id \in open : NextTodo(items) <= id

\* As long as no two calls overlap and no save is hit, the file says of every
\* item exactly what the successful calls told their callers.
SerialCallsExact ==
  ~disturbed /\ (\A a \in Agents : pc[a] = "idle") =>
    \A i \in Ids :
      IF ledger[i] = "none" THEN \A k \in DOMAIN file.items : file.items[k].id # i
      ELSE \E k \in DOMAIN file.items :
             file.items[k].id = i /\ file.items[k].status = ledger[i]
=============================================================================
