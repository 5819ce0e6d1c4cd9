-------------------------- MODULE TaskDaemon_proofs --------------------------
(***************************************************************************)
(* Safety of the task queue for every set of daemons and commands, however *)
(* they overlap, with failed saves and kills or without.                   *)
(*                                                                         *)
(* The inductive invariant is about one copy of the list at a time: Good   *)
(* says that its IDs are its positions and that claims went in order.  A   *)
(* copy is only ever loaded, changed by one method, or written, so each    *)
(* method has a lemma that it keeps Good.  Report needs one fact more, that *)
(* the position it changes is "running" (WorkersOwnTheirTasks), and that   *)
(* in turn needs that no worker outlives the daemon that started it.       *)
(***************************************************************************)
EXTENDS TaskDaemon, TLAPS

Good(s) == s \in Store /\ WellFormed(s) /\ InOrder(s)

IInv ==
  /\ TypeOK
  /\ Good(file.store)
  /\ \A p \in Procs : Good(queue[p])
  /\ WorkersOwnTheirTasks
  /\ \A d \in Daemons \ live : workers[d] = {}

-----------------------------------------------------------------------------
(* Lemmas about the operators of TaskQueue.                                *)

\* A new queue is good (NewTaskQueue without a readable file).
LEMMA EmptyGood == Good(EmptyStore)
  BY DEF Good, EmptyStore, Store, Task, WellFormed, InOrder

\* Loading a good file yields its store: the repair of next_id never acts.
LEMMA LoadGood ==
  ASSUME NEW s, Good(s)
  PROVE  LoadStore(s) = s
  <1>1. Len(s.tasks) \in Nat /\ s.nextID = Len(s.tasks) + 1
    BY DEF Good, WellFormed, Store
  <1> QED BY <1>1 DEF LoadStore

\* In a good store the first position with an ID is that ID.
LEMMA FirstIsId ==
  ASSUME NEW s, Good(s), NEW id, NEW i, IsFirst(At(s, id), i)
  PROVE  i = id /\ i \in DOMAIN s.tasks
  BY DEF Good, WellFormed, IsFirst, At

\* SetStatus changes the status at one position and nothing else.
LEMMA SetStatusValue ==
  ASSUME NEW s, s \in Store, NEW i \in DOMAIN s.tasks, NEW st \in Statuses
  PROVE  /\ SetStatus(s, i, st) \in Store
         /\ SetStatus(s, i, st).nextID = s.nextID
         /\ Len(SetStatus(s, i, st).tasks) = Len(s.tasks)
         /\ DOMAIN SetStatus(s, i, st).tasks = DOMAIN s.tasks
         /\ \A j \in DOMAIN s.tasks :
              /\ SetStatus(s, i, st).tasks[j].id = s.tasks[j].id
              /\ SetStatus(s, i, st).tasks[j].prompt = s.tasks[j].prompt
              /\ SetStatus(s, i, st).tasks[j].status =
                   IF j = i THEN st ELSE s.tasks[j].status
  <1> DEFINE t == [s.tasks EXCEPT ![i].status = st]
  <1>1. s.tasks \in Seq(Task) /\ s.nextID \in Nat
    BY DEF Store
  <1>2. SetStatus(s, i, st) = [tasks |-> t, nextID |-> s.nextID]
    BY DEF SetStatus
  <1>3. s.tasks[i] \in Task
    BY <1>1
  <1>4. [s.tasks[i] EXCEPT !.status = st] \in Task
    BY <1>3 DEF Task
  <1>5. t \in Seq(Task) /\ Len(t) = Len(s.tasks) /\ DOMAIN t = DOMAIN s.tasks
    BY <1>1, <1>4
  <1>6. ASSUME NEW j \in DOMAIN s.tasks
        PROVE  /\ t[j].id = s.tasks[j].id
               /\ t[j].prompt = s.tasks[j].prompt
               /\ t[j].status = IF j = i THEN st ELSE s.tasks[j].status
    <2>1. s.tasks[j] \in Task
      BY <1>1
    <2>2. CASE j = i
      BY <2>1, <2>2, <1>1 DEF Task
    <2>3. CASE j # i
      BY <2>3, <1>1
    <2> QED BY <2>2, <2>3
  <1> HIDE DEF t
  <1> QED BY <1>1, <1>2, <1>5, <1>6 DEF Store

\* A status change keeps the IDs; it keeps the order too unless it makes a
\* task pending, or starts one that waits behind another.
LEMMA SetStatusGood ==
  ASSUME NEW s, Good(s), NEW i \in DOMAIN s.tasks, NEW st \in Statuses,
         st # Pending,
         st = Canceled \/ \A j \in DOMAIN s.tasks : j < i => s.tasks[j].status # Pending
  PROVE  Good(SetStatus(s, i, st))
  <1> DEFINE t == SetStatus(s, i, st)
  <1>1. s \in Store /\ WellFormed(s) /\ InOrder(s)
    BY DEF Good
  <1>2. /\ t \in Store /\ t.nextID = s.nextID /\ Len(t.tasks) = Len(s.tasks)
        /\ DOMAIN t.tasks = DOMAIN s.tasks
        /\ \A j \in DOMAIN s.tasks :
             /\ t.tasks[j].id = s.tasks[j].id
             /\ t.tasks[j].status = IF j = i THEN st ELSE s.tasks[j].status
    BY <1>1, SetStatusValue
  <1> HIDE DEF t
  <1>3. WellFormed(t)
    BY <1>1, <1>2 DEF WellFormed
  <1>4. InOrder(t)
    BY <1>1, <1>2 DEF InOrder
  <1> QED BY <1>2, <1>3, <1>4 DEF Good, t

\* Add keeps a store good.
LEMMA AddGood ==
  ASSUME NEW s, Good(s), NEW n \in Nat
  PROVE  Good(AddTask(s, n))
  <1> DEFINE e == [id |-> s.nextID, prompt |-> n, status |-> Pending]
             t == Append(s.tasks, e)
  <1>1. s.tasks \in Seq(Task) /\ s.nextID \in Nat /\ s.nextID = Len(s.tasks) + 1
    BY DEF Good, Store, WellFormed
  <1>2. e \in Task
    BY <1>1 DEF Task, Statuses
  <1>3. /\ t \in Seq(Task) /\ Len(t) = Len(s.tasks) + 1
        /\ DOMAIN t = 1 .. Len(s.tasks) + 1
        /\ t[Len(s.tasks) + 1] = e
        /\ DOMAIN s.tasks = 1 .. Len(s.tasks)
        /\ \A i \in 1 .. Len(s.tasks) : t[i] = s.tasks[i]
    BY <1>1, <1>2
  <1>4. AddTask(s, n) = [tasks |-> t, nextID |-> s.nextID + 1]
    BY DEF AddTask
  <1>5. e.id = Len(s.tasks) + 1 /\ e.status = Pending
    BY <1>1
  <1> HIDE DEF t, e
  <1>6. AddTask(s, n) \in Store
    BY <1>1, <1>3, <1>4 DEF Store
  <1>7. WellFormed(AddTask(s, n))
    <2>1. \A i \in 1 .. Len(s.tasks) : s.tasks[i].id = i
      BY <1>3 DEF Good, WellFormed
    <2>2. Len(s.tasks) \in Nat
      BY <1>1
    <2>3. /\ AddTask(s, n).tasks = t
          /\ AddTask(s, n).nextID = Len(s.tasks) + 1 + 1
      BY <1>1, <1>4
    <2>4. ASSUME NEW i \in 1 .. Len(s.tasks) + 1
          PROVE  t[i].id = i
      <3>1. CASE i \in 1 .. Len(s.tasks)
        BY <3>1, <1>3, <2>1
      <3>2. CASE i = Len(s.tasks) + 1
        BY <3>2, <1>3, <1>5
      <3> QED BY <3>1, <3>2, <2>2
    <2>5. /\ \A i \in DOMAIN t : t[i].id = i
          /\ AddTask(s, n).nextID = Len(t) + 1
      BY <1>3, <2>3, <2>4
    <2> QED BY <2>3, <2>5 DEF WellFormed
  <1>8. InOrder(AddTask(s, n))
    <2>1. \A i, j \in 1 .. Len(s.tasks) :
            i < j /\ s.tasks[i].status = Pending
              => s.tasks[j].status \in {Pending, Canceled}
      BY <1>3 DEF Good, InOrder
    <2>2. Len(s.tasks) \in Nat
      BY <1>1
    <2>3. AddTask(s, n).tasks = t
      BY <1>4
    <2>4. ASSUME NEW i \in 1 .. Len(s.tasks) + 1, NEW j \in 1 .. Len(s.tasks) + 1,
                 i < j, t[i].status = Pending
          PROVE  t[j].status \in {Pending, Canceled}
      <3>1. i \in 1 .. Len(s.tasks)
        BY <2>2, <2>4
      <3>2. CASE j \in 1 .. Len(s.tasks)
        BY <3>1, <3>2, <2>1, <2>4, <1>3
      <3>3. CASE j = Len(s.tasks) + 1
        BY <3>3, <1>3, <1>5
      <3> QED BY <3>2, <3>3, <2>2
    <2> QED BY <1>3, <2>3, <2>4 DEF InOrder
  <1> QED BY <1>6, <1>7, <1>8 DEF Good

-----------------------------------------------------------------------------
(* One lemma per action: it keeps IInv.                                    *)

\* Replacing one process's good copy by a good one keeps all copies good.
LEMMA UpdateGood ==
  ASSUME queue \in [Procs -> Store], \A q \in Procs : Good(queue[q]),
         NEW p \in Procs, NEW s, Good(s),
         queue' = [queue EXCEPT ![p] = s]
  PROVE  /\ queue' \in [Procs -> Store]
         /\ \A q \in Procs : Good(queue'[q])
         /\ queue'[p] = s
         /\ \A q \in Procs \ {p} : queue'[q] = queue[q]
  <1>1. s \in Store
    BY DEF Good
  <1> QED BY <1>1

LEMMA InitIInv == Init => IInv
  <1> SUFFICES ASSUME Init PROVE IInv
    OBVIOUS
  <1>1. EmptyStore \in Store
    BY EmptyGood DEF Good
  <1>2. TypeOK
    <2>1. file \in Files
      BY <1>1 DEF Init, Files, Unreadable
    <2>2. adds \in 0 .. MaxAdds
      BY BoundAssumption DEF Init
    <2> QED BY <1>1, <2>1, <2>2 DEF Init, TypeOK
  <1>3. Good(file.store) /\ \A p \in Procs : Good(queue[p])
    BY EmptyGood DEF Init, Unreadable
  <1>4. WorkersOwnTheirTasks /\ \A d \in Daemons : workers[d] = {}
    BY DEF Init, WorkersOwnTheirTasks
  <1> QED BY <1>2, <1>3, <1>4 DEF IInv

\* What WorkersOwnTheirTasks asks of one daemon.
Owns(d, W, s) ==
  \A id \in W : \E i \in DOMAIN s.tasks :
    IsFirst(At(s, id), i) /\ s.tasks[i].status = Running

LEMMA OwnsAll == WorkersOwnTheirTasks <=> \A d \in Daemons : Owns(d, workers[d], queue[d])
  BY DEF WorkersOwnTheirTasks, Owns

LEMMA OwnsAllPrimed ==
  WorkersOwnTheirTasks' <=> \A d \in Daemons : Owns(d, workers'[d], queue'[d])
  BY DEF WorkersOwnTheirTasks, Owns, IsFirst, At

\* In a good list it is enough to look at the position.
LEMMA OwnsValue ==
  ASSUME NEW d, NEW W, NEW s, Good(s)
  PROVE  Owns(d, W, s) <=>
           \A id \in W : id \in DOMAIN s.tasks /\ s.tasks[id].status = Running
  <1>1. ASSUME NEW id, NEW i \in DOMAIN s.tasks, IsFirst(At(s, id), i)
        PROVE  i = id
    BY <1>1, FirstIsId
  <1>2. ASSUME NEW id \in DOMAIN s.tasks
        PROVE  IsFirst(At(s, id), id)
    BY DEF Good, WellFormed, IsFirst, At, Store
  <1> QED BY <1>1, <1>2 DEF Owns

\* The workers keep their tasks if neither they nor their daemons' lists change.
LEMMA WorkersFrame ==
  ASSUME WorkersOwnTheirTasks, workers' = workers,
         \A d \in Daemons : queue'[d] = queue[d]
  PROVE  WorkersOwnTheirTasks'
  BY OwnsAll, OwnsAllPrimed

\* What a starting process finds is good.
LEMMA LoadedGood ==
  ASSUME IInv
  PROVE  Good(Loaded)
  BY EmptyGood, LoadGood DEF IInv, Loaded

LEMMA StartIInv ==
  ASSUME IInv, NEW p \in Procs, Start(p)
  PROVE  IInv'
  <1>1. Good(Loaded)
    BY LoadedGood
  <1>2. /\ queue' \in [Procs -> Store] /\ \A q \in Procs : Good(queue'[q])
        /\ \A q \in Procs \ {p} : queue'[q] = queue[q]
    BY <1>1, UpdateGood DEF IInv, TypeOK, Start
  <1>3. TypeOK'
    BY <1>2 DEF IInv, TypeOK, Start
  <1>4. WorkersOwnTheirTasks'
    <2>1. ASSUME NEW d \in Daemons
          PROVE  Owns(d, workers'[d], queue'[d])
      <3>1. d \in Procs /\ workers' = workers /\ p \notin live
        BY DEF Procs, Start
      <3>2. CASE d = p
        BY <3>1, <3>2 DEF IInv, Owns
      <3>3. CASE d # p
        BY <3>1, <3>3, <1>2, OwnsAll DEF IInv
      <3> QED BY <3>2, <3>3
    <2> QED BY <2>1, OwnsAllPrimed
  <1> QED BY <1>2, <1>3, <1>4 DEF IInv, Start

\* What Change does, once the new list is known to be good.
LEMMA ChangeValue ==
  ASSUME IInv, NEW p \in Procs, Idle(p), NEW s, Good(s), Change(p, s)
  PROVE  /\ queue' \in [Procs -> Store] /\ \A q \in Procs : Good(queue'[q])
         /\ queue'[p] = s /\ \A q \in Procs \ {p} : queue'[q] = queue[q]
         /\ saving' \in [Procs -> {"idle", "open", "write"}]
         /\ saving'[p] = "open" /\ \A q \in Procs \ {p} : saving'[q] = saving[q]
         /\ UNCHANGED <<file, live>>
  BY UpdateGood DEF IInv, TypeOK, Change

LEMMA AddIInv ==
  ASSUME IInv, NEW c \in Clis, Add(c)
  PROVE  IInv'
  <1>1. c \in Procs /\ \A d \in Daemons : d \in Procs /\ d # c
    BY ProcsAssumption DEF Procs
  <1>2. adds' \in Nat /\ adds' \in 0 .. MaxAdds
    BY BoundAssumption DEF IInv, TypeOK, Add
  <1>3. Good(AddTask(queue[c], adds'))
    BY <1>1, <1>2, AddGood DEF IInv
  <1>4. /\ queue' \in [Procs -> Store] /\ \A q \in Procs : Good(queue'[q])
        /\ saving' \in [Procs -> {"idle", "open", "write"}]
        /\ UNCHANGED <<file, live>>
        /\ \A d \in Daemons : queue'[d] = queue[d]
    BY <1>1, <1>3, ChangeValue DEF Add
  <1>5. TypeOK'
    <2>1. queue[c].nextID \in Nat
      BY <1>1 DEF IInv, TypeOK, Store
    <2>2. receipt' \in [Procs -> Receipts \cup {NoReceipt}]
      BY <1>1, <1>2, <2>1 DEF IInv, TypeOK, Add, Receipts
    <2> QED BY <1>2, <1>4, <2>2 DEF IInv, TypeOK, Add, history
  <1>6. WorkersOwnTheirTasks'
    BY <1>4, WorkersFrame DEF IInv, Add
  <1> QED BY <1>4, <1>5, <1>6 DEF IInv, Add

LEMMA CancelIInv ==
  ASSUME IInv, NEW c \in Clis, Cancel(c)
  PROVE  IInv'
  <1>1. c \in Procs /\ \A d \in Daemons : d \in Procs /\ d # c
    BY ProcsAssumption DEF Procs
  <1>2. PICK i \in DOMAIN queue[c].tasks :
          /\ Change(c, SetStatus(queue[c], i, Canceled))
          /\ receipt' = [receipt EXCEPT ![c] =
               [op |-> "cancel", id |-> queue[c].tasks[i].id,
                prompt |-> queue[c].tasks[i].prompt]]
    BY DEF Cancel
  <1>3. Good(SetStatus(queue[c], i, Canceled))
    BY <1>1, SetStatusGood DEF IInv, Statuses, Canceled, Pending
  <1>4. /\ queue' \in [Procs -> Store] /\ \A q \in Procs : Good(queue'[q])
        /\ saving' \in [Procs -> {"idle", "open", "write"}]
        /\ UNCHANGED <<file, live>>
        /\ \A d \in Daemons : queue'[d] = queue[d]
    BY <1>1, <1>2, <1>3, ChangeValue DEF Cancel
  <1>5. TypeOK'
    <2>1. queue[c].tasks[i] \in Task
      BY <1>1 DEF IInv, TypeOK, Store
    <2>2. receipt' \in [Procs -> Receipts \cup {NoReceipt}]
      BY <1>1, <1>2, <2>1 DEF IInv, TypeOK, Receipts, Task
    <2> QED BY <1>4, <2>2 DEF IInv, TypeOK, Cancel, history
  <1>6. WorkersOwnTheirTasks'
    BY <1>4, WorkersFrame DEF IInv, Cancel
  <1> QED BY <1>4, <1>5, <1>6 DEF IInv, Cancel

\* A daemon whose list and workers change leaves the other daemons' workers
\* their tasks.
LEMMA OneDaemonOwns ==
  ASSUME IInv, NEW d \in Daemons, Owns(d, workers'[d], queue'[d]),
         \A e \in Daemons \ {d} : workers'[e] = workers[e],
         \A p \in Procs \ {d} : queue'[p] = queue[p]
  PROVE  WorkersOwnTheirTasks'
  <1>1. ASSUME NEW e \in Daemons
        PROVE  Owns(e, workers'[e], queue'[e])
    <2>1. CASE e = d
      BY <2>1
    <2>2. CASE e # d
      BY <2>2, OwnsAll DEF IInv, Procs
    <2> QED BY <2>1, <2>2
  <1> QED BY <1>1, OwnsAllPrimed

LEMMA PollIInv ==
  ASSUME IInv, NEW d \in Daemons, Poll(d)
  PROVE  IInv'
  <1> DEFINE q == queue[d]
  <1>1. d \in Procs /\ Good(q) /\ q \in Store /\ d \in live
    BY DEF IInv, Procs, Good, Poll, Idle
  <1>2. PICK i \in DOMAIN q.tasks :
          /\ ClaimAt(q, i)
          /\ Change(d, SetStatus(q, i, Running))
          /\ workers' = [workers EXCEPT ![d] = @ \cup {q.tasks[i].id}]
          /\ receipt' = [receipt EXCEPT ![d] = [op |-> "claim", id |-> q.tasks[i].id,
                                                prompt |-> q.tasks[i].prompt]]
    BY DEF Poll
  <1>3. q.tasks[i].id = i /\ q.tasks[i] \in Task /\ DOMAIN q.tasks \subseteq Int
    BY <1>1 DEF Good, WellFormed, Store
  <1>4. Good(SetStatus(q, i, Running))
    <2>1. \A j \in DOMAIN q.tasks : j < i => q.tasks[j].status # Pending
      BY <1>2, <1>3 DEF ClaimAt, IsFirst
    <2> QED BY <1>1, <2>1, SetStatusGood DEF Statuses, Running, Pending
  <1>5. /\ queue' \in [Procs -> Store] /\ \A p \in Procs : Good(queue'[p])
        /\ queue'[d] = SetStatus(q, i, Running)
        /\ \A p \in Procs \ {d} : queue'[p] = queue[p]
        /\ saving' \in [Procs -> {"idle", "open", "write"}]
        /\ UNCHANGED <<file, live>>
    BY <1>1, <1>2, <1>4, ChangeValue DEF Poll
  <1>6. /\ WorkersOwnTheirTasks' /\ workers' \in [Daemons -> SUBSET Nat]
        /\ \A e \in Daemons \ {d} : workers'[e] = workers[e]
    <2> DEFINE W == workers[d] \cup {i}
               s == SetStatus(q, i, Running)
    <2>1. workers' = [workers EXCEPT ![d] = W]
      BY <1>2, <1>3 DEF IInv, TypeOK
    <2>2. W \subseteq Nat
      BY <1>3 DEF IInv, TypeOK, Task
    <2>3. \A id \in workers[d] : id \in DOMAIN q.tasks /\ q.tasks[id].status = Running
      BY <1>1, OwnsAll, OwnsValue DEF IInv
    <2>4. /\ DOMAIN s.tasks = DOMAIN q.tasks
          /\ \A j \in DOMAIN q.tasks :
               s.tasks[j].status = IF j = i THEN Running ELSE q.tasks[j].status
      BY <1>1, SetStatusValue DEF Statuses
    <2> HIDE DEF s
    <2>5. \A id \in W : id \in DOMAIN s.tasks /\ s.tasks[id].status = Running
      BY <2>3, <2>4
    <2>6. Good(s) /\ queue'[d] = s
      BY <1>4, <1>5 DEF s
    <2> HIDE DEF W
    <2>7. /\ workers' \in [Daemons -> SUBSET Nat] /\ workers'[d] = W
          /\ \A e \in Daemons \ {d} : workers'[e] = workers[e]
      BY <2>1, <2>2 DEF IInv, TypeOK
    <2>8. Owns(d, workers'[d], queue'[d])
      BY <2>5, <2>6, <2>7, OwnsValue
    <2> QED BY <1>5, <2>7, <2>8, OneDaemonOwns
  <1>7. TypeOK'
    <2>1. receipt' \in [Procs -> Receipts \cup {NoReceipt}]
      BY <1>1, <1>2, <1>3 DEF IInv, TypeOK, Receipts, Task
    <2> QED BY <1>5, <1>6, <2>1 DEF IInv, TypeOK, Poll, history
  <1> QED BY <1>1, <1>5, <1>6, <1>7 DEF IInv, Poll

LEMMA ReportIInv ==
  ASSUME IInv, NEW d \in Daemons, NEW id \in workers[d], NEW outcome \in {Done, Failed},
         Report(d, id, outcome)
  PROVE  IInv'
  <1> DEFINE q == queue[d]
  <1>1. d \in Procs /\ Good(q) /\ q \in Store /\ d \in live
    BY DEF IInv, Procs, Good, Report, Idle
  <1>2. PICK i \in DOMAIN q.tasks :
          IsFirst(At(q, id), i) /\ Change(d, SetStatus(q, i, outcome))
    BY DEF Report
  <1>3. \A w \in workers[d] : w \in DOMAIN q.tasks /\ q.tasks[w].status = Running
    BY <1>1, OwnsAll, OwnsValue DEF IInv
  <1>4. /\ i = id /\ q.tasks[i].status = Running
        /\ outcome \in Statuses /\ outcome # Pending
        /\ DOMAIN q.tasks \subseteq Int
    BY <1>1, <1>2, <1>3, FirstIsId DEF Statuses, Done, Failed, Pending, Store
  <1>5. Good(SetStatus(q, i, outcome))
    <2>1. \A j \in DOMAIN q.tasks : j < i => q.tasks[j].status # Pending
      BY <1>1, <1>4 DEF Good, InOrder, Pending, Running, Canceled
    <2> QED BY <1>1, <1>4, <2>1, SetStatusGood
  <1>6. /\ queue' \in [Procs -> Store] /\ \A p \in Procs : Good(queue'[p])
        /\ queue'[d] = SetStatus(q, i, outcome)
        /\ \A p \in Procs \ {d} : queue'[p] = queue[p]
        /\ saving' \in [Procs -> {"idle", "open", "write"}]
        /\ UNCHANGED <<file, live>>
    BY <1>1, <1>2, <1>5, ChangeValue DEF Report
  <1>7. /\ WorkersOwnTheirTasks' /\ workers' \in [Daemons -> SUBSET Nat]
        /\ \A e \in Daemons \ {d} : workers'[e] = workers[e]
    <2> DEFINE W == workers[d] \ {id}
               s == SetStatus(q, i, outcome)
    <2>1. workers' = [workers EXCEPT ![d] = W] /\ W \subseteq Nat
      BY DEF Report, IInv, TypeOK
    <2>2. /\ DOMAIN s.tasks = DOMAIN q.tasks
          /\ \A j \in DOMAIN q.tasks :
               s.tasks[j].status = IF j = i THEN outcome ELSE q.tasks[j].status
      BY <1>1, <1>4, SetStatusValue
    <2> HIDE DEF s
    <2>3. \A w \in W : w \in DOMAIN s.tasks /\ s.tasks[w].status = Running
      BY <1>3, <1>4, <2>2
    <2>4. Good(s) /\ queue'[d] = s
      BY <1>5, <1>6 DEF s
    <2> HIDE DEF W
    <2>5. /\ workers' \in [Daemons -> SUBSET Nat] /\ workers'[d] = W
          /\ \A e \in Daemons \ {d} : workers'[e] = workers[e]
      BY <2>1 DEF IInv, TypeOK
    <2>6. Owns(d, workers'[d], queue'[d])
      BY <2>3, <2>4, <2>5, OwnsValue
    <2> QED BY <1>6, <2>5, <2>6, OneDaemonOwns
  <1>8. TypeOK'
    BY <1>6, <1>7 DEF IInv, TypeOK, Report, history
  <1> QED BY <1>1, <1>6, <1>7, <1>8 DEF IInv, Report

LEMMA TruncateIInv ==
  ASSUME IInv, NEW p \in Procs, Truncate(p)
  PROVE  IInv'
  <1>1. Good(file'.store) /\ file' \in Files
    BY EmptyGood DEF Truncate, Unreadable, Files, Good
  <1>2. TypeOK'
    BY <1>1 DEF IInv, TypeOK, Truncate
  <1>3. WorkersOwnTheirTasks'
    BY WorkersFrame DEF IInv, Truncate
  <1> QED BY <1>1, <1>2, <1>3 DEF IInv, Truncate

\* The end of a save, with a good file, keeps IInv.
LEMMA ReturnIInv ==
  ASSUME IInv, NEW p \in Procs, p \in live, Return(p),
         file' \in Files, Good(file'.store), disturbed' \in BOOLEAN
  PROVE  IInv'
  <1>1. Handed(p) \subseteq Nat /\ receipt[p] \in Receipts \cup {NoReceipt}
    <2>1. receipt[p] \in Receipts \cup {NoReceipt}
      BY DEF IInv, TypeOK
    <2>2. receipt[p].prompt \in Nat
      BY <2>1 DEF Receipts, NoReceipt
    <2> QED BY <2>1, <2>2 DEF Handed
  <1>2. claimed' \subseteq Nat /\ reclaimed' \subseteq Nat
    BY <1>1 DEF Return, IInv, TypeOK
  <1>3. CASE p \in Daemons
    <2>1. TypeOK'
      BY <1>1, <1>2, <1>3 DEF IInv, TypeOK, Return
    <2>2. WorkersOwnTheirTasks'
      BY <1>3, WorkersFrame DEF IInv, Return
    <2> QED BY <1>3, <2>1, <2>2 DEF IInv, Return
  <1>4. CASE p \notin Daemons
    <2>1. /\ queue' \in [Procs -> Store] /\ \A q \in Procs : Good(queue'[q])
          /\ \A d \in Daemons : queue'[d] = queue[d]
      BY <1>4, EmptyGood, UpdateGood DEF IInv, TypeOK, Return, Procs
    <2>2. TypeOK'
      BY <1>1, <1>2, <1>4, <2>1 DEF IInv, TypeOK, Return
    <2>3. WorkersOwnTheirTasks'
      BY <2>1, WorkersFrame DEF IInv, Return
    <2> QED BY <1>4, <2>1, <2>2, <2>3 DEF IInv, Return
  <1> QED BY <1>3, <1>4

LEMMA WriteIInv ==
  ASSUME IInv, NEW p \in Procs, Write(p)
  PROVE  IInv'
  <1>1. file' \in Files /\ Good(file'.store) /\ disturbed' \in BOOLEAN
    BY EmptyGood DEF IInv, Write, Json, Unreadable, Files, Good, TypeOK
  <1> QED BY <1>1, ReturnIInv DEF Write

LEMMA SaveErrorIInv ==
  ASSUME IInv, NEW p \in Procs, SaveError(p)
  PROVE  IInv'
  <1>1. file' \in Files /\ Good(file'.store) /\ disturbed' \in BOOLEAN
    BY EmptyGood DEF IInv, TypeOK, SaveError, Unreadable, Files, Good
  <1> QED BY <1>1, ReturnIInv DEF SaveError

LEMMA ExitIInv ==
  ASSUME IInv, NEW p \in Procs, Exit(p)
  PROVE  IInv'
  <1>1. /\ queue' \in [Procs -> Store] /\ \A q \in Procs : Good(queue'[q])
        /\ \A q \in Procs \ {p} : queue'[q] = queue[q]
    BY EmptyGood, UpdateGood DEF IInv, TypeOK, Exit
  <1>2. /\ workers' \in [Daemons -> SUBSET Nat]
        /\ \A d \in Daemons : workers'[d] = IF d = p THEN {} ELSE workers[d]
    BY DEF Exit, IInv, TypeOK
  <1>3. TypeOK'
    BY <1>1, <1>2 DEF IInv, TypeOK, Exit
  <1>4. ASSUME NEW d \in Daemons
        PROVE  Owns(d, workers'[d], queue'[d])
    <2>1. CASE d = p
      BY <2>1, <1>2 DEF Owns
    <2>2. CASE d # p
      BY <2>2, <1>1, <1>2, OwnsAll DEF IInv, Procs
    <2> QED BY <2>1, <2>2
  <1>5. WorkersOwnTheirTasks'
    BY <1>4, OwnsAllPrimed
  <1> QED BY <1>1, <1>2, <1>3, <1>5 DEF IInv, Exit

LEMMA StutterIInv ==
  ASSUME IInv, UNCHANGED vars
  PROVE  IInv'
  <1>1. WorkersOwnTheirTasks'
    BY WorkersFrame DEF IInv, vars
  <1>2. TypeOK'
    BY DEF IInv, vars, history, TypeOK
  <1> QED BY <1>1, <1>2 DEF IInv, vars

\* IInv is inductive.
LEMMA NextIInv ==
  ASSUME IInv, [Next]_vars
  PROVE  IInv'
  <1>1. CASE Next
    <2>1. ASSUME NEW p \in Procs,
                 Start(p) \/ Truncate(p) \/ Write(p) \/ SaveError(p) \/ Exit(p)
          PROVE  IInv'
      BY <2>1, StartIInv, TruncateIInv, WriteIInv, SaveErrorIInv, ExitIInv
    <2>2. ASSUME NEW c \in Clis, Add(c) \/ Cancel(c)
          PROVE  IInv'
      BY <2>2, AddIInv, CancelIInv
    <2>3. ASSUME NEW d \in Daemons, Poll(d) PROVE IInv'
      BY <2>3, PollIInv
    <2>4. ASSUME NEW d \in Daemons, NEW id \in workers[d],
                 NEW outcome \in {Done, Failed}, Report(d, id, outcome)
          PROVE  IInv'
      BY <2>4, ReportIInv
    <2> QED BY <1>1, <2>1, <2>2, <2>3, <2>4 DEF Next
  <1> QED BY <1>1, StutterIInv

\* The inductive invariant holds in every reachable state.
THEOREM Invariance == Spec => []IInv
  <1>1. Init => IInv
    BY InitIInv
  <1>2. IInv /\ [Next]_vars => IInv'
    BY NextIInv
  <1> QED BY <1>1, <1>2, PTL DEF Spec

-----------------------------------------------------------------------------
\* The variables keep their types.
THEOREM TypeCorrect == Spec => []TypeOK
  <1>1. IInv => TypeOK
    BY DEF IInv
  <1> QED BY <1>1, Invariance, PTL

\* IDs are unique and the next one fresh in every copy of the list: Add may
\* trust next_id even in a process that works on a stale copy.
THEOREM UniqueIds == Spec => []IdsAreUnique
  <1>1. IInv => IdsAreUnique
    BY DEF IInv, Good, IdsAreUnique
  <1> QED BY <1>1, Invariance, PTL

\* First come, first claimed, in every copy of the list.
THEOREM OrderedClaims == Spec => []ClaimsInOrder
  <1>1. IInv => ClaimsInOrder
    BY DEF IInv, Good, ClaimsInOrder
  <1> QED BY <1>1, Invariance, PTL

\* A worker's task is "running" for the daemon until the worker reports, so
\* Complete and Fail overwrite neither an outcome nor a cancel.
THEOREM OwnedTasks == Spec => []WorkersOwnTheirTasks
  <1>1. IInv => WorkersOwnTheirTasks
    BY DEF IInv
  <1> QED BY <1>1, Invariance, PTL

-----------------------------------------------------------------------------
\* A status change that starts a waiting task or ends a running one loses
\* nothing the list records.
LEMMA SetStatusRemembers ==
  ASSUME NEW s, s \in Store, NEW i \in DOMAIN s.tasks, NEW st \in Statuses,
         s.tasks[i].status \in {Pending, Running}, st # Pending
  PROVE  Remembers(s.tasks, SetStatus(s, i, st).tasks)
  <1> DEFINE t == SetStatus(s, i, st).tasks
  <1>1. /\ DOMAIN t = DOMAIN s.tasks
        /\ \A j \in DOMAIN s.tasks :
             /\ t[j].id = s.tasks[j].id /\ t[j].prompt = s.tasks[j].prompt
             /\ t[j].status = IF j = i THEN st ELSE s.tasks[j].status
    BY SetStatusValue
  <1>2. ASSUME NEW j \in DOMAIN s.tasks, j # i
        PROVE  t[j] = s.tasks[j]
    BY <1>2 DEF SetStatus, Store
  <1> HIDE DEF t
  <1> QED BY <1>1, <1>2 DEF Remembers, t

\* Outcomes recorded by a living daemon are final and its list only grows in
\* what it has started: no step of anybody else reaches its copy.
LEMMA MemoryStep ==
  ASSUME IInv, [Next]_vars, NEW d \in Daemons, d \in live, d \in live'
  PROVE  Remembers(queue[d].tasks, queue'[d].tasks)
  <1> DEFINE Q == queue[d]
  <1>1. d \in Procs /\ Q \in Store /\ Good(Q) /\ d \notin Clis
        /\ queue \in [Procs -> Store]
    BY ProcsAssumption DEF IInv, Procs, Good, TypeOK
  <1>2. ASSUME queue'[d] = Q PROVE Remembers(Q.tasks, queue'[d].tasks)
    BY <1>2 DEF Remembers
  <1>3. ASSUME NEW p \in Procs, Start(p) \/ Truncate(p) \/ Exit(p) \/ Return(p)
        PROVE  queue'[d] = Q
    BY <1>1, <1>3 DEF Start, Truncate, Exit, Return
  <1>4. ASSUME NEW p \in Procs, NEW s, p # d, Change(p, s)
        PROVE  queue'[d] = Q
    BY <1>1, <1>4 DEF Change
  <1>5. ASSUME NEW c \in Clis, Add(c) \/ Cancel(c)
        PROVE  queue'[d] = Q
    BY <1>1, <1>4, <1>5 DEF Add, Cancel, Procs
  <1>6. ASSUME NEW i \in DOMAIN Q.tasks, NEW st \in Statuses,
               Change(d, SetStatus(Q, i, st)),
               Q.tasks[i].status \in {Pending, Running}, st # Pending
        PROVE  Remembers(Q.tasks, queue'[d].tasks)
    <2>1. queue'[d] = SetStatus(Q, i, st)
      BY <1>1, <1>6 DEF Change
    <2> QED BY <1>1, <1>6, <2>1, SetStatusRemembers
  <1>7. ASSUME NEW e \in Daemons, Poll(e)
        PROVE  Remembers(Q.tasks, queue'[d].tasks)
    <2>1. CASE e # d
      BY <1>2, <1>4, <1>7, <2>1 DEF Poll, Procs
    <2>2. CASE e = d
      <3>1. PICK i \in DOMAIN Q.tasks :
              ClaimAt(Q, i) /\ Change(d, SetStatus(Q, i, Running))
        BY <1>7, <2>2 DEF Poll
      <3>2. Q.tasks[i].status = Pending
        BY <3>1 DEF ClaimAt, IsFirst
      <3>3. Running \in Statuses /\ Running # Pending
        BY DEF Statuses, Running, Pending
      <3> QED BY <1>6, <3>1, <3>2, <3>3
    <2> QED BY <2>1, <2>2
  <1>8. ASSUME NEW e \in Daemons, NEW id \in workers[e], NEW outcome \in {Done, Failed},
               Report(e, id, outcome)
        PROVE  Remembers(Q.tasks, queue'[d].tasks)
    <2>1. CASE e # d
      BY <1>2, <1>4, <1>8, <2>1 DEF Report, Procs
    <2>2. CASE e = d
      <3>1. PICK i \in DOMAIN Q.tasks :
              IsFirst(At(Q, id), i) /\ Change(d, SetStatus(Q, i, outcome))
        BY <1>8, <2>2 DEF Report
      <3>2. Q.tasks[i].status = Running
        BY <1>1, <1>8, <2>2, <3>1, FirstIsId DEF IInv, WorkersOwnTheirTasks
      <3>3. outcome \in Statuses /\ outcome # Pending
        BY DEF Statuses, Done, Failed, Pending
      <3> QED BY <1>6, <3>1, <3>2, <3>3
    <2> QED BY <2>1, <2>2
  <1>9. CASE UNCHANGED vars
    BY <1>2, <1>9 DEF vars
  <1> QED BY <1>2, <1>3, <1>5, <1>7, <1>8, <1>9 DEF Next, Write, SaveError

\* Every living daemon keeps its tasks and the outcomes it recorded.
THEOREM NeverForgets == Spec => DaemonNeverForgets
  <1> DEFINE Memory == \A d \in live \cap live' \cap Daemons :
                         Remembers(queue[d].tasks, queue'[d].tasks)
  <1>1. IInv /\ [Next]_vars => [Memory]_vars
    BY MemoryStep
  <1>2. Spec => [][Memory]_vars
    BY <1>1, Invariance, PTL DEF Spec
  <1> QED BY <1>2 DEF DaemonNeverForgets
-----------------------------------------------------------------------------
(***************************************************************************)
(* The promise of the task queue to its user, for every set of daemons and *)
(* commands, however they overlap, fail and die: as long as no process has *)
(* saved a list older than the file, and no save was cut short, the file   *)
(* is the ledger of TaskLedger, no acknowledged command is lost and no     *)
(* submission is handed out twice.                                         *)
(*                                                                         *)
(* Fresh says why.  A process that is not behind holds what the file holds *)
(* or, before it truncates the file, one change of that (Made); and while  *)
(* one process is writing all others are behind.  So the list that counts  *)
(* changes in one kind of step only, when a process that is not behind     *)
(* truncates the file, and then by the one change that process made.       *)
(***************************************************************************)

\* What one method makes of a list s, and the receipt that goes with it.
AddedTo(s, t, r) ==
  r.op = "add" /\ r.prompt \in Prompts /\ t = AddTask(s, r.prompt)

ClaimedIn(s, t, r) ==
  /\ r.op = "claim"
  /\ \E i \in DOMAIN s.tasks :
       ClaimAt(s, i) /\ r.prompt = s.tasks[i].prompt /\ t = SetStatus(s, i, Running)

CanceledIn(s, t, r) ==
  /\ r.op = "cancel"
  /\ \E i \in DOMAIN s.tasks : Cancelable(s.tasks[i]) /\ t = SetStatus(s, i, Canceled)

EndedIn(s, t, r) ==
  /\ r.op = "none"
  /\ \E i \in DOMAIN s.tasks, st \in {Done, Failed} :
       s.tasks[i].status = Running /\ t = SetStatus(s, i, st)

Made(s, t, r) ==
  AddedTo(s, t, r) \/ ClaimedIn(s, t, r) \/ CanceledIn(s, t, r) \/ EndedIn(s, t, r)

\* No receipt outlives its save, and no save its process.
Tidy ==
  /\ \A p \in Procs : saving[p] = "idle" => receipt[p] = NoReceipt
  /\ \A p \in Procs \ live : saving[p] = "idle"

Fresh ==
  /\ \A p \in Writers : file.kind = "empty" /\ p \notin behind /\ live \ {p} \subseteq behind
  /\ \A p \in live \ behind :
       /\ saving[p] = "idle" => queue[p] = Loaded
       /\ saving[p] = "open" => Made(Loaded, queue[p], receipt[p])

\* What a step does to the list that counts.
CommitStep ==
  \/ Authority' = Authority
  \/ \E p \in live : Truncate(p) /\ Made(Authority, Authority', receipt[p])

-----------------------------------------------------------------------------
(* Tidy.                                                                   *)

LEMMA InitTidy == Init => Tidy
  BY DEF Init, Tidy

LEMMA ChangeTidy ==
  ASSUME TypeOK, Tidy, NEW p \in Procs, Idle(p), NEW s, Change(p, s),
         \A q \in Procs \ {p} : receipt'[q] = receipt[q]
  PROVE  Tidy'
  <1>1. /\ saving'[p] = "open" /\ live' = live /\ p \in live
        /\ \A q \in Procs \ {p} : saving'[q] = saving[q]
    BY DEF TypeOK, Change, Idle
  <1> QED BY <1>1 DEF Tidy

LEMMA ReturnTidy ==
  ASSUME TypeOK, Tidy, NEW p \in Procs, p \in live, Return(p)
  PROVE  Tidy'
  <1>1. /\ saving'[p] = "idle" /\ receipt'[p] = NoReceipt /\ live \ {p} \subseteq live'
        /\ \A q \in Procs \ {p} : saving'[q] = saving[q] /\ receipt'[q] = receipt[q]
    BY DEF TypeOK, Return
  <1> QED BY <1>1 DEF Tidy

LEMMA NextTidy ==
  ASSUME TypeOK, Tidy, [Next]_vars
  PROVE  Tidy'
  <1>1. CASE UNCHANGED vars
    BY <1>1 DEF Tidy, vars
  <1>2. ASSUME NEW p \in Procs, Start(p) PROVE Tidy'
    BY <1>2 DEF Start, Tidy
  <1>3. ASSUME NEW p \in Procs, Truncate(p) PROVE Tidy'
    <2>1. /\ saving'[p] = "write" /\ p \in live /\ live' = live /\ receipt' = receipt
          /\ \A q \in Procs \ {p} : saving'[q] = saving[q]
      BY <1>3 DEF Truncate, TypeOK
    <2> QED BY <2>1 DEF Tidy
  <1>4. ASSUME NEW p \in Procs, Write(p) \/ SaveError(p) PROVE Tidy'
    BY <1>4, ReturnTidy DEF Write, SaveError
  <1>5. ASSUME NEW p \in Procs, Exit(p) PROVE Tidy'
    <2>1. /\ saving'[p] = "idle" /\ receipt'[p] = NoReceipt /\ live' = live \ {p}
          /\ \A q \in Procs \ {p} : saving'[q] = saving[q] /\ receipt'[q] = receipt[q]
      BY <1>5 DEF Exit, TypeOK
    <2> QED BY <2>1 DEF Tidy
  <1>6. ASSUME NEW c \in Clis, Add(c) PROVE Tidy'
    <2>1. c \in Procs /\ Idle(c) /\ Change(c, AddTask(queue[c], adds'))
          /\ \A q \in Procs \ {c} : receipt'[q] = receipt[q]
      BY <1>6 DEF Add, Procs, TypeOK
    <2> QED BY <2>1, ChangeTidy
  <1>7. ASSUME NEW c \in Clis, Cancel(c) PROVE Tidy'
    <2>1. PICK i \in DOMAIN queue[c].tasks :
            /\ Change(c, SetStatus(queue[c], i, Canceled))
            /\ \A q \in Procs \ {c} : receipt'[q] = receipt[q]
      BY <1>7 DEF Cancel, TypeOK
    <2> QED BY <1>7, <2>1, ChangeTidy DEF Cancel, Procs
  <1>8. ASSUME NEW d \in Daemons, Poll(d) PROVE Tidy'
    <2>1. PICK i \in DOMAIN queue[d].tasks :
            /\ Change(d, SetStatus(queue[d], i, Running))
            /\ \A q \in Procs \ {d} : receipt'[q] = receipt[q]
      BY <1>8 DEF Poll, TypeOK
    <2> QED BY <1>8, <2>1, ChangeTidy DEF Poll, Procs
  <1>9. ASSUME NEW d \in Daemons, NEW id \in workers[d], NEW outcome \in {Done, Failed},
               Report(d, id, outcome)
        PROVE  Tidy'
    <2>1. PICK i \in DOMAIN queue[d].tasks :
            Change(d, SetStatus(queue[d], i, outcome))
      BY <1>9 DEF Report
    <2> QED BY <1>9, <2>1, ChangeTidy DEF Report, Procs
  <1> QED BY <1>1, <1>2, <1>3, <1>4, <1>5, <1>6, <1>7, <1>8, <1>9 DEF Next

-----------------------------------------------------------------------------
(* The list that counts.                                                   *)

LEMMA AuthorityGood ==
  ASSUME IInv
  PROVE  Good(Authority)
  <1>1. CASE Writers = {}
    BY <1>1, LoadedGood DEF Authority
  <1>2. CASE Writers # {}
    <2>1. (CHOOSE p \in Writers : TRUE) \in Writers
      BY <1>2
    <2>2. Writers \subseteq Procs
      BY DEF Writers, IInv, TypeOK
    <2> QED BY <1>2, <2>1, <2>2 DEF Authority, IInv
  <1> QED BY <1>1, <1>2

\* The list that counts stays if the writers, their lists and the file do.
LEMMA AuthorityFrame ==
  ASSUME Writers' = Writers, file' = file, \A w \in Writers : queue'[w] = queue[w]
  PROVE  Authority' = Authority
  <1>1. Loaded' = Loaded
    BY DEF Loaded
  <1>2. CASE Writers = {}
    BY <1>1, <1>2 DEF Authority
  <1>3. CASE Writers # {}
    <2>1. (CHOOSE p \in Writers : TRUE) \in Writers
      BY <1>3
    <2>2. Authority = queue[CHOOSE p \in Writers : TRUE]
      BY <1>3 DEF Authority
    <2>3. Authority' = queue'[CHOOSE p \in Writers : TRUE]
      BY <1>3 DEF Authority
    <2> QED BY <2>1, <2>2, <2>3
  <1> QED BY <1>2, <1>3

LEMMA ChooseOne ==
  ASSUME NEW L, NEW p, L = {p}
  PROVE  (CHOOSE q \in L : TRUE) = p
  OBVIOUS

\* While a process writes, it is the only one, and its list counts.
LEMMA TheWriter ==
  ASSUME Fresh, NEW p \in Writers
  PROVE  Writers = {p} /\ Authority = queue[p]
  <1>1. Writers = {p}
    BY DEF Fresh, Writers
  <1> QED BY <1>1, ChooseOne DEF Authority

\* While a process that is not behind does not write, nobody does.
LEMMA NoWriter ==
  ASSUME Fresh, NEW p \in live \ behind, saving[p] # "write"
  PROVE  Writers = {} /\ Authority = Loaded
  <1>1. Writers = {}
    BY DEF Fresh, Writers
  <1> QED BY <1>1 DEF Authority

-----------------------------------------------------------------------------
(* One lemma per action: Fresh stays, and the list that counts makes a     *)
(* CommitStep.                                                             *)

LEMMA InitFresh == Init => Fresh
  BY DEF Init, Fresh, Writers

LEMMA StartFresh ==
  ASSUME IInv, Tidy, Fresh, NEW p \in Procs, Start(p)
  PROVE  Fresh' /\ Authority' = Authority
  <1>1. /\ p \notin live /\ live' = live \cup {p} /\ queue'[p] = Loaded
        /\ \A q \in Procs \ {p} : queue'[q] = queue[q]
        /\ behind' = IF Writers = {} THEN behind ELSE behind \cup {p}
        /\ UNCHANGED <<file, saving, receipt>> /\ saving[p] = "idle"
        /\ live \subseteq Procs /\ behind \subseteq live
    BY DEF Start, IInv, TypeOK, Tidy
  <1>2. Writers' = Writers /\ \A w \in Writers : queue'[w] = queue[w]
    BY <1>1 DEF Writers
  <1>3. Loaded' = Loaded
    BY <1>1 DEF Loaded
  <1>4. \A w \in Writers' : /\ file'.kind = "empty" /\ w \notin behind'
                            /\ live' \ {w} \subseteq behind'
    BY <1>1, <1>2 DEF Fresh, Writers
  <1>5. ASSUME NEW q \in live' \ behind'
        PROVE  /\ saving'[q] = "idle" => queue'[q] = Loaded'
               /\ saving'[q] = "open" => Made(Loaded', queue'[q], receipt'[q])
    <2>1. CASE q = p
      BY <2>1, <1>1, <1>3
    <2>2. CASE q # p
      BY <2>2, <1>1, <1>3 DEF Fresh
    <2> QED BY <2>1, <2>2
  <1>6. Fresh'
    BY <1>4, <1>5 DEF Fresh, Made, AddedTo, ClaimedIn, CanceledIn, EndedIn
  <1> QED BY <1>1, <1>2, <1>6, AuthorityFrame

\* A change in memory only.
LEMMA ChangeFresh ==
  ASSUME IInv, Fresh, NEW p \in Procs, Idle(p), NEW s, Good(s), Change(p, s),
         UNCHANGED behind, \A q \in Procs \ {p} : receipt'[q] = receipt[q],
         Made(queue[p], s, receipt'[p])
  PROVE  Fresh' /\ Authority' = Authority
  <1>1. /\ queue'[p] = s /\ \A q \in Procs \ {p} : queue'[q] = queue[q]
        /\ saving'[p] = "open" /\ \A q \in Procs \ {p} : saving'[q] = saving[q]
        /\ UNCHANGED <<file, live>> /\ saving[p] = "idle" /\ live \subseteq Procs
    BY ChangeValue DEF Idle, IInv, TypeOK
  <1>2. Writers' = Writers /\ \A w \in Writers : queue'[w] = queue[w]
    BY <1>1 DEF Writers
  <1>3. Loaded' = Loaded
    BY <1>1 DEF Loaded
  <1>4. \A w \in Writers' : /\ file'.kind = "empty" /\ w \notin behind'
                            /\ live' \ {w} \subseteq behind'
    BY <1>1, <1>2 DEF Fresh
  <1>5. ASSUME NEW q \in live' \ behind'
        PROVE  /\ saving'[q] = "idle" => queue'[q] = Loaded'
               /\ saving'[q] = "open" => Made(Loaded', queue'[q], receipt'[q])
    <2>1. CASE q = p
      BY <2>1, <1>1, <1>3 DEF Fresh
    <2>2. CASE q # p
      BY <2>2, <1>1, <1>3 DEF Fresh
    <2> QED BY <2>1, <2>2
  <1>6. Fresh'
    BY <1>4, <1>5 DEF Fresh, Made, AddedTo, ClaimedIn, CanceledIn, EndedIn
  <1> QED BY <1>1, <1>2, <1>6, AuthorityFrame

\* What the four methods hand to ChangeFresh.
LEMMA AddMade ==
  ASSUME IInv, NEW c \in Clis, Add(c)
  PROVE  /\ c \in Procs /\ Idle(c) /\ Good(AddTask(queue[c], adds'))
         /\ Change(c, AddTask(queue[c], adds'))
         /\ receipt'[c].op = "add" /\ receipt'[c].id = queue[c].nextID
         /\ receipt'[c].prompt = adds'
         /\ \A q \in Procs \ {c} : receipt'[q] = receipt[q]
         /\ Made(queue[c], AddTask(queue[c], adds'), receipt'[c])
         /\ adds' = adds + 1 /\ UNCHANGED history
  <1>1. c \in Procs /\ Good(queue[c])
    BY DEF Procs, IInv
  <1>2. adds' \in Nat /\ adds' \in Prompts /\ adds' = adds + 1
    BY BoundAssumption DEF IInv, TypeOK, Add, Prompts
  <1>3. /\ receipt'[c].op = "add" /\ receipt'[c].id = queue[c].nextID
        /\ receipt'[c].prompt = adds'
        /\ \A q \in Procs \ {c} : receipt'[q] = receipt[q]
    BY <1>1 DEF Add, IInv, TypeOK
  <1>4. Made(queue[c], AddTask(queue[c], adds'), receipt'[c])
    BY <1>2, <1>3 DEF Made, AddedTo
  <1> QED BY <1>1, <1>2, <1>3, <1>4, AddGood DEF Add

LEMMA CancelMade ==
  ASSUME IInv, NEW c \in Clis, Cancel(c)
  PROVE  \E i \in DOMAIN queue[c].tasks :
           /\ c \in Procs /\ Idle(c) /\ Good(SetStatus(queue[c], i, Canceled))
           /\ Change(c, SetStatus(queue[c], i, Canceled))
           /\ receipt'[c].op = "cancel" /\ receipt'[c].id = queue[c].tasks[i].id
           /\ receipt'[c].prompt = queue[c].tasks[i].prompt
           /\ \A q \in Procs \ {c} : receipt'[q] = receipt[q]
           /\ Made(queue[c], SetStatus(queue[c], i, Canceled), receipt'[c])
           /\ UNCHANGED <<adds, history>>
  <1>1. c \in Procs /\ Good(queue[c])
    BY DEF Procs, IInv
  <1>2. PICK i \in DOMAIN queue[c].tasks :
          /\ Cancelable(queue[c].tasks[i])
          /\ Change(c, SetStatus(queue[c], i, Canceled))
          /\ receipt' = [receipt EXCEPT ![c] =
               [op |-> "cancel", id |-> queue[c].tasks[i].id,
                prompt |-> queue[c].tasks[i].prompt]]
    BY DEF Cancel
  <1>3. Good(SetStatus(queue[c], i, Canceled))
    BY <1>1, SetStatusGood DEF Statuses, Canceled, Pending
  <1>4. /\ receipt'[c].op = "cancel" /\ receipt'[c].id = queue[c].tasks[i].id
        /\ receipt'[c].prompt = queue[c].tasks[i].prompt
        /\ \A q \in Procs \ {c} : receipt'[q] = receipt[q]
    BY <1>1, <1>2 DEF IInv, TypeOK
  <1>5. Made(queue[c], SetStatus(queue[c], i, Canceled), receipt'[c])
    BY <1>2, <1>4 DEF Made, CanceledIn
  <1> QED BY <1>1, <1>2, <1>3, <1>4, <1>5 DEF Cancel

LEMMA PollMade ==
  ASSUME IInv, NEW d \in Daemons, Poll(d)
  PROVE  \E i \in DOMAIN queue[d].tasks :
           /\ d \in Procs /\ Idle(d) /\ Good(SetStatus(queue[d], i, Running))
           /\ queue[d].tasks[i].status = Pending
           /\ Change(d, SetStatus(queue[d], i, Running))
           /\ receipt'[d].op = "claim"
           /\ receipt'[d].prompt = queue[d].tasks[i].prompt
           /\ \A q \in Procs \ {d} : receipt'[q] = receipt[q]
           /\ Made(queue[d], SetStatus(queue[d], i, Running), receipt'[d])
           /\ UNCHANGED <<adds, history>>
  <1>1. d \in Procs /\ Good(queue[d]) /\ DOMAIN queue[d].tasks \subseteq Int
    BY DEF Procs, IInv, Good, Store
  <1>2. PICK i \in DOMAIN queue[d].tasks :
          /\ ClaimAt(queue[d], i)
          /\ Change(d, SetStatus(queue[d], i, Running))
          /\ receipt' = [receipt EXCEPT ![d] =
               [op |-> "claim", id |-> queue[d].tasks[i].id,
                prompt |-> queue[d].tasks[i].prompt]]
    BY DEF Poll
  <1>3. /\ queue[d].tasks[i].status = Pending
        /\ \A j \in DOMAIN queue[d].tasks : j < i => queue[d].tasks[j].status # Pending
    BY <1>1, <1>2 DEF ClaimAt, IsFirst
  <1>4. Good(SetStatus(queue[d], i, Running))
    BY <1>1, <1>3, SetStatusGood DEF Statuses, Running, Pending
  <1>5. /\ receipt'[d].op = "claim"
        /\ receipt'[d].prompt = queue[d].tasks[i].prompt
        /\ \A q \in Procs \ {d} : receipt'[q] = receipt[q]
    BY <1>1, <1>2 DEF IInv, TypeOK
  <1>6. Made(queue[d], SetStatus(queue[d], i, Running), receipt'[d])
    BY <1>2, <1>5 DEF Made, ClaimedIn
  <1> QED BY <1>1, <1>2, <1>3, <1>4, <1>5, <1>6 DEF Poll

LEMMA ReportMade ==
  ASSUME IInv, Tidy, NEW d \in Daemons, NEW id \in workers[d],
         NEW outcome \in {Done, Failed}, Report(d, id, outcome)
  PROVE  \E i \in DOMAIN queue[d].tasks :
           /\ d \in Procs /\ Idle(d) /\ Good(SetStatus(queue[d], i, outcome))
           /\ Change(d, SetStatus(queue[d], i, outcome))
           /\ receipt'[d] = NoReceipt /\ receipt' = receipt
           /\ Made(queue[d], SetStatus(queue[d], i, outcome), receipt'[d])
           /\ UNCHANGED <<adds, history>>
  <1>1. d \in Procs /\ Good(queue[d]) /\ Idle(d) /\ UNCHANGED <<receipt, adds, history>>
    BY DEF Procs, IInv, Report
  <1>2. PICK i \in DOMAIN queue[d].tasks :
          /\ IsFirst(At(queue[d], id), i)
          /\ Change(d, SetStatus(queue[d], i, outcome))
    BY DEF Report
  <1>3. queue[d].tasks[i].status = Running
    <2>1. i = id
      BY <1>1, <1>2, FirstIsId
    <2>2. queue[d].tasks[id].status = Running
      BY <1>1, OwnsAll, OwnsValue DEF IInv
    <2> QED BY <2>1, <2>2
  <1>4. Good(SetStatus(queue[d], i, outcome))
    <2>1. outcome \in Statuses /\ outcome # Pending
      BY DEF Statuses, Done, Failed, Pending
    <2>2. \A j \in DOMAIN queue[d].tasks : j < i => queue[d].tasks[j].status # Pending
      BY <1>1, <1>3 DEF Good, InOrder, Pending, Running, Canceled
    <2> QED BY <1>1, <2>1, <2>2, SetStatusGood
  <1>5. receipt'[d] = NoReceipt
    BY <1>1 DEF Tidy, Idle
  <1>6. Made(queue[d], SetStatus(queue[d], i, outcome), receipt'[d])
    BY <1>3, <1>5 DEF Made, EndedIn, NoReceipt
  <1> QED BY <1>1, <1>2, <1>4, <1>5, <1>6

LEMMA TruncateFresh ==
  ASSUME IInv, Fresh, NEW p \in Procs, Truncate(p), ~disturbed'
  PROVE  /\ Fresh' /\ Authority' = queue[p]
         /\ Made(Authority, Authority', receipt[p])
  <1>1. /\ p \in live /\ p \notin behind /\ saving[p] = "open" /\ saving'[p] = "write"
        /\ \A q \in Procs \ {p} : saving'[q] = saving[q]
        /\ UNCHANGED <<live, queue, receipt>> /\ behind' = live \ {p}
        /\ file'.kind = "empty" /\ live \subseteq Procs
    BY DEF Truncate, Unreadable, IInv, TypeOK
  <1>2. Writers = {} /\ Authority = Loaded
    BY <1>1, NoWriter
  <1>3. Writers' = {p}
    BY <1>1, <1>2 DEF Writers
  <1>4. Authority' = queue[p]
    BY <1>1, <1>3, ChooseOne DEF Authority
  <1>5. Made(Loaded, queue[p], receipt[p])
    BY <1>1 DEF Fresh
  <1>6. Fresh'
    <2>1. \A w \in Writers' : /\ file'.kind = "empty" /\ w \notin behind'
                              /\ live' \ {w} \subseteq behind'
      BY <1>1, <1>3
    <2>2. live' \ behind' = {p}
      BY <1>1
    <2> QED BY <1>1, <2>1, <2>2 DEF Fresh
  <1> QED BY <1>2, <1>4, <1>5, <1>6

LEMMA WriteFresh ==
  ASSUME IInv, Fresh, NEW p \in Procs, Write(p)
  PROVE  /\ Fresh' /\ Authority' = Authority /\ Authority = queue[p]
         /\ \A q \in live' \ behind' : saving'[q] = "idle"
  <1>1. /\ p \in Writers /\ p \in live /\ Return(p) /\ Good(queue[p])
        /\ live \subseteq Procs /\ behind \subseteq live
    BY DEF Write, Writers, IInv, TypeOK
  <1>2. Writers = {p} /\ Authority = queue[p]
    BY <1>1, TheWriter
  <1>3. file.kind = "empty" /\ p \notin behind /\ live \ {p} \subseteq behind
    BY <1>1 DEF Fresh
  <1>4. file' = Json(queue[p])
    BY <1>3 DEF Write
  <1>5. Loaded' = queue[p]
    BY <1>1, <1>4, LoadGood DEF Json, Loaded
  <1>6. /\ saving'[p] = "idle" /\ \A q \in Procs \ {p} : saving'[q] = saving[q]
        /\ live' \subseteq live
    BY <1>1 DEF Return, IInv, TypeOK
  <1>7. Writers' = {}
    BY <1>2, <1>6, <1>1 DEF Writers
  <1>8. Authority' = queue[p]
    BY <1>5, <1>7 DEF Authority
  <1>9. \A q \in live' \ behind' : q = p /\ queue'[q] = queue[p]
    <2>1. CASE p \in Daemons
      BY <1>1, <1>3, <2>1 DEF Return
    <2>2. CASE p \notin Daemons
      BY <1>1, <1>3, <2>2 DEF Return
    <2> QED BY <2>1, <2>2
  <1>10. Fresh'
    BY <1>5, <1>6, <1>7, <1>9 DEF Fresh
  <1> QED BY <1>2, <1>6, <1>8, <1>9, <1>10

\* A process that ends takes nothing with it but what it had not begun to write.
LEMMA ExitFresh ==
  ASSUME IInv, Fresh, NEW p \in Procs, Exit(p), ~disturbed'
  PROVE  Fresh' /\ Authority' = Authority
  <1>1. /\ p \in live /\ saving[p] # "write" /\ live' = live \ {p} /\ behind' = behind \ {p}
        /\ UNCHANGED file /\ live \subseteq Procs /\ saving'[p] = "idle"
        /\ \A q \in Procs \ {p} : /\ queue'[q] = queue[q] /\ saving'[q] = saving[q]
                                  /\ receipt'[q] = receipt[q]
    BY DEF Exit, IInv, TypeOK
  <1>2. Writers' = Writers /\ \A w \in Writers : w # p /\ queue'[w] = queue[w]
    BY <1>1 DEF Writers
  <1>3. Loaded' = Loaded
    BY <1>1 DEF Loaded
  <1>4. \A w \in Writers' : /\ file'.kind = "empty" /\ w \notin behind'
                            /\ live' \ {w} \subseteq behind'
    BY <1>1, <1>2 DEF Fresh
  <1>5. ASSUME NEW q \in live' \ behind'
        PROVE  /\ saving'[q] = "idle" => queue'[q] = Loaded'
               /\ saving'[q] = "open" => Made(Loaded', queue'[q], receipt'[q])
    BY <1>1, <1>3 DEF Fresh
  <1>6. Fresh'
    BY <1>4, <1>5 DEF Fresh, Made, AddedTo, ClaimedIn, CanceledIn, EndedIn
  <1> QED BY <1>1, <1>2, <1>6, AuthorityFrame

LEMMA StutterFresh ==
  ASSUME Fresh, UNCHANGED vars
  PROVE  Fresh' /\ Authority' = Authority
  <1>1. UNCHANGED <<file, live, queue, saving, receipt, behind>>
    BY DEF vars, history
  <1>2. Writers' = Writers /\ Loaded' = Loaded
    BY <1>1 DEF Writers, Loaded
  <1>3. Fresh'
    BY <1>1, <1>2 DEF Fresh, Made, AddedTo, ClaimedIn, CanceledIn, EndedIn
  <1> QED BY <1>1, <1>2, <1>3 DEF Authority

\* What was disturbed stays so.
LEMMA DisturbedStays ==
  ASSUME [Next]_vars, disturbed
  PROVE  disturbed'
  <1>1. ASSUME NEW p \in Procs,
               Start(p) \/ Truncate(p) \/ Write(p) \/ SaveError(p) \/ Exit(p)
        PROVE  disturbed'
    BY <1>1 DEF Start, Truncate, Write, SaveError, Exit
  <1>2. ASSUME UNCHANGED history PROVE disturbed'
    BY <1>2 DEF history
  <1> QED BY <1>1, <1>2 DEF Next, vars, Add, Cancel, Poll, Report

LEMMA NextFresh ==
  ASSUME IInv, Tidy, Fresh, [Next]_vars, ~disturbed'
  PROVE  Fresh' /\ CommitStep
  <1>1. CASE UNCHANGED vars
    BY <1>1, StutterFresh DEF CommitStep
  <1>2. ASSUME NEW p \in Procs, Start(p) \/ Write(p) \/ Exit(p) PROVE Fresh' /\ CommitStep
    BY <1>2, StartFresh, WriteFresh, ExitFresh DEF CommitStep
  <1>3. ASSUME NEW p \in Procs, Truncate(p) PROVE Fresh' /\ CommitStep
    BY <1>3, TruncateFresh DEF CommitStep, Truncate
  <1>4. ASSUME NEW p \in Procs, SaveError(p) PROVE FALSE
    BY <1>4 DEF SaveError
  <1>5. ASSUME NEW c \in Clis, Add(c) PROVE Fresh' /\ CommitStep
    BY <1>5, AddMade, ChangeFresh DEF CommitStep, history
  <1>6. ASSUME NEW c \in Clis, Cancel(c) PROVE Fresh' /\ CommitStep
    BY <1>6, CancelMade, ChangeFresh DEF CommitStep, history
  <1>7. ASSUME NEW d \in Daemons, Poll(d) PROVE Fresh' /\ CommitStep
    BY <1>7, PollMade, ChangeFresh DEF CommitStep, history
  <1>8. ASSUME NEW d \in Daemons, NEW id \in workers[d], NEW outcome \in {Done, Failed},
               Report(d, id, outcome)
        PROVE  Fresh' /\ CommitStep
    BY <1>8, ReportMade, ChangeFresh DEF CommitStep, history
  <1> QED BY <1>1, <1>2, <1>3, <1>4, <1>5, <1>6, <1>7, <1>8 DEF Next

\* Until a stale list is saved or a save cut short, Fresh holds.
LEMMA FreshInvariant == Spec => [](IInv /\ Tidy /\ (~disturbed => Fresh))
  <1>1. Init => Tidy /\ (~disturbed => Fresh)
    BY InitTidy, InitFresh
  <1>2. /\ IInv /\ Tidy /\ (~disturbed => Fresh) /\ [Next]_vars
        => Tidy' /\ (~disturbed' => Fresh')
    BY NextTidy, NextFresh, DisturbedStays DEF IInv
  <1> QED BY <1>1, <1>2, Invariance, PTL DEF Spec
-----------------------------------------------------------------------------
(* The ledger.                                                             *)

LEMMA LedgerOfAdd ==
  ASSUME NEW s, Good(s), NEW n \in Nat
  PROVE  LedgerOf(AddTask(s, n)) =
           Append(LedgerOf(s), [prompt |-> n, status |-> "pending"])
  <1> DEFINE e == [id |-> s.nextID, prompt |-> n, status |-> Pending]
             t == Append(s.tasks, e)
             m == Len(s.tasks)
             l == LedgerOf(s)
             r == [prompt |-> n, status |-> "pending"]
  <1>1. s.tasks \in Seq(Task) /\ m \in Nat
    BY DEF Good, Store
  <1>2. DOMAIN t = 1 .. m + 1 /\ t[m + 1] = e /\ \A i \in 1 .. m : t[i] = s.tasks[i]
    BY <1>1
  <1>3. AddTask(s, n).tasks = t
    BY DEF AddTask
  <1>4. e.prompt = n /\ e.status = "pending"
    BY DEF Pending
  <1>5. l = [i \in 1 .. m |-> [prompt |-> s.tasks[i].prompt, status |-> s.tasks[i].status]]
    BY <1>1 DEF LedgerOf
  <1>6. Len(l) = m /\ DOMAIN l = 1 .. m
    BY <1>1, <1>5
  <1>7. Append(l, r) = [i \in 1 .. m + 1 |-> IF i = m + 1 THEN r ELSE l[i]]
    BY <1>1, <1>5, <1>6
  <1> HIDE DEF e, t, l, m
  <1>8. LedgerOf(AddTask(s, n)) =
          [i \in 1 .. m + 1 |-> [prompt |-> t[i].prompt, status |-> t[i].status]]
    BY <1>2, <1>3 DEF LedgerOf
  <1>9. ASSUME NEW i \in 1 .. m + 1
        PROVE  [prompt |-> t[i].prompt, status |-> t[i].status]
                 = IF i = m + 1 THEN r ELSE l[i]
    <2>1. CASE i = m + 1
      BY <2>1, <1>2, <1>4
    <2>2. CASE i # m + 1
      <3>1. i \in 1 .. m
        BY <2>2, <1>1
      <3> QED BY <2>2, <3>1, <1>2, <1>5
    <2> QED BY <2>1, <2>2
  <1>10. LedgerOf(AddTask(s, n)) = Append(l, r)
    BY <1>7, <1>8, <1>9
  <1> QED BY <1>10 DEF l

LEMMA LedgerOfStatus ==
  ASSUME NEW s, Good(s), NEW i \in DOMAIN s.tasks, NEW st \in Statuses
  PROVE  /\ LedgerOf(SetStatus(s, i, st)) = [LedgerOf(s) EXCEPT ![i].status = st]
         /\ DOMAIN LedgerOf(s) = DOMAIN s.tasks
         /\ \A j \in DOMAIN s.tasks : LedgerOf(s)[j].status = s.tasks[j].status
  <1> DEFINE t == SetStatus(s, i, st).tasks
             l == LedgerOf(s)
             e == [l EXCEPT ![i].status = st]
  <1>1. /\ DOMAIN t = DOMAIN s.tasks
        /\ \A j \in DOMAIN s.tasks :
             /\ t[j].prompt = s.tasks[j].prompt
             /\ t[j].status = IF j = i THEN st ELSE s.tasks[j].status
    BY SetStatusValue DEF Good
  <1>2. l = [j \in DOMAIN s.tasks |->
              [prompt |-> s.tasks[j].prompt, status |-> s.tasks[j].status]]
    BY DEF LedgerOf
  <1> HIDE DEF l, t
  <1>3. LedgerOf(SetStatus(s, i, st)) =
          [j \in DOMAIN s.tasks |-> [prompt |-> t[j].prompt, status |-> t[j].status]]
    BY <1>1 DEF LedgerOf, t
  <1>4. e = [j \in DOMAIN s.tasks |->
              IF j = i THEN [l[i] EXCEPT !.status = st] ELSE l[j]]
    BY <1>2
  <1>5. [l[i] EXCEPT !.status = st] = [prompt |-> s.tasks[i].prompt, status |-> st]
    BY <1>2
  <1> HIDE DEF e
  <1>6. ASSUME NEW j \in DOMAIN s.tasks
        PROVE  [prompt |-> t[j].prompt, status |-> t[j].status]
                 = IF j = i THEN [l[i] EXCEPT !.status = st] ELSE l[j]
    <2>1. CASE j = i
      BY <2>1, <1>1, <1>5
    <2>2. CASE j # i
      BY <2>2, <1>1, <1>2
    <2> QED BY <2>1, <2>2
  <1>7. LedgerOf(SetStatus(s, i, st)) = e
    BY <1>3, <1>4, <1>6
  <1> QED BY <1>2, <1>7 DEF e, l

\* A change that a method makes of a list is a step of the ledger, or the one
\* step the code makes beyond it.
LEMMA LedgerStep ==
  ASSUME NEW s, Good(s), NEW t, NEW r, Made(s, t, r)
  PROVE  \/ \E p \in Prompts :
              LedgerOf(t) = Append(LedgerOf(s), [prompt |-> p, status |-> "pending"])
         \/ \E i \in DOMAIN LedgerOf(s), st \in Statuses :
              /\ LedgerOf(t) = [LedgerOf(s) EXCEPT ![i].status = st]
              /\ i \in DOMAIN s.tasks
              /\ \/ /\ st = Running /\ LedgerOf(s)[i].status = Pending
                    /\ \A j \in 1 .. i - 1 : LedgerOf(s)[j].status # Pending
                 \/ st \in {Done, Failed} /\ LedgerOf(s)[i].status = Running
                 \/ st = Canceled /\ LedgerOf(s)[i].status \in {Pending, Running, Failed}
  <1>1. CASE AddedTo(s, t, r)
    <2>1. r.prompt \in Prompts /\ r.prompt \in Nat
      BY <1>1 DEF AddedTo, Prompts
    <2> QED BY <1>1, <2>1, LedgerOfAdd DEF AddedTo
  <1>2. ASSUME NEW i \in DOMAIN s.tasks, NEW st \in Statuses, t = SetStatus(s, i, st),
               \/ /\ st = Running /\ s.tasks[i].status = Pending
                  /\ \A j \in DOMAIN s.tasks : j < i => s.tasks[j].status # Pending
               \/ st \in {Done, Failed} /\ s.tasks[i].status = Running
               \/ st = Canceled /\ s.tasks[i].status \in {Pending, Running, Failed}
        PROVE  /\ i \in DOMAIN LedgerOf(s)
               /\ LedgerOf(t) = [LedgerOf(s) EXCEPT ![i].status = st]
               /\ \/ /\ st = Running /\ LedgerOf(s)[i].status = Pending
                     /\ \A j \in 1 .. i - 1 : LedgerOf(s)[j].status # Pending
                  \/ st \in {Done, Failed} /\ LedgerOf(s)[i].status = Running
                  \/ st = Canceled /\ LedgerOf(s)[i].status \in {Pending, Running, Failed}
    <2>1. /\ LedgerOf(t) = [LedgerOf(s) EXCEPT ![i].status = st]
          /\ DOMAIN LedgerOf(s) = DOMAIN s.tasks
          /\ \A j \in DOMAIN s.tasks : LedgerOf(s)[j].status = s.tasks[j].status
      BY <1>2, LedgerOfStatus
    <2>2. \A j \in 1 .. i - 1 : j \in DOMAIN s.tasks /\ j < i
      BY DEF Good, Store
    <2> QED BY <1>2, <2>1, <2>2
  <1>3. CASE ClaimedIn(s, t, r)
    <2>1. PICK i \in DOMAIN s.tasks : ClaimAt(s, i) /\ t = SetStatus(s, i, Running)
      BY <1>3 DEF ClaimedIn
    <2>2. /\ s.tasks[i].status = Pending /\ Running \in Statuses
          /\ \A j \in DOMAIN s.tasks : j < i => s.tasks[j].status # Pending
      BY <2>1 DEF ClaimAt, IsFirst, Good, Store, Statuses
    <2> QED BY <1>2, <2>1, <2>2
  <1>4. CASE CanceledIn(s, t, r)
    <2>1. PICK i \in DOMAIN s.tasks :
            Cancelable(s.tasks[i]) /\ t = SetStatus(s, i, Canceled)
      BY <1>4 DEF CanceledIn
    <2>2. s.tasks[i].status \in Statuses /\ Canceled \in Statuses
      <3>1. s.tasks[i] \in Task
        BY DEF Good, Store
      <3> QED BY <3>1 DEF Task, Statuses
    <2>3. s.tasks[i].status \in {Pending, Running, Failed}
      BY <2>1, <2>2 DEF Cancelable, Statuses
    <2> QED BY <1>2, <2>1, <2>2, <2>3
  <1>5. CASE EndedIn(s, t, r)
    <2>1. PICK i \in DOMAIN s.tasks, st \in {Done, Failed} :
            s.tasks[i].status = Running /\ t = SetStatus(s, i, st)
      BY <1>5 DEF EndedIn
    <2>2. st \in Statuses
      BY DEF Statuses
    <2> QED BY <1>2, <2>1, <2>2
  <1> QED BY <1>1, <1>3, <1>4, <1>5 DEF Made

\* Until a process saves a list older than the file, or a save is cut short,
\* the file is the ledger that taskqueue.go promises, except that a failed
\* task may still be canceled: nothing else is lost, reordered or undone, by
\* any number of daemons and commands that overlap, start and die.
THEOREM SavesAreALedger == Spec => ImplementsLedger
  <1> DEFINE Step == ~disturbed' =>
               \/ Ledger!Next
               \/ \E i \in DOMAIN Authority.tasks : Ledger!Overturn(i)
               \/ UNCHANGED LedgerOf(Authority)
  <1>1. Init => Ledger!Init
    <2> SUFFICES ASSUME Init PROVE LedgerOf(Authority) = <<>>
      BY DEF Ledger!Init
    <2>1. Authority = EmptyStore
      BY DEF Init, Authority, Writers, Loaded, Unreadable
    <2> QED BY <2>1 DEF LedgerOf, EmptyStore
  <1>2. ASSUME IInv, Tidy, ~disturbed => Fresh, [Next]_vars, ~disturbed'
        PROVE  \/ Ledger!Next
               \/ \E i \in DOMAIN Authority.tasks : Ledger!Overturn(i)
               \/ UNCHANGED LedgerOf(Authority)
    <2>1. CommitStep /\ Good(Authority)
      BY <1>2, DisturbedStays, NextFresh, AuthorityGood
    <2>2. LedgerOf(Authority)' = LedgerOf(Authority')
      BY DEF LedgerOf
    <2>3. CASE Authority' = Authority
      BY <2>2, <2>3
    <2>4. ASSUME NEW r, Made(Authority, Authority', r)
          PROVE  \/ Ledger!Next
                 \/ \E i \in DOMAIN Authority.tasks : Ledger!Overturn(i)
      <3> DEFINE l == LedgerOf(Authority)
      <3>1. \/ \E p \in Prompts :
                 LedgerOf(Authority') = Append(l, [prompt |-> p, status |-> "pending"])
            \/ \E i \in DOMAIN l, st \in Statuses :
                 /\ LedgerOf(Authority') = [l EXCEPT ![i].status = st]
                 /\ i \in DOMAIN Authority.tasks
                 /\ \/ /\ st = Running /\ l[i].status = Pending
                       /\ \A j \in 1 .. i - 1 : l[j].status # Pending
                    \/ st \in {Done, Failed} /\ l[i].status = Running
                    \/ st = Canceled /\ l[i].status \in {Pending, Running, Failed}
        BY <2>1, <2>4, LedgerStep
      <3>2. ASSUME NEW p \in Prompts,
                   LedgerOf(Authority') = Append(l, [prompt |-> p, status |-> "pending"])
            PROVE  Ledger!Next
        BY <2>2, <3>2 DEF Ledger!Next, Ledger!Submit
      <3>3. ASSUME NEW i \in DOMAIN l, NEW st,
                   LedgerOf(Authority') = [l EXCEPT ![i].status = st],
                   i \in DOMAIN Authority.tasks,
                   \/ /\ st = Running /\ l[i].status = Pending
                      /\ \A j \in 1 .. i - 1 : l[j].status # Pending
                   \/ st \in {Done, Failed} /\ l[i].status = Running
                   \/ st = Canceled /\ l[i].status \in {Pending, Running, Failed}
            PROVE  \/ Ledger!Next
                   \/ \E k \in DOMAIN Authority.tasks : Ledger!Overturn(k)
        <4> USE DEF Pending, Running, Done, Failed, Canceled
        <4>1. CASE /\ st = Running /\ l[i].status = Pending
                   /\ \A j \in 1 .. i - 1 : l[j].status # Pending
          BY <2>2, <3>3, <4>1 DEF Ledger!Next, Ledger!Claim, Ledger!Move
        <4>2. CASE st \in {Done, Failed} /\ l[i].status = Running
          BY <2>2, <3>3, <4>2 DEF Ledger!Next, Ledger!Finish, Ledger!Move
        <4>3. CASE st = Canceled /\ l[i].status \in {Pending, Running}
          BY <2>2, <3>3, <4>3 DEF Ledger!Next, Ledger!Cancel, Ledger!Move
        <4>4. CASE st = Canceled /\ l[i].status = Failed
          BY <2>2, <3>3, <4>4 DEF Ledger!Overturn, Ledger!Move
        <4> QED BY <3>3, <4>1, <4>2, <4>3, <4>4
      <3> QED BY <3>1, <3>2, <3>3
    <2> QED BY <2>1, <2>3, <2>4 DEF CommitStep
  <1>3. IInv /\ Tidy /\ (~disturbed => Fresh) /\ [Next]_vars => [Step]_vars
    BY <1>2
  <1>4. Spec => [][Step]_vars
    BY <1>3, FreshInvariant, PTL DEF Spec
  <1> QED BY <1>1, <1>4, PTL DEF Spec, ImplementsLedger
-----------------------------------------------------------------------------
(* At most once.                                                           *)

\* Every prompt of a list is one of the first n submissions, and there once.
Numbered(s, n) ==
  \A i \in DOMAIN s.tasks :
    /\ s.tasks[i].prompt <= n
    /\ \A j \in DOMAIN s.tasks : s.tasks[i].prompt = s.tasks[j].prompt => i = j

AllNumbered ==
  /\ Numbered(file.store, adds)
  /\ \A p \in Procs : Numbered(queue[p], adds) /\ receipt[p].prompt <= adds
  /\ \A n \in claimed : n <= adds

\* Nobody who still waits in the list that counts was handed out, and no
\* process that is not behind is about to hand out, or to add, what was.
Once ==
  /\ reclaimed = {}
  /\ \A i \in DOMAIN Authority.tasks :
       Authority.tasks[i].status = Pending => Authority.tasks[i].prompt \notin claimed
  /\ \A p \in live \ behind : saving[p] # "idle" =>
       /\ receipt[p].op \in {"add", "claim"} => receipt[p].prompt \notin claimed
       /\ receipt[p].op = "claim" =>
            \A i \in DOMAIN queue[p].tasks :
              queue[p].tasks[i].status = Pending
                => queue[p].tasks[i].prompt # receipt[p].prompt

LEMMA EmptyNumbered ==
  ASSUME NEW n \in Nat
  PROVE  Numbered(EmptyStore, n)
  BY DEF Numbered, EmptyStore

LEMMA NumberedGrows ==
  ASSUME NEW s, s \in Store, NEW m \in Nat, NEW n \in Nat, m <= n, Numbered(s, m)
  PROVE  Numbered(s, n)
  <1>1. \A i \in DOMAIN s.tasks : s.tasks[i] \in Task
    BY DEF Store
  <1>2. \A i \in DOMAIN s.tasks : s.tasks[i].prompt \in Nat
    BY <1>1 DEF Task
  <1> QED BY <1>2 DEF Numbered

LEMMA StatusNumbered ==
  ASSUME NEW s, Good(s), NEW i \in DOMAIN s.tasks, NEW st \in Statuses,
         NEW n, Numbered(s, n)
  PROVE  Numbered(SetStatus(s, i, st), n)
  <1> DEFINE t == SetStatus(s, i, st)
  <1>1. /\ DOMAIN t.tasks = DOMAIN s.tasks
        /\ \A j \in DOMAIN s.tasks : t.tasks[j].prompt = s.tasks[j].prompt
    BY SetStatusValue DEF Good
  <1> HIDE DEF t
  <1>2. Numbered(t, n)
    BY <1>1 DEF Numbered
  <1> QED BY <1>2 DEF t

\* The positions and prompts of a list after Add.
LEMMA AddValue ==
  ASSUME NEW s, Good(s), NEW n \in Nat
  PROVE  /\ Len(s.tasks) \in Nat /\ DOMAIN s.tasks = 1 .. Len(s.tasks)
         /\ DOMAIN AddTask(s, n).tasks = 1 .. Len(s.tasks) + 1
         /\ \A i \in 1 .. Len(s.tasks) : AddTask(s, n).tasks[i] = s.tasks[i]
         /\ AddTask(s, n).tasks[Len(s.tasks) + 1] =
              [id |-> s.nextID, prompt |-> n, status |-> Pending]
  BY DEF AddTask, Good, Store

LEMMA AddNumbered ==
  ASSUME NEW s, Good(s), NEW n \in Nat, Numbered(s, n)
  PROVE  Numbered(AddTask(s, n + 1), n + 1)
  <1> DEFINE t == AddTask(s, n + 1)
             m == Len(s.tasks)
  <1>1. /\ m \in Nat /\ DOMAIN s.tasks = 1 .. m /\ DOMAIN t.tasks = 1 .. m + 1
        /\ \A i \in 1 .. m : t.tasks[i] = s.tasks[i]
        /\ t.tasks[m + 1] = [id |-> s.nextID, prompt |-> n + 1, status |-> Pending]
    <2>1. n + 1 \in Nat
      OBVIOUS
    <2> QED BY <2>1, AddValue
  <1>2. \A i \in 1 .. m : s.tasks[i] \in Task
    BY <1>1 DEF Good, Store
  <1>3. \A i \in 1 .. m : s.tasks[i].prompt \in Nat /\ s.tasks[i].prompt <= n
    BY <1>1, <1>2 DEF Task, Numbered
  <1>4. t.tasks[m + 1].prompt = n + 1
    BY <1>1
  <1> HIDE DEF t, m
  <1>5. ASSUME NEW i \in 1 .. m + 1
        PROVE  /\ t.tasks[i].prompt <= n + 1
               /\ t.tasks[i].prompt = n + 1 => i = m + 1
               /\ i # m + 1 => i \in 1 .. m
    BY <1>1, <1>3, <1>4
  <1>6. ASSUME NEW i \in 1 .. m + 1, NEW j \in 1 .. m + 1,
               t.tasks[i].prompt = t.tasks[j].prompt
        PROVE  i = j
    <2>1. CASE i = m + 1 \/ j = m + 1
      BY <2>1, <1>4, <1>5, <1>6
    <2>2. CASE i # m + 1 /\ j # m + 1
      <3>1. i \in 1 .. m /\ j \in 1 .. m
        BY <2>2, <1>5
      <3> QED BY <3>1, <1>1, <1>6 DEF Numbered
    <2> QED BY <2>1, <2>2
  <1>7. Numbered(t, n + 1)
    BY <1>1, <1>5, <1>6 DEF Numbered
  <1> QED BY <1>7 DEF t

LEMMA NextNumbered ==
  ASSUME IInv, Tidy, AllNumbered, [Next]_vars
  PROVE  AllNumbered'
  <1>1. /\ adds \in Nat /\ \A p \in Procs : Good(queue[p]) /\ queue[p] \in Store
        /\ Good(file.store) /\ file.store \in Store /\ claimed \subseteq Nat
    BY BoundAssumption DEF IInv, TypeOK, Good
  <1>2. Numbered(Loaded, adds)
    BY <1>1, LoadGood, EmptyNumbered DEF Loaded, AllNumbered
  <1>3. ASSUME UNCHANGED <<file, adds, claimed>>,
               \A q \in Procs : /\ Numbered(queue'[q], adds)
                                /\ receipt'[q].prompt <= adds
        PROVE  AllNumbered'
    BY <1>3 DEF AllNumbered, Numbered
  <1>4. CASE UNCHANGED vars
    BY <1>3, <1>4 DEF AllNumbered, vars, history
  <1>5. ASSUME NEW p \in Procs, Start(p) PROVE AllNumbered'
    <2>1. /\ queue'[p] = Loaded /\ \A q \in Procs \ {p} : queue'[q] = queue[q]
          /\ UNCHANGED <<file, adds, claimed, receipt>>
      BY <1>5 DEF Start, IInv, TypeOK
    <2> QED BY <2>1, <1>2, <1>3 DEF AllNumbered
  <1>6. ASSUME NEW p \in Procs, Truncate(p) PROVE AllNumbered'
    BY <1>1, <1>6, EmptyNumbered DEF Truncate, Unreadable, AllNumbered, Numbered
  <1>7. ASSUME NEW p \in Procs, Write(p) \/ SaveError(p) PROVE AllNumbered'
    <2>1. Return(p) /\ adds' = adds
      BY <1>7 DEF Write, SaveError, Return
    <2>2. Numbered(file'.store, adds)
      BY <1>1, <1>7, EmptyNumbered DEF Write, SaveError, Json, Unreadable, AllNumbered
    <2>3. \A q \in Procs : Numbered(queue'[q], adds)
      <3>1. queue' = queue \/ queue' = [queue EXCEPT ![p] = EmptyStore]
        BY <2>1 DEF Return
      <3> QED BY <3>1, <1>1, EmptyNumbered DEF AllNumbered, IInv, TypeOK
    <2>4. \A q \in Procs : receipt'[q].prompt <= adds
      <3>1. /\ receipt'[p] = NoReceipt
            /\ \A q \in Procs \ {p} : receipt'[q] = receipt[q]
        BY <2>1 DEF Return, IInv, TypeOK
      <3> QED BY <3>1, <1>1 DEF AllNumbered, NoReceipt
    <2>5. \A n \in claimed' : n <= adds
      BY <2>1 DEF Return, Handed, AllNumbered
    <2> QED BY <2>1, <2>2, <2>3, <2>4, <2>5 DEF AllNumbered, Numbered
  <1>8. ASSUME NEW p \in Procs, Exit(p) PROVE AllNumbered'
    <2>1. /\ queue'[p] = EmptyStore /\ receipt'[p] = NoReceipt
          /\ \A q \in Procs \ {p} : queue'[q] = queue[q] /\ receipt'[q] = receipt[q]
          /\ UNCHANGED <<file, adds, claimed>>
      BY <1>8 DEF Exit, IInv, TypeOK
    <2> QED BY <2>1, <1>1, <1>3, EmptyNumbered DEF AllNumbered, NoReceipt
  <1>9. ASSUME NEW c \in Clis, Add(c) PROVE AllNumbered'
    <2>1. /\ c \in Procs /\ Idle(c) /\ Good(AddTask(queue[c], adds'))
          /\ Change(c, AddTask(queue[c], adds'))
          /\ receipt'[c].prompt = adds' /\ adds' = adds + 1 /\ UNCHANGED history
          /\ \A q \in Procs \ {c} : receipt'[q] = receipt[q]
      BY <1>9, AddMade
    <2>2. /\ queue'[c] = AddTask(queue[c], adds + 1) /\ file' = file
          /\ \A q \in Procs \ {c} : queue'[q] = queue[q]
      BY <2>1, ChangeValue
    <2>3. Numbered(queue'[c], adds + 1)
      BY <1>1, <2>1, <2>2, AddNumbered DEF AllNumbered
    <2>4. /\ Numbered(file.store, adds + 1)
          /\ \A q \in Procs : Numbered(queue[q], adds + 1)
      BY <1>1, NumberedGrows DEF AllNumbered
    <2>5. \A q \in Procs : Numbered(queue'[q], adds + 1)
      BY <2>2, <2>3, <2>4
    <2>6. \A q \in Procs : receipt[q].prompt \in Nat
      <3>1. \A q \in Procs : receipt[q] \in Receipts \cup {NoReceipt}
        BY DEF IInv, TypeOK
      <3> QED BY <3>1 DEF Receipts, NoReceipt
    <2>7. \A q \in Procs : receipt'[q].prompt <= adds + 1
      BY <1>1, <2>1, <2>6 DEF AllNumbered
    <2>8. \A n \in claimed' : n <= adds + 1
      BY <1>1, <2>1 DEF AllNumbered, history
    <2> QED BY <2>1, <2>2, <2>4, <2>5, <2>7, <2>8 DEF AllNumbered, Numbered
  <1>10. ASSUME NEW p \in Procs, NEW i \in DOMAIN queue[p].tasks, NEW st \in Statuses,
                Idle(p), Good(SetStatus(queue[p], i, st)),
                Change(p, SetStatus(queue[p], i, st)), UNCHANGED <<adds, claimed>>,
                receipt'[p].prompt <= adds,
                \A q \in Procs \ {p} : receipt'[q] = receipt[q]
         PROVE  AllNumbered'
    <2>1. /\ queue'[p] = SetStatus(queue[p], i, st) /\ file' = file
          /\ \A q \in Procs \ {p} : queue'[q] = queue[q]
      BY <1>10, ChangeValue
    <2>2. Numbered(queue'[p], adds)
      BY <1>1, <2>1, StatusNumbered DEF AllNumbered
    <2> QED BY <1>3, <1>10, <2>1, <2>2 DEF AllNumbered
  <1>11. {Running, Done, Failed, Canceled} \subseteq Statuses
    BY DEF Statuses
  <1>12. ASSUME NEW c \in Clis, Cancel(c) PROVE AllNumbered'
    <2>1. PICK i \in DOMAIN queue[c].tasks :
            /\ c \in Procs /\ Idle(c) /\ Good(SetStatus(queue[c], i, Canceled))
            /\ Change(c, SetStatus(queue[c], i, Canceled))
            /\ receipt'[c].prompt = queue[c].tasks[i].prompt
            /\ \A q \in Procs \ {c} : receipt'[q] = receipt[q]
            /\ UNCHANGED <<adds, history>>
      BY <1>12, CancelMade
    <2>2. receipt'[c].prompt <= adds /\ UNCHANGED <<adds, claimed>>
      BY <2>1 DEF AllNumbered, Numbered, history
    <2> QED BY <1>10, <1>11, <2>1, <2>2
  <1>13. ASSUME NEW d \in Daemons, Poll(d) PROVE AllNumbered'
    <2>1. PICK i \in DOMAIN queue[d].tasks :
            /\ d \in Procs /\ Idle(d) /\ Good(SetStatus(queue[d], i, Running))
            /\ Change(d, SetStatus(queue[d], i, Running))
            /\ receipt'[d].prompt = queue[d].tasks[i].prompt
            /\ \A q \in Procs \ {d} : receipt'[q] = receipt[q]
            /\ UNCHANGED <<adds, history>>
      BY <1>13, PollMade
    <2>2. receipt'[d].prompt <= adds /\ UNCHANGED <<adds, claimed>>
      BY <2>1 DEF AllNumbered, Numbered, history
    <2> QED BY <1>10, <1>11, <2>1, <2>2
  <1>14. ASSUME NEW d \in Daemons, NEW id \in workers[d], NEW outcome \in {Done, Failed},
                Report(d, id, outcome)
         PROVE  AllNumbered'
    BY <1>1, <1>10, <1>11, <1>14, ReportMade DEF AllNumbered, history, NoReceipt
  <1> QED BY <1>4, <1>5, <1>6, <1>7, <1>8, <1>9, <1>12, <1>13, <1>14 DEF Next

\* A step that neither commits nor hands out, for everybody but p.
LEMMA OnceFrame ==
  ASSUME Once, Authority' = Authority, UNCHANGED <<claimed, reclaimed>>, NEW p,
         \A q \in (live' \ behind') \ {p} : saving'[q] # "idle" =>
           /\ q \in live \ behind /\ saving[q] # "idle"
           /\ receipt'[q] = receipt[q] /\ queue'[q] = queue[q],
         p \in live' \ behind' /\ saving'[p] # "idle" =>
           /\ receipt'[p].op \in {"add", "claim"} => receipt'[p].prompt \notin claimed
           /\ receipt'[p].op = "claim" =>
                \A i \in DOMAIN queue'[p].tasks :
                  queue'[p].tasks[i].status = Pending
                    => queue'[p].tasks[i].prompt # receipt'[p].prompt
  PROVE  Once'
  <1>1. \A q \in live' \ behind' : saving'[q] # "idle" =>
          /\ receipt'[q].op \in {"add", "claim"} => receipt'[q].prompt \notin claimed
          /\ receipt'[q].op = "claim" =>
               \A i \in DOMAIN queue'[q].tasks :
                 queue'[q].tasks[i].status = Pending
                   => queue'[q].tasks[i].prompt # receipt'[q].prompt
    BY DEF Once
  <1> QED BY <1>1 DEF Once

LEMMA ChangeOnce ==
  ASSUME IInv, Tidy, Fresh, Once, NEW p \in Procs, Idle(p), NEW s, Good(s), Change(p, s),
         UNCHANGED history, \A q \in Procs \ {p} : receipt'[q] = receipt[q],
         Made(queue[p], s, receipt'[p]),
         p \notin behind =>
           /\ receipt'[p].op \in {"add", "claim"} => receipt'[p].prompt \notin claimed
           /\ receipt'[p].op = "claim" =>
                \A i \in DOMAIN s.tasks :
                  s.tasks[i].status = Pending => s.tasks[i].prompt # receipt'[p].prompt
  PROVE  Once'
  <1>1. Authority' = Authority
    BY ChangeFresh DEF history
  <1>2. /\ queue'[p] = s /\ live' = live /\ live \subseteq Procs
        /\ \A q \in Procs \ {p} : queue'[q] = queue[q] /\ saving'[q] = saving[q]
        /\ UNCHANGED <<behind, claimed, reclaimed>>
    BY ChangeValue DEF history, IInv, TypeOK
  <1> QED BY <1>1, <1>2, OnceFrame

\* The commit of a change that was not handed out before.
LEMMA MadeOnce ==
  ASSUME NEW s, Good(s), NEW t, NEW r, Made(s, t, r), NEW C,
         \A i \in DOMAIN s.tasks : s.tasks[i].status = Pending => s.tasks[i].prompt \notin C,
         r.op = "add" => r.prompt \notin C
  PROVE  \A i \in DOMAIN t.tasks : t.tasks[i].status = Pending => t.tasks[i].prompt \notin C
  <1>1. CASE AddedTo(s, t, r)
    <2>1. r.prompt \in Nat /\ t = AddTask(s, r.prompt) /\ r.prompt \notin C
      BY <1>1 DEF AddedTo, Prompts
    <2> DEFINE m == Len(s.tasks)
    <2>2. /\ m \in Nat /\ DOMAIN s.tasks = 1 .. m /\ DOMAIN t.tasks = 1 .. m + 1
          /\ \A i \in 1 .. m : t.tasks[i] = s.tasks[i]
          /\ t.tasks[m + 1] = [id |-> s.nextID, prompt |-> r.prompt, status |-> Pending]
      BY <2>1, AddValue
    <2>3. t.tasks[m + 1].prompt \notin C
      BY <2>1, <2>2
    <2> HIDE DEF m
    <2> QED BY <2>2, <2>3
  <1>2. ASSUME NEW i \in DOMAIN s.tasks, NEW st \in Statuses, st # Pending,
               t = SetStatus(s, i, st)
        PROVE  \A j \in DOMAIN t.tasks :
                 t.tasks[j].status = Pending => t.tasks[j].prompt \notin C
    <2>1. /\ DOMAIN t.tasks = DOMAIN s.tasks
          /\ \A j \in DOMAIN s.tasks :
               /\ t.tasks[j].prompt = s.tasks[j].prompt
               /\ t.tasks[j].status = IF j = i THEN st ELSE s.tasks[j].status
      BY <1>2, SetStatusValue DEF Good
    <2> QED BY <1>2, <2>1
  <1>3. /\ {Running, Done, Failed, Canceled} \subseteq Statuses
        /\ Pending \notin {Running, Done, Failed, Canceled}
    BY DEF Statuses, Pending, Running, Done, Failed, Canceled
  <1>4. CASE ClaimedIn(s, t, r)
    BY <1>2, <1>3, <1>4 DEF ClaimedIn
  <1>5. CASE CanceledIn(s, t, r)
    BY <1>2, <1>3, <1>5 DEF CanceledIn
  <1>6. CASE EndedIn(s, t, r)
    BY <1>2, <1>3, <1>6 DEF EndedIn
  <1> QED BY <1>1, <1>4, <1>5, <1>6 DEF Made

LEMMA NextOnce ==
  ASSUME IInv, Tidy, Fresh, AllNumbered, Once, [Next]_vars, ~disturbed'
  PROVE  Once'
  <1>1. /\ adds \in Nat /\ claimed \subseteq Nat /\ live \subseteq Procs
        /\ Good(Authority) /\ \A p \in Procs : Good(queue[p])
    BY BoundAssumption, AuthorityGood DEF IInv, TypeOK
  <1>2. CASE UNCHANGED vars
    <2>1. /\ Authority' = Authority
          /\ UNCHANGED <<live, behind, saving, receipt, queue, claimed, reclaimed>>
      BY <1>2, StutterFresh DEF vars, history
    <2> QED BY <2>1 DEF Once
  <1>3. ASSUME NEW p \in Procs, Start(p) PROVE Once'
    <2>1. Authority' = Authority
      BY <1>3, StartFresh
    <2>2. /\ live' = live \cup {p} /\ saving' = saving /\ saving[p] = "idle"
          /\ behind \subseteq behind' /\ UNCHANGED <<claimed, reclaimed, receipt>>
          /\ \A q \in Procs \ {p} : queue'[q] = queue[q]
      BY <1>3 DEF Start, Tidy, IInv, TypeOK
    <2> QED BY <1>1, <2>1, <2>2, OnceFrame
  <1>4. ASSUME NEW p \in Procs, Exit(p) PROVE Once'
    <2>1. Authority' = Authority
      BY <1>4, ExitFresh
    <2>2. /\ live' = live \ {p} /\ behind' = behind \ {p}
          /\ UNCHANGED <<claimed, reclaimed>>
          /\ \A q \in Procs \ {p} : /\ queue'[q] = queue[q] /\ saving'[q] = saving[q]
                                    /\ receipt'[q] = receipt[q]
      BY <1>4 DEF Exit, IInv, TypeOK
    <2> QED BY <1>1, <2>1, <2>2, OnceFrame
  <1>5. ASSUME NEW p \in Procs, Truncate(p) PROVE Once'
    <2>1. Authority' = queue[p] /\ Made(Authority, Authority', receipt[p])
      BY <1>5, TruncateFresh
    <2>2. /\ p \in live \ behind /\ saving[p] # "idle" /\ live' = live
          /\ behind' = live \ {p}
          /\ UNCHANGED <<claimed, reclaimed, receipt, queue>>
      BY <1>5 DEF Truncate
    <2>3. \A i \in DOMAIN Authority.tasks :
            Authority.tasks[i].status = Pending => Authority.tasks[i].prompt \notin claimed
      BY DEF Once
    <2>4. receipt[p].op = "add" => receipt[p].prompt \notin claimed
      BY <2>2 DEF Once
    <2>5. \A i \in DOMAIN queue[p].tasks :
            queue[p].tasks[i].status = Pending => queue[p].tasks[i].prompt \notin claimed
      BY <1>1, <2>1, <2>3, <2>4, MadeOnce
    <2>6. \A q \in live' \ behind' : q = p
      BY <2>2
    <2> QED BY <2>1, <2>2, <2>5, <2>6 DEF Once
  <1>6. ASSUME NEW p \in Procs, Write(p) PROVE Once'
    <2>1. /\ Authority' = Authority /\ Authority = queue[p]
          /\ \A q \in live' \ behind' : saving'[q] = "idle"
      BY <1>6, WriteFresh
    <2>2. p \in live \ behind /\ saving[p] # "idle"
      BY <1>6 DEF Write, Fresh, Writers
    <2>3. claimed' = claimed \cup Handed(p) /\ reclaimed' = reclaimed \cup (Handed(p) \cap claimed)
      BY <1>6 DEF Write, Return
    <2>4. Handed(p) \cap claimed = {}
      BY <2>2 DEF Handed, Once
    <2>5. \A i \in DOMAIN Authority.tasks :
            Authority.tasks[i].status = Pending
              => Authority.tasks[i].prompt \notin claimed'
      BY <2>1, <2>2, <2>3 DEF Handed, Once
    <2> QED BY <2>1, <2>3, <2>4, <2>5 DEF Once
  <1>7. ASSUME NEW p \in Procs, SaveError(p) PROVE FALSE
    BY <1>7 DEF SaveError
  <1>8. ASSUME NEW c \in Clis, Add(c) PROVE Once'
    <2>1. /\ c \in Procs /\ Idle(c) /\ Good(AddTask(queue[c], adds'))
          /\ Change(c, AddTask(queue[c], adds'))
          /\ \A q \in Procs \ {c} : receipt'[q] = receipt[q]
          /\ Made(queue[c], AddTask(queue[c], adds'), receipt'[c])
          /\ receipt'[c].op = "add" /\ receipt'[c].prompt = adds' /\ adds' = adds + 1
          /\ UNCHANGED history
      BY <1>8, AddMade
    <2>2. adds' \notin claimed
      BY <1>1, <2>1 DEF AllNumbered
    <2> QED BY <2>1, <2>2, ChangeOnce
  <1>9. ASSUME NEW c \in Clis, Cancel(c) PROVE Once'
    <2>1. PICK i \in DOMAIN queue[c].tasks :
            /\ c \in Procs /\ Idle(c) /\ Good(SetStatus(queue[c], i, Canceled))
            /\ Change(c, SetStatus(queue[c], i, Canceled))
            /\ receipt'[c].op = "cancel"
            /\ \A q \in Procs \ {c} : receipt'[q] = receipt[q]
            /\ Made(queue[c], SetStatus(queue[c], i, Canceled), receipt'[c])
            /\ UNCHANGED history
      BY <1>9, CancelMade
    <2> QED BY <2>1, ChangeOnce
  <1>10. ASSUME NEW d \in Daemons, Poll(d) PROVE Once'
    <2>1. PICK i \in DOMAIN queue[d].tasks :
            /\ d \in Procs /\ Idle(d) /\ Good(SetStatus(queue[d], i, Running))
            /\ queue[d].tasks[i].status = Pending
            /\ Change(d, SetStatus(queue[d], i, Running))
            /\ receipt'[d].op = "claim"
            /\ receipt'[d].prompt = queue[d].tasks[i].prompt
            /\ \A q \in Procs \ {d} : receipt'[q] = receipt[q]
            /\ Made(queue[d], SetStatus(queue[d], i, Running), receipt'[d])
            /\ UNCHANGED history
      BY <1>10, PollMade
    <2> DEFINE s == SetStatus(queue[d], i, Running)
    <2>2. /\ DOMAIN s.tasks = DOMAIN queue[d].tasks
          /\ \A j \in DOMAIN queue[d].tasks :
               /\ s.tasks[j].prompt = queue[d].tasks[j].prompt
               /\ s.tasks[j].status = IF j = i THEN Running ELSE queue[d].tasks[j].status
      BY <1>1, <2>1, SetStatusValue DEF Good, Statuses
    <2>3. Good(s) /\ Change(d, s) /\ Made(queue[d], s, receipt'[d])
      BY <2>1
    <2> HIDE DEF s
    <2>4. \A j \in DOMAIN s.tasks :
            s.tasks[j].status = Pending => s.tasks[j].prompt # receipt'[d].prompt
      BY <2>1, <2>2 DEF AllNumbered, Numbered, Pending, Running
    <2>5. d \notin behind => receipt'[d].prompt \notin claimed
      <3>1. ASSUME d \notin behind
            PROVE  queue[d] = Authority
        <4>1. d \in live \ behind /\ saving[d] = "idle"
          BY <2>1, <3>1 DEF Idle
        <4> QED BY <4>1, NoWriter DEF Fresh
      <3> QED BY <2>1, <3>1 DEF Once
    <2> QED BY <2>1, <2>3, <2>4, <2>5, ChangeOnce
  <1>11. ASSUME NEW d \in Daemons, NEW id \in workers[d], NEW outcome \in {Done, Failed},
                Report(d, id, outcome)
         PROVE  Once'
    <2>1. PICK i \in DOMAIN queue[d].tasks :
            /\ d \in Procs /\ Idle(d) /\ Good(SetStatus(queue[d], i, outcome))
            /\ Change(d, SetStatus(queue[d], i, outcome))
            /\ receipt'[d] = NoReceipt /\ receipt' = receipt
            /\ Made(queue[d], SetStatus(queue[d], i, outcome), receipt'[d])
            /\ UNCHANGED history
      BY <1>11, ReportMade
    <2>2. receipt'[d].op = "none"
      BY <2>1 DEF NoReceipt
    <2> QED BY <2>1, <2>2, ChangeOnce
  <1> QED BY <1>2, <1>3, <1>4, <1>5, <1>6, <1>7, <1>8, <1>9, <1>10, <1>11 DEF Next

\* Until a process saves a list older than the file, or a save is cut short,
\* no submission is handed to a worker twice, by all daemons and all their
\* restarts together.
THEOREM HandedOutOnce == Spec => []AtMostOnce
  <1> DEFINE I == IInv /\ Tidy /\ (~disturbed => Fresh)
  <1>1. Init => AllNumbered /\ (~disturbed => Once)
    <2> SUFFICES ASSUME Init PROVE AllNumbered /\ Once
      OBVIOUS
    <2>1. Authority = EmptyStore
      BY DEF Init, Authority, Writers, Loaded, Unreadable
    <2>2. Once
      BY <2>1 DEF Init, Once, EmptyStore
    <2>3. AllNumbered
      BY EmptyNumbered DEF Init, AllNumbered, Unreadable, NoReceipt
    <2> QED BY <2>2, <2>3
  <1>2. I /\ AllNumbered /\ (~disturbed => Once) /\ [Next]_vars
        => AllNumbered' /\ (~disturbed' => Once')
    BY NextNumbered, NextOnce, DisturbedStays
  <1>3. (~disturbed => Once) => AtMostOnce
    BY DEF Once, AtMostOnce
  <1> QED BY <1>1, <1>2, <1>3, FreshInvariant, PTL DEF Spec

-----------------------------------------------------------------------------
(* Acknowledged commands.                                                  *)

\* What AckedCommandsHold asks of a list, for one receipt.
Holds(r, s) ==
  \E i \in DOMAIN s.tasks :
    /\ s.tasks[i].id = r.id /\ s.tasks[i].prompt = r.prompt
    /\ r.op = "cancel" => s.tasks[i].status = Canceled

\* What was acknowledged holds in the list that counts.
Promised == \A r \in acked : Holds(r, Authority)

\* What a command is about to acknowledge holds in its own list.
OwnReceipts ==
  \A c \in Clis : c \in live /\ saving[c] # "idle" => Holds(receipt[c], queue[c])

\* No method takes a task or a cancel back.
LEMMA HoldsStep ==
  ASSUME NEW s, Good(s), NEW t, NEW x, Made(s, t, x), NEW r, Holds(r, s)
  PROVE  Holds(r, t)
  <1>1. PICK i \in DOMAIN s.tasks :
          /\ s.tasks[i].id = r.id /\ s.tasks[i].prompt = r.prompt
          /\ r.op = "cancel" => s.tasks[i].status = Canceled
    BY DEF Holds
  <1>2. CASE AddedTo(s, t, x)
    <2>1. x.prompt \in Nat /\ t = AddTask(s, x.prompt)
      BY <1>2 DEF AddedTo, Prompts
    <2>2. /\ Len(s.tasks) \in Nat /\ DOMAIN s.tasks = 1 .. Len(s.tasks)
          /\ DOMAIN t.tasks = 1 .. Len(s.tasks) + 1
          /\ \A j \in 1 .. Len(s.tasks) : t.tasks[j] = s.tasks[j]
      BY <2>1, AddValue
    <2>3. i \in DOMAIN t.tasks /\ t.tasks[i] = s.tasks[i]
      BY <2>2
    <2> QED BY <1>1, <2>3 DEF Holds
  <1>3. ASSUME NEW k \in DOMAIN s.tasks, NEW st \in Statuses, t = SetStatus(s, k, st),
               st = Canceled \/ s.tasks[k].status # Canceled
        PROVE  Holds(r, t)
    <2>1. /\ i \in DOMAIN t.tasks
          /\ t.tasks[i].id = s.tasks[i].id /\ t.tasks[i].prompt = s.tasks[i].prompt
          /\ t.tasks[i].status = IF i = k THEN st ELSE s.tasks[i].status
      BY <1>3, SetStatusValue DEF Good
    <2> QED BY <1>1, <1>3, <2>1 DEF Holds
  <1>4. /\ {Running, Done, Failed, Canceled} \subseteq Statuses
        /\ Canceled \notin {Pending, Running}
    BY DEF Statuses, Pending, Running, Canceled
  <1>5. CASE ClaimedIn(s, t, x)
    BY <1>3, <1>4, <1>5 DEF ClaimedIn, ClaimAt, IsFirst
  <1>6. CASE CanceledIn(s, t, x)
    BY <1>3, <1>4, <1>6 DEF CanceledIn
  <1>7. CASE EndedIn(s, t, x)
    BY <1>3, <1>4, <1>7 DEF EndedIn
  <1> QED BY <1>2, <1>5, <1>6, <1>7 DEF Made

LEMMA NextOwnReceipts ==
  ASSUME IInv, Tidy, OwnReceipts, [Next]_vars
  PROVE  OwnReceipts'
  <1>1. /\ \A c \in Clis : c \in Procs /\ c \notin Daemons
        /\ \A d \in Daemons : d \in Procs
        /\ \A p \in Procs : Good(queue[p])
    BY ProcsAssumption DEF Procs, IInv
  <1>2. ASSUME NEW p \in Procs, saving'[p] = "idle" \/ p \notin live' \/ p \in Daemons
                 \/ (p \in live /\ saving[p] # "idle" /\ receipt'[p] = receipt[p] /\ queue'[p] = queue[p])
                 \/ Holds(receipt'[p], queue'[p]),
               \A q \in Procs \ {p} : /\ saving'[q] = saving[q] /\ receipt'[q] = receipt[q]
                                      /\ queue'[q] = queue[q] /\ (q \in live' => q \in live)
        PROVE  OwnReceipts'
    <2>1. ASSUME NEW c \in Clis, c \in live', saving'[c] # "idle"
          PROVE  Holds(receipt'[c], queue'[c])
      BY <1>1, <1>2, <2>1 DEF OwnReceipts
    <2> QED BY <2>1 DEF OwnReceipts, Holds
  <1>3. CASE UNCHANGED vars
    BY <1>3 DEF OwnReceipts, Holds, vars
  <1>4. ASSUME NEW p \in Procs, Start(p) PROVE OwnReceipts'
    <2>1. /\ saving'[p] = "idle"
          /\ \A q \in Procs \ {p} : /\ saving'[q] = saving[q] /\ receipt'[q] = receipt[q]
                                    /\ queue'[q] = queue[q] /\ (q \in live' => q \in live)
      BY <1>4 DEF Start, Tidy, IInv, TypeOK
    <2> QED BY <1>2, <2>1
  <1>5. ASSUME NEW p \in Procs, Truncate(p) PROVE OwnReceipts'
    <2>1. /\ p \in live /\ saving[p] # "idle" /\ receipt'[p] = receipt[p]
          /\ queue'[p] = queue[p]
          /\ \A q \in Procs \ {p} : /\ saving'[q] = saving[q] /\ receipt'[q] = receipt[q]
                                    /\ queue'[q] = queue[q] /\ (q \in live' => q \in live)
      BY <1>5 DEF Truncate, IInv, TypeOK
    <2> QED BY <1>2, <2>1
  <1>6. ASSUME NEW p \in Procs, Return(p) \/ Exit(p) PROVE OwnReceipts'
    <2>1. /\ saving'[p] = "idle"
          /\ \A q \in Procs \ {p} : /\ saving'[q] = saving[q] /\ receipt'[q] = receipt[q]
                                    /\ queue'[q] = queue[q] /\ (q \in live' => q \in live)
      BY <1>6 DEF Return, Exit, IInv, TypeOK
    <2> QED BY <1>2, <2>1
  <1>7. ASSUME NEW p \in Procs, NEW s, Idle(p), Good(s), Change(p, s),
               p \in Daemons \/ Holds(receipt'[p], s),
               \A q \in Procs \ {p} : receipt'[q] = receipt[q]
        PROVE  OwnReceipts'
    <2>1. /\ queue'[p] = s
          /\ \A q \in Procs \ {p} : /\ saving'[q] = saving[q] /\ receipt'[q] = receipt[q]
                                    /\ queue'[q] = queue[q] /\ (q \in live' => q \in live)
      BY <1>7, ChangeValue
    <2> QED BY <1>2, <1>7, <2>1
  <1>8. ASSUME NEW c \in Clis, Add(c) PROVE OwnReceipts'
    <2> DEFINE q == queue[c]
               m == Len(q.tasks)
               s == AddTask(q, adds')
    <2>1. /\ c \in Procs /\ Idle(c) /\ Good(s) /\ Change(c, s)
          /\ receipt'[c].op = "add" /\ receipt'[c].id = q.nextID
          /\ receipt'[c].prompt = adds'
          /\ \A x \in Procs \ {c} : receipt'[x] = receipt[x]
      BY <1>8, AddMade
    <2>2. adds' \in Nat
      BY <1>8, BoundAssumption DEF Add, IInv, TypeOK
    <2>3. /\ m \in Nat /\ m + 1 \in DOMAIN s.tasks
          /\ s.tasks[m + 1] = [id |-> q.nextID, prompt |-> adds', status |-> Pending]
      BY <1>1, <2>2, AddValue
    <2>4. /\ s.tasks[m + 1].id = receipt'[c].id /\ s.tasks[m + 1].prompt = receipt'[c].prompt
          /\ receipt'[c].op # "cancel"
      BY <2>1, <2>3
    <2> HIDE DEF s, m
    <2>5. Holds(receipt'[c], s)
      BY <2>3, <2>4 DEF Holds
    <2> QED BY <1>7, <2>1, <2>5
  <1>9. ASSUME NEW c \in Clis, Cancel(c) PROVE OwnReceipts'
    <2>1. PICK i \in DOMAIN queue[c].tasks :
            /\ c \in Procs /\ Idle(c) /\ Good(SetStatus(queue[c], i, Canceled))
            /\ Change(c, SetStatus(queue[c], i, Canceled))
            /\ receipt'[c].op = "cancel" /\ receipt'[c].id = queue[c].tasks[i].id
            /\ receipt'[c].prompt = queue[c].tasks[i].prompt
            /\ \A q \in Procs \ {c} : receipt'[q] = receipt[q]
      BY <1>9, CancelMade
    <2> DEFINE s == SetStatus(queue[c], i, Canceled)
    <2>2. /\ i \in DOMAIN s.tasks
          /\ s.tasks[i].id = queue[c].tasks[i].id
          /\ s.tasks[i].prompt = queue[c].tasks[i].prompt
          /\ s.tasks[i].status = Canceled
      BY <1>1, <2>1, SetStatusValue DEF Good, Statuses
    <2>3. Good(s) /\ Change(c, s)
      BY <2>1
    <2> HIDE DEF s
    <2>4. Holds(receipt'[c], s)
      BY <2>1, <2>2 DEF Holds
    <2> QED BY <1>7, <2>1, <2>3, <2>4
  <1>10. ASSUME NEW d \in Daemons, Poll(d) PROVE OwnReceipts'
    BY <1>1, <1>7, <1>10, PollMade
  <1>11. ASSUME NEW d \in Daemons, NEW id \in workers[d], NEW outcome \in {Done, Failed},
                Report(d, id, outcome)
         PROVE  OwnReceipts'
    BY <1>1, <1>7, <1>11, ReportMade
  <1> QED BY <1>3, <1>4, <1>5, <1>6, <1>8, <1>9, <1>10, <1>11 DEF Next, Write, SaveError

LEMMA NextPromised ==
  ASSUME IInv, Tidy, Fresh, OwnReceipts, Promised, [Next]_vars, ~disturbed'
  PROVE  Promised'
  <1>1. CommitStep /\ Good(Authority)
    BY NextFresh, AuthorityGood
  <1>2. ASSUME NEW r, Holds(r, Authority) PROVE Holds(r, Authority')
    BY <1>1, <1>2, HoldsStep DEF CommitStep
  <1>3. ASSUME NEW p \in Procs, Write(p)
        PROVE  \A r \in acked' : r \in acked \/ Holds(r, Authority)
    <2>1. Authority = queue[p] /\ p \in live /\ saving[p] # "idle"
      BY <1>3, WriteFresh DEF Write
    <2>2. CASE p \in Daemons
      BY <1>3, <2>2 DEF Write, Return
    <2>3. CASE p \notin Daemons
      <3>1. p \in Clis /\ acked' = acked \cup {receipt[p]}
        BY <1>3, <2>3 DEF Procs, Write, Return
      <3> QED BY <2>1, <3>1 DEF OwnReceipts
    <2> QED BY <2>2, <2>3
  <1>4. CASE ~\E p \in Procs : Write(p)
    <2>1. acked' = acked
      BY <1>4 DEF Next, vars, history, Start, Truncate, SaveError, Exit, Add, Cancel,
                  Poll, Report
    <2> QED BY <1>2, <2>1 DEF Promised, Holds
  <1>5. \A r \in acked' : Holds(r, Authority')
    BY <1>2, <1>3, <1>4 DEF Promised, Holds
  <1> QED BY <1>5 DEF Promised, Holds

\* Until a process saves a list older than the file, or a save is cut short,
\* the file shows what every command that reported success did.
THEOREM CommandsHold == Spec => []LostOnlyByStaleSaves
  <1> DEFINE I == IInv /\ Tidy /\ (~disturbed => Fresh)
  <1>1. Init => OwnReceipts /\ (~disturbed => Promised)
    BY DEF Init, OwnReceipts, Promised
  <1>2. I /\ OwnReceipts /\ (~disturbed => Promised) /\ [Next]_vars
        => OwnReceipts' /\ (~disturbed' => Promised')
    BY NextOwnReceipts, NextPromised, DisturbedStays
  <1>3. (~disturbed => Promised) => LostOnlyByStaleSaves
    BY DEF Promised, Holds, LostOnlyByStaleSaves, AckedCommandsHold, Authority
  <1> QED BY <1>1, <1>2, <1>3, FreshInvariant, PTL DEF Spec
=============================================================================
