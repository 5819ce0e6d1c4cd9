----------------------------- MODULE TaskLedger -----------------------------
(***************************************************************************)
(* What the comments of taskqueue.go promise to the person who types the   *)
(* task commands: an append-only ledger in which a task is claimed in      *)
(* submission order, claimed once, ends once, and is canceled only while   *)
(* it is pending or running.                                               *)
(***************************************************************************)
EXTENDS Integers, Sequences

CONSTANT Prompts        \* the submissions a user may make

VARIABLE ledger         \* sequence of [prompt, status]

Init == ledger = <<>>

Submit(p) ==
  ledger' = Append(ledger, [prompt |-> p, status |-> "pending"])

Move(i, from, to) ==
  /\ ledger[i].status \in from
  /\ ledger' = [ledger EXCEPT ![i].status = to]

\* First come, first claimed.
Claim(i) ==
  /\ \A j \in 1 .. i - 1 : ledger[j].status # "pending"
  /\ Move(i, {"pending"}, "running")

Finish(i) == \E s \in {"done", "failed"} : Move(i, {"running"}, s)

\* "Cancel marks a pending or running task as canceled."
Cancel(i) == Move(i, {"pending", "running"}, "canceled")

\* Not a step of the ledger, but of the code: an outcome is not final for
\* TaskQueue.Cancel, which also takes a failed task.
Overturn(i) == Move(i, {"failed"}, "canceled")

Next ==
  \/ \E p \in Prompts : Submit(p)
  \/ \E i \in DOMAIN ledger : Claim(i) \/ Finish(i) \/ Cancel(i)

Spec == Init /\ [][Next]_ledger
=============================================================================
