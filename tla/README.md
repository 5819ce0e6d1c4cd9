# A verification of teeny-claw

This directory holds TLA+ models of teeny-claw, a small agent framework in Go
(`src/cmd`, `src/internal`, `src/pkg`), their TLC configurations, and proofs
for TLAPS.  The models are translated from the Go code; docs and comments count
only where a run compares the code with what they say.

`tlc -config X.cfg M` repeats a run, `tlapm M_proofs.tla` the proofs of a module
(5 lists the eight proof modules).

## 1. The system

One binary, `teeny`, is started again for every command.  `teeny daemon` is the
only long-running one: it runs the scheduler and a poller of the task queue and
starts an agent for whatever is due.  The commands `teeny task add|list|logs|cancel`,
`teeny chat` and `teeny run` are processes of their own.  All of them share
plain JSON files; none takes a file lock.

| Component | Source | State | Operations | Hard behaviour | Correct means | Model |
|---|---|---|---|---|---|---|
| Task queue | `internal/process/taskqueue.go` | list of tasks and next ID in memory; `tasks.json` | load at start; Add, ClaimNext, Complete, Fail, Cancel, each followed by a save of the whole list | stale private copies, a save that is a truncation and a write and whose error is dropped | unique IDs, first come first claimed, outcomes kept (`Cancel` overturns a failed one, see 6), acknowledged commands kept, no second execution | `TaskQueue`, `TaskLedger`, `TaskDaemon` |
| Daemon and task commands | `cmd/teeny/main.go` | the poller, one goroutine per claimed task | poll tick, claim, run, report; commands | runs without deadline, unbounded workers, overlap of processes, signals | a waiting task is claimed; a report changes only the task it belongs to | `TaskDaemon` |
| Process manager | `internal/process/manager.go` | map of sessions (status, context, output) | Spawn, Kill, Wait, List, Log, and a goroutine per session: capture, reap, record | three locks, deadline against exit, kill against verdict, pipes held by descendants | limit on processes kept, verdicts true, processes and sessions end | `ProcessManager` |
| Scheduler | `pkg/scheduler/scheduler.go` | running flag, cancel function; per loop a ticker and `lastRun` | Start, Stop, Running, checkJobs | select with two ready cases, late ticks, restart | no loop out of reach, a minute neither missed nor taken twice, intervals kept | `Scheduler` |
| Cron expressions | `pkg/scheduler/cron.go` | none | parse, Matches | ranges, steps, days of month and week | an expression fires in the minutes it stands for in standard cron | `Cron`, in `Scheduler` |
| Todo tools | `pkg/toolreg/todo_internal.go` | `todos.json` | add, list, next, done, skip, note, clear | read-modify-write by concurrent agents, positions reused, torn file | order kept, next is the oldest, exact for serial calls | `TodoStore` |
| Tool registries | `pkg/toolreg/registry.go`, `internal/tools` | map of tools | register, call | which handler, which arguments | a call reaches its tool | `AgentTools`, calls only |
| Agent cycle | `internal/agent/agent.go` | conversation, memory | plan, act loop, reflect, remember | LLM failures, tool errors, iteration limit | every call answered in its place, requests bounded; result tells what happened | `AgentLoop` |
| LLM providers | `pkg/llm` | stream state | stream, convert, complete | end and errors of the stream, a consumer that leaves, tool results of several clients | one way to end, the response put together equals the one sent in a piece | `SSEStream`; conversion in `AgentLoop` |
| Sessions and chat | `pkg/session`, `cmd/teeny/main.go` | map of sessions; one file each | load all, append, save by rename | two processes, keys that share a file, death before the save | keys kept apart, a saved turn not lost | `SessionStore` |
| Memory | `internal/memory` | entries | add, list, search, delete | ID resolution, limits | reference definitions | not modelled (2) |
| Context builder | `pkg/context/builder.go` | none | assemble files under caps | two cuts of one file, a budget that runs out | caps kept, nothing cut silently | `ContextBuilder` |
| Evaluation, wiring, configuration | `pkg/eval`, `internal/wire`, `internal/config` | none | construction, external binary, environment | none | - | not modelled |

Interactions: the scheduler and the poller run side by side in the daemon and
both create agents; agents call tools through the registries, so the todo tools
run concurrently in one process; agents call the LLM providers and the memory;
the task commands and the daemon meet in `tasks.json` only.

`PROJECT.json` lists under "hazards" what in this code is hard to test, line by
line, with the properties that speak of it or the reason there is none.

## 2. Modules

Order of work: the task queue first, because it is the state that outlives
processes and is shared by most of them; then the process manager, the
scheduler and the todo tools, which have the concurrency; then the agent that
all of them start; then sessions, streams, the cron parser and the prompt.

| Module | Role |
|---|---|
| `TaskQueue` | the methods of `TaskQueue` as operators from a store to a store |
| `TaskDaemon` | the processes around it: extends `TaskQueue`, adds file, daemon, commands, faults |
| `TaskLedger` | abstract specification: an append-only ledger of tasks |
| `MCTaskDaemon` | sets of daemons and commands for TLC |
| `ProcessManager` | sessions, their goroutines, contexts and processes |
| `Cron` | the parser and the matcher as operators, and what an expression stands for in standard cron |
| `Scheduler`, `MCScheduler` | extends `Cron`: scheduler loops over a discrete clock, and a configuration of jobs |
| `TodoStore` | the todo tools called by concurrent agents |
| `AgentTools` | what becomes of the input of a tool call |
| `AgentLoop` | `Agent.Run`: extends `AgentTools` with the cycle and its conversation |
| `SessionStore`, `MCSessionStore` | `teeny chat` processes and the session files; their symmetry for TLC |
| `SSEStream` | one streamed reply: server, `Anthropic.Stream`, consumer |
| `ContextBuilder` | the system prompt and its caps |
| `TaskDaemon_proofs`, `ProcessManager_proofs`, `Scheduler_proofs`, `TodoStore_proofs`, `AgentLoop_proofs`, `SessionStore_proofs`, `SSEStream_proofs`, `ContextBuilder_proofs` | inductive invariants and theorems |

### TaskQueue and TaskDaemon

`file` is `tasks.json`: a store, nothing (absent or truncated), or text that does not parse.
`queue[p]` is the `TaskQueue` object of process p, loaded in `Start` and never
again.  A method holds the queue's mutex from its change until `save` returns,
so within a process both are one unit; for other processes a save is two
visible steps, `Truncate` and `Write`, as `os.WriteFile` makes them.
`saving[p]` says where p is.  A command exits when its save returns, successful
or not, because `save` drops the error; that exit is what `acked` records.  Nothing keeps
processes apart: commands run beside the daemon, which is ordinary use, and a second daemon
can be started; `Daemons` and `Clis` are sets of slots.

| Action | Code |
|---|---|
| `Start` | `NewTaskQueue` with `load`, in `runTask` and `runDaemon` |
| `Add`, `Cancel` | the commands, with `TaskQueue.Add` and `Cancel` |
| `Poll` | a poller tick: `ClaimNext`, whose return (`Handed`) starts a worker; a tick with nothing to claim changes nothing |
| `Report` | the end of a worker: `Complete` or `Fail` |
| `Truncate`, `Write`, `SaveError` | `save` |
| `Exit` | the end of a process, also in the middle of a save if `Faults` |

Abstracted: prompts are the numbers of the submissions; output, error texts,
working directories and time stamps are left out.  If two processes write the
file between each other's truncations, `Write` may leave text that does not
parse (the tail of the longer one) or the new list: both outcomes are allowed.

`TaskLedger` is what the comments promise: tasks are appended, claimed in order, finished once,
and canceled while they are pending or running.  The code also cancels a failed task, which the ledger
does not (6); `Overturn` names that step, and `ImplementsLedger` admits it as its one exception.
The refinement mapping takes as the ledger the list that counts (`Authority`): what the file
holds, or, while a process has truncated it, what that process is about to write; `LedgerOf` forgets IDs.

Nothing can be promised once a process saves a list older than the file.  Two history
variables say when that happens and nothing else: `behind` has the processes whose list
another process has begun to replace in the file since they loaded it, and `disturbed` becomes true when one of
them saves all the same, or when a save is not completed (its error is dropped).  `LostOnlyByStaleSaves`,
`AtMostOnce` and `ImplementsLedger` hold until then for processes that overlap and die
as they like; how soon "then" comes in ordinary use is what `queue_lost` shows.

### ProcessManager

One record of per-session variables: `status` (as `Session.Status`), `child`
(the process), `holds` (a descendant keeps the pipes), `ctx` (`procCtx`),
`gor` (the goroutine of `Spawn`) and `err` (what `cmd.Wait` returned).  `Spawn`
and its two failures (`SpawnPipeFails`, `SpawnStartFails`) are one step each
since they hold `m.mu`; the goroutine is `CaptureDone`, `Reap`, `Report`.  The
end of a process, its kill by os/exec, the exit of a descendant and the end of a
context are actions of the environment.  `cmd.Wait` may return the context's error after a clean exit
if the context ended before the exit was noticed, so `Reap` chooses.
`Spawn` reads other sessions' status under the manager's lock only, a data
race with `Kill` and the goroutine.  A stale value can only be "running",
because no step makes a session running again; such a read refuses a spawn the
model allows, so the model has all spawns the code has.

### Cron and Scheduler

A `Start` takes the next loop; each loop has its context, ticker and `lastRun`.  Time is a
counter; a loop that can run runs within `MaxDelay` units, which is the only
assumption about the Go runtime.  `TickCheck` may be taken although the context
has ended, because `select` picks among ready cases at random, and `FirstCheck`
does not look at the context at all.  `CheckJobs` is the whole pass over the
configuration with its updates of `lastRun`; jobs with one name share an entry,
as in the code.

A cron job carries its expression, and `checkJobs` parses and matches it at every check, as the
code does.  `Cron` keeps what can go wrong in the parser: bounds of each field,
steps from the low end of a range, lists, the second name of Sunday, and the
loop variable that overflows (`MaxInt`) with a step near the largest int.  Splitting the
text and `strconv.Atoi` are abstracted to parts that are numbers or words.
`Says` is the reference: a predicate on times, without tables, that reads an expression as standard
cron does.  If both day fields are restricted (`EitherDay`: neither begins with a star), either is enough;
the code wants both, so `NoMinuteMissed` leaves these expressions out and `StandardCron` is the same
without the exception (6).

### TodoStore

An agent loads `todos.json`, changes its copy and writes it in two steps.  Calls
of different agents interleave freely since no lock is held.  A call whose ID
names no item, or more than one, fails before it changes anything and is no
action.  Unlike the queue, a file that does not parse makes every call fail.

### AgentLoop and AgentTools

`messages` is the conversation of `act`; a message keeps its role, the IDs of
the calls it makes, the call it answers and whether it has text (`mkdir` succeeds without any).  The model behind the client is
external: every request may fail or be answered by calls, by text with a call
in it, or by text without one.

| Action | Code |
|---|---|
| `Run` | start of `Run` with `Recall`, which at worst finds nothing |
| `PlanFails`, `PlanMade` | the request for the plan; only its failure is an error of `Run` |
| `SendFailsOrDone`, `AnswerCalls`, `AnswerText` | a request of the act loop and `parseToolCall` |
| `Execute` | one tool call: `Registry.Execute`, the record in `result.Actions`, the feedback |
| `Reflect` | the end of the loop, the reflection, `Remember` |

`AgentTools` tells tools apart by how they take their input, and inputs by
their form: the advertised `{"input": ...}` (`"wrapped"`), the tool's own
parameters (`"named"`), text, nothing.  Clients differ in three places: Anthropic sends a tool result as a message of
the user, OpenAI under a role of its own; Anthropic has a content field for every
result, OpenAI omits an empty one, and `buildClaudePrompt` prints what `Message.Text`
yields, nothing of a result (`Wire...`); claude-cli numbers the calls of each answer from 1 (`CallIds`).
An ID that its output supplies is as good as one of these.

Of a request only this is modelled.  The definitions of the tools that go with it are not, so that nothing here says
that an API takes the request (6).

The cycle meets the task queue through `OutcomeTellsEffects`: a worker of the daemon marks
its task failed exactly if `Run` returns an error, hence a failed task has run
no tool, and a done one may have done only part of its plan.

### SessionStore

A chat loads all sessions when it starts (`Start`), adds a message before and
one after each run of the agent (`Ask`, `Answer`; a failing run leaves the
question alone), and saves its own session when it ends: `Exit` writes a
temporary file, `Rename` puts it in place.  `Die` is the end of the process, or a
failing save, at any point.  Two keys share a file if `sanitize` maps them to
one name; the model has keys that differ in the separator only.  `SetSummary`
is part of the package but no command calls it; the model lets a chat call it.

### SSEStream

The server sends blocks, each started, filled and stopped, then the stop
reason, and the body may end or fail at any point.  Each frame is one action
of `Stream`: it extends the response and may call `yield`, whose answer is the
consumer's choice.  A consumer that refuses an event ends the stream, but for a read error, after
which `Stream` calls it again; Go's runtime then panics.  A piece of text is
its block and number, so that lost, repeated or misplaced pieces show.

### ContextBuilder

`Skip` and `Take` are a round of the loop over the bootstrap files, `Assemble`
the rest of `BuildSystemPrompt`.  A text is its number of bytes.

### Not modelled

* Memory: `AgentLoop` has `Remember` as the list of lessons.  A store lives and dies with
  one command's components and what it returns goes only into prompts, which
  are abstracted; Search, List and Delete are single loops under a lock.
* Registration of tools (at construction only) and the command line `ManifestTool` builds.
* Encoding of requests beyond roles and text, tool names among it, HTTP, `ClaudeCLI`'s process: formats and I/O.
* `pkg/eval`, `internal/wire`, `internal/config`: no state of their own.

## 3. Runs

| Run | Instance | Question and answer |
|---|---|---|
| `queue` | daemon, 1 command slot, 2 submissions, overlap, faults | What do processes keep that nobody keeps apart?  Until a stale list is saved or a save fails: acknowledged commands, single execution, the ledger but for canceled failures.  Always: unique IDs, claims in order, reports in place, a daemon that forgets nothing, no starving task. |
| `queue_lost` | daemon, 2 command slots, every save succeeds | Does an acknowledged command hold?  **No**, see 6. |
| `manager` | 2 sessions, limit 1 | Are limit, verdicts and the end of processes right under all orders of exit, deadline, Kill and Wait?  Yes, with the restrictions in the properties. |
| `scheduler` | 2 loops, 7 jobs, two minutes and a bit across midnight and a month's end | Does Stop reach every loop, and does a loop fire each minute and interval as written?  Yes, but for expressions that restrict both days. |
| `scheduler_cron` | 1 loop, the same jobs | Are expressions read as in standard cron?  **No**, see 6. |
| `todo` | 2 agents, 3 items, failing saves | Are order and `next` right in every stale copy, and is the file exact for calls that do not overlap?  Yes. |
| `agent` | 3 clients, 3 rounds, 2 calls an answer, 2 cycles | Is every call answered in its place, are requests bounded and results true, whatever fails?  Yes. |
| `agent_cli` | claude-cli, 1 cycle | Does the model hear what its tools returned?  **No**, see 6. |
| `agent_args` | Anthropic, 1 cycle | Does a call that follows the advertised schema reach its tool?  **No**, see 6. |
| `sessions` | 2 chats, 2 keys of one file, 4 messages | Can keys that share a file, or chats that overwrite and die, mix sessions or lose saved turns?  They never mix; turns are lost only in files used by two chats at once or under two keys. |
| `stream` | 3 blocks of 2 pieces | Is the streamed response the one `Send` returns, do events and response agree, and can the end be told from a cut?  Yes, as far as all blocks are of known kinds. |
| `context` | 5 files of sizes around both caps | Do the caps hold and is nothing cut silently?  Yes, but for the marker, which the caps do not count. |

The runs of the scheduler also evaluate `ParserAssumption`: for every pair of parts of a day-of-week
field the parser's table is what the field says, and a field with an illegal
part is refused.

### The properties

* `IdsAreUnique`: IDs are positions and the next is fresh, in the file and every copy.  Lost
  updates lose tasks but never produce one ID twice within a list.
* `ClaimsInOrder`: nothing handed out stands behind something that waits.
* `WorkersOwnTheirTasks`: `Complete` and `Fail` check nothing; this is why they overwrite nothing.
  It depends on the daemon never reloading: a poller that reads the file
  again breaks it.
* `DaemonNeverForgets`: action property of the daemon's list during its life.
* `LostOnlyByStaleSaves`, `AtMostOnce`, `ImplementsLedger`: the promise to the user, kept by processes that
  overlap and end as they like until one saves a list older than the file or a save is not completed.
  There is no other way to lose a command, to run a task twice, or to leave the ledger.
* `AckedCommandsHold`: the same without the exception; `queue_lost` refutes it.
* `NoStarvation`: a waiting task is claimed unless the daemon ends, even if all workers hang.
* `ProcessesBounded`: processes, not records, that nobody killed are at most `MaxConcurrent`.
* `VerdictsMatchFates`: "done", "failed" and "timed_out" each need a process that ended accordingly.
* `WaitIsFinalUnlessKilled`: Wait's first answer is the last word if nobody used Kill.
* `ProcessesEnd`, `SessionsEnd`: no process outlives its deadline; a session ends unless a descendant
  keeps its pipes for ever.
* `StopReachesEveryLoop`, `OneLateCheck`: control of loops; one check at most after the end of the context.
* `OncePerMinute`, `NoMinuteMissed`, `IntervalsKept`: what a loop fires, under bounded delay.
  `NoMinuteMissed` leaves out expressions that restrict both days.
* `FiresAsWritten`: a cron job fires only in minutes its expression stands for in standard cron.
* `StandardCron`: `NoMinuteMissed` for all expressions; `scheduler_cron` refutes it.
* `AllOrdered`, `NextIsOldest`, `SerialCallsExact`: the todo list.
* `CallsAreAnswered`: the conversation of a request begins and ends on the user's side, the
  assistant never speaks twice running, and every native call is answered in its place, also by tools
  that failed.  It does not say that an API takes the request.
* `ResultsReachApiModels`: a request has one message for each execution, with its text if the tool
  printed any.
* `SendsBounded`: at most `maxActSteps` + 2 requests in a cycle.
* `OutcomeTellsEffects`: no tool ran if `Run` fails, and a result lists every execution.
* `KeysKeepApart`: no session takes up what was said under another key, although keys share files.
* `SavedHistoryKept`: a file that was never shared holds every message of every chat that saved.
* `StreamAgreesWithSend`: the streamed response is, part by part, the one of a plain request.
* `EventsTellResponse`: who listens to events and who takes the response have the same text.
* `FinalEvent`: the stream ends in one way, and a refused event is the last but after a read error.
* `CutIsVisible`: a cut reply ends in `EventDone` like a whole one; the empty stop reason tells them apart.
* `BudgetKept`: the caps hold, and every file the loop has passed is whole or marked.

### Bounds, and why they are enough

* Queue: an interference in the shared file needs one process between two steps of
  another, so the daemon and one command (`queue`) or two commands
  (`queue_lost`) show each kind.  A slot is used again by later commands and daemons, so
  their number is not bounded by the slots; adds are by `MaxAdds`, cancels and restarts
  are not.  Two tasks give order.  A second daemon multiplies the states beyond a run; the theorems (5)
  cover any number of daemons and commands, so the size of `queue` matters only for `NoStarvation`.
  The command slots of `queue_lost` are symmetric, as are the chats of `sessions`; only runs without a
  liveness property use symmetry.
* Manager: two sessions and one slot give the competition; sessions do not
  otherwise touch each other.
* Scheduler: a unit is 10 s, so the tick is three units and the minute six as in
  the code; a delay of one unit moves a check across a minute's border, which
  is the case that matters; 13 units hold a minute that is complete for a loop
  started late in the first, and a restart needs the second loop.  `MCJobs` has one job
  of every kind, among them two that share a name, one that does not parse, and
  expressions whose ranges, steps and names of Sunday decide between 23:59 of a Saturday, the 31st,
  and 00:01 of a Sunday, the 1st.
* Todo: an overwritten update needs two agents; three items give an order that
  closing the one in the middle or the last could disturb.
* Agent: two calls show an answer that is only half executed; three rounds let
  a native, a textual and another native round follow each other; the
  second cycle shows what the first leaves behind.
* Sessions: an overwritten turn needs two chats, a collision two keys; four
  messages let each chat say something before and after the other's save, and
  a summary that keeps two cut something off.
* Stream: an unknown block between two known ones is the least that shifts an
  index for a later block; two pieces have an order.
* Context: sizes on both sides of each cap and at it, and a marker longer than
  the difference of the caps, so that a file cut by its own cap meets the total cap
  because of its marker.  Five files outlast the budget.

The runs of the manager, the scheduler, the todo tools, the sessions, the
stream and the prompt do not check for deadlock: all processes may have ended, the
clock or the number of messages may be at its bound, the todo file may be
unreadable, a stream and a prompt come to their end.  The task queue and the
agent are checked: a process can always start or exit, and a cycle goes on until
the bound on cycles (`Finished`).

## 4. Fairness

* `TaskDaemon`: weak fairness of `Poll` and of the save of each daemon.  The ticker
  never stops while the daemon lives and the goroutine of the poller waits for
  nothing but the queue's mutex, which others hold only during a save.  Workers
  are *not* fair: they run on `context.Background()` and the HTTP client has no
  timeout.  Commands are not fair either.
* `ProcessManager`: the goroutine runs when it can, the deadline passes, os/exec
  kills on an ended context.  No process and no descendant has to exit by
  itself; capture is fair only at the end of the pipes.
* `Scheduler`, `TodoStore`, `AgentLoop`, `SessionStore`, `SSEStream`,
  `ContextBuilder`: safety only.  A request to the model or
  a tool may hang for ever, so that no cycle, chat or stream need end.  The bounded delay of the scheduler
  turns "in time" into invariants.

## 5. Proofs

### The task queue

`TaskDaemon_proofs` proves, for every set of daemons and of commands, every number of
submissions, with and without faults:

| Theorem | Property |
|---|---|
| `TypeCorrect` | `TypeOK` |
| `UniqueIds` | `IdsAreUnique` |
| `OrderedClaims` | `ClaimsInOrder` |
| `OwnedTasks` | `WorkersOwnTheirTasks` |
| `NeverForgets` | `DaemonNeverForgets` |

Assumptions of the whole module: `ProcsAssumption` (a daemon is not a command), `BoundAssumption`
(`MaxAdds` is a natural number), `FlagsAssumption`.

The argument is that everything the processes do to a list is to load, change
or write one copy as a whole.  `Good(s)` says that s is a store whose IDs are
its positions (`WellFormed`) and in which claims went in order (`InOrder`).
Lemmas show that the empty store is good, that loading a good store yields it
unchanged (the repair of a zero `next_id` never acts), that `AddTask` keeps it
good, and that `SetStatus` does if it makes nothing pending and, unless it
cancels, acts behind no waiting task.  `ClaimAt` acts on the first waiting task, so
it satisfies that.  `Report` does not look at the list: the task it changes must
already be running, whence nothing before it waits, by `InOrder`.  Therefore
`IInv` also contains `WorkersOwnTheirTasks`, which a crash and restart of a daemon
would break if a worker outlived it; hence the last conjunct, no workers
without their daemon.  `IInv` has one lemma per action; `Invariance` combines
them.  `NeverForgets` adds, again by action, that a step with a living daemon
gives a list that `Remembers` the one before.

The second part of the module is about the promise to the user, from the same assumptions and no others:

| Theorem | Property |
|---|---|
| `SavesAreALedger` | `ImplementsLedger`, the refinement of `TaskLedger` |
| `HandedOutOnce` | `AtMostOnce` |
| `CommandsHold` | `LostOnlyByStaleSaves` |

They speak of the time before `disturbed`, which is part of each property: no process is
kept from overlapping another, from dying or from losing its save.  `Fresh` says, as long as nothing is disturbed,
that a process that is not `behind` has the file's list, or one change of it that it is about to save
(`Made`), and that while a process writes it is the only one and all others are behind.  Then
(`CommitStep`) the list that counts, `Authority`, changes in one kind of step only: a process that is
not behind truncates the file, and the list becomes what that process made of it, by adding a task, claiming the first waiting
one, ending a running one or canceling one.  Each theorem then needs only these four.
They are steps of the ledger, or overturn a failure.  They keep prompts unique
(`AllNumbered`) and what waits unclaimed (`Once`): a claim is handed out only after it is in the file.  They take back no task
and no cancel, and what a command acknowledges is in the list it wrote (`OwnReceipts`, `Promised`).

### The agent

`AgentLoop_proofs` proves, for every set of clients, step limit, number of
calls in an answer and number of cycles (`ProvidersAssumption`,
`BoundsAssumption`: the bounds are natural numbers):

| Theorem | Property |
|---|---|
| `TypeCorrect` | `TypeOK` |
| `BoundedSends` | `SendsBounded` |
| `TruthfulOutcome` | `OutcomeTellsEffects` |
| `AnsweredCalls` | `CallsAreAnswered` |
| `ResultsReach` | `ResultsReachApiModels` |

`SendsBounded` is not inductive, because it forgets where the loop is.  `SendsInv` counts
requests against the loop counter: the plan has cost one when the loop is at its head, so
`sends <= step + 1` there, and `sends <= step + 2` while calls are
executed, since the request is out and the counter still has to follow; it follows
only if both branches of the loop advance it.  The loop is entered below
`MaxActSteps`, and one reflection is added at the end.  `EffectsInv` says that executions and
records go together, that nothing has run before the plan, and that an error is
an outcome of the plan alone.

`CallsAreAnswered` speaks of the moment of a request; between two of them calls wait for
their answers.  `TalkInv` says how: when the loop is at its head every
message is `Answered` (`Closed`), and while native calls run there is one message j, the
last of the assistant, whose calls are half answered (`OpenAt(j)`): the messages after it
answer its first calls in order, and `pending` is exactly the rest.  An execution moves
one call from the second half to the first; the last one closes the message.  For
`ResultsReach`, the results are counted as executions are, and each HTTP client sends what text they have; a longer conversation keeps
the set of earlier ones (`FiniteSetTheorems`).

### The process manager

`ProcessManager_proofs`, for every finite set of sessions and every limit:

| Theorem | Property |
|---|---|
| `TypeCorrect` | `TypeOK` |
| `TrueVerdicts` | `VerdictsMatchFates` |
| `FinalWait` | `WaitIsFinalUnlessKilled` |
| `BoundedProcesses` | `ProcessesBounded` |

`Sound(s)` says where the goroutine, the process, the context and the status of
one session may be together: a verdict needs what `Reap` saw to stay true until
`Report` writes it.  A step changes one session, so each action has two steps
in its proof, this session and the others (`OneSession`).  The limit is the only thing
sessions share: `Limited` counts the running ones, only `Spawn` adds one, after it has looked,
and a process that lives and was not killed belongs to one of them.  That needs the
theorems on finite sets.

### The scheduler

`Scheduler_proofs`, for every configuration, period and delay within `TimeAssumption`:

| Theorem | Property |
|---|---|
| `TypeCorrect` | `TypeOK` |
| `LoopsInReach` | `StopReachesEveryLoop` |
| `OneCheckTooLate` | `OneLateCheck` |
| `CronReads` | - |
| `OnceAMinute` | `OncePerMinute` |
| `AsWritten` | `FiresAsWritten` |
| `EveryMinute` | `NoMinuteMissed` |
| `IntervalsAreKept` | `IntervalsKept` |

Assumptions: `TimeAssumption`; `ClockAssumption` (the wall clock has legal values and covers the time that is
looked at); `JobsAssumption` (a job is enabled or not, has an expression and an interval, which may
be negative as `time.ParseDuration` allows).  It leaves out expressions on which the parser panics: there
the daemon itself ends, a step the model does not have (see 6).  `MaxIntAssumption` bounds the
largest int from below only.

`Controlled`: a live context is that of the loop whose cancel function is kept,
since `Start` makes one only while nothing is running.  For the late check,
`OnTime` turns the bounded delay into relations of the clock with `due` and
`since`; `LateOnce` says that a check after the end of the context leaves the next tick more than `MaxDelay` after
that end, when the loop is already gone.  This is where `2 * MaxDelay < Period` is used.

`CronReads` says that an expression that parses and matches a time stands for it in standard cron (`Says`), and that
the converse holds unless both days are restricted.  `FiresAsWritten` needs the first half, `NoMinuteMissed` the second.  The loop of `parsePart`
marks lo, lo + step, ...; that these are the numbers the part speaks of goes by induction
on their distance from hi, downwards.

A pass of `checkJobs` is a recursive function over the configuration.  `Pass` says what it has done after k
jobs: an entry is new only for a name that ran, what was fired was due by the entry it found,
and an unshared job that was due has been fired; this is an induction on k.  `JInv` is
then invariant: `Fired` (nothing has fired after its entry, once a minute, in
minutes that match and so are written), `Spaced` (at a loop's last check, what was over
has been started anew) and `Caught` (every minute whose second check is
past has had its run).  The last is where two checks per minute, delays below half a period and
a live context meet: a delayed first check falls in its minute, or the second one does.

### The stream

`SSEStream_proofs`, for replies of every length (`BoundsAssumption`):

| Theorem | Property |
|---|---|
| `TypeCorrect` | `TypeOK` |
| `StreamsEnd` | `FinalEvent` |
| `VisibleCuts` | `CutIsVisible` |
| `AgreesWithSend` | `StreamAgreesWithSend` |
| `EventsTellAll` | `EventsTellResponse` |

The invariant has two halves that do not touch: `ConsumerInv` for events, refusal and status, with
one lemma for each way a step yields (one more event, the last one, none, the
two of a read error); `ReplyInv` for blocks, parts and stop reason, which adds
that at most the last block is open.

The two properties about content need more than both.  `Streamed` names the number u of known blocks
before the first unknown one: up to u the parts are those `Send` makes (`Agrees`), after it they are
empty, and if u is the number of all blocks the deltas told are the texts (`Heard`).  A delta
reaches a part by the block's index, so the step needs that u counts the parts as well while no block is
unknown (`AllKnown`) and that beyond an unknown block there is no part with the current index
(`Counted`: fewer parts than blocks).  What one more block, piece or event adds to
`SendContent` and to a flattened sequence is a lemma each (`SendLast`, `FlattenExtend`).

### The todo tools

`TodoStore_proofs`, for every number of agents and items, with failing saves and stale copies
(`AddsAssumption`):

| Theorem | Property |
|---|---|
| `TypeCorrect` | `TypeOK` |
| `OrderedCopies` | `AllOrdered` |
| `OldestIsNext` | `NextIsOldest` |
| `SerialExact` | `SerialCallsExact` |

As for the queue, a call takes a copy as a whole, changes it by one operator and writes it as a
whole, so it is enough that each operator keeps a list good: IDs rise and have been given out, open items have rising positions.
Adding needs that the next position is above those of all open items; clearing keeps a
subsequence.  `OldestIsNext` is then about one list.  For `SerialExact`, the invariant says
that as long as nothing was disturbed at most one agent is in a call, its copy is the file changed by that
call, and writing it makes the file agree with what was told.

### Sessions and prompt

| Module, theorem | Property | For every |
|---|---|---|
| `SessionStore_proofs`, `TypeCorrect` | `TypeOK` | number of chats, names and messages |
| `SessionStore_proofs`, `KeysApart` | `KeysKeepApart` | number of chats, names and messages |
| `SessionStore_proofs`, `HistoryKept` | `SavedHistoryKept` | number of chats, names and messages |
| `ContextBuilder_proofs`, `BudgetAlwaysKept` | `BudgetKept` | number and size of files, caps and marker |

A session moves between files and memory as a whole, under the key inside it;
`Good` says that its messages are of that key, rising and not newer than
`said`, and a new message has the next number.  What a file keeps is followed by `KInv` for files that
are not mixed: such a file is of one key and used by one chat at a time (`InUse`), so the messages are an end of
what was kept, or of that and what the chat said since (`EndsIn`), first in the file (`Filed`), then in
memory, then in the file again; a chat that dies takes along only its own.  For the prompt, `CappedFacts` and
`TakenFacts` say what one and two cuts make of a text while the budget is not used up;
a cut by the budget fills it and ends the loop, so that later files are left out only then.

### Induction

What a loop computes is written as a recursive function, never as a recursive operator, so the provers
can use its defining equation (`UpTo`, `Flat` and the like name it).  The induction theorems of the
library take an operator as their parameter, which the provers here do not instantiate;
`Induction` (in the proofs of the scheduler, the todo tools and the stream) is stated for a *set* instead and rests on `Least`, a least
element of a set of natural numbers, which follows from `WFMin`.

### Only model-checked

* All liveness: `NoStarvation`, `ProcessesEnd`, `SessionsEnd`.  Fairness and ENABLED are outside the prover's reach here.
* `ParserAssumption` of `MCScheduler`: it evaluates the parser on numbers that TLC can count; `CronReads` covers it
  but for the parts that panic.

Every invariant and every safety action property of a passing run is stated by a theorem.

## 6. Where code and comments disagree

* `TaskQueue manages a persistent queue of tasks.` (`taskqueue.go:36`).  Two
  commands that overlap load the same file; the later save (`taskqueue.go:213`)
  erases the other's task, whose ID has been printed.  The same happens to
  everything that is added while the daemon runs: it never reads the file
  again and its next save overwrites it.  Run `queue_lost`.
* `Supports standard 5-field cron` (`cron.go:2`; `cron.go:23`: `a standard 5-field cron expression`).
  Where day of month and day of week are both restricted, standard cron fires on either; `Matches` (`cron.go:93`)
  wants both, so that a job for the 1st, the 31st and Sundays misses Saturday, the 31st.  Run `scheduler_cron`.
* `Cancel marks a pending or running task as canceled.` (`taskqueue.go:148`).  It refuses done and canceled tasks only
  (line 155), so that a failed task becomes canceled and its outcome is lost.  `ImplementsLedger` says so with its
  exception for `Overturn`; without the exception TLC and the proof stop at this step.
* `Wait blocks until a session completes.` (`manager.go:253`).  After `Kill`,
  Wait returns at once with "killed" while the process lives and the
  goroutine is still to replace the status.  `WaitIsFinalUnlessKilled` therefore excludes killed sessions.
* `Running returns whether the scheduler is active.` (`scheduler.go:69`).  When the caller's
  context ends the loop is gone, but the flag remains set, and `Start` then
  does nothing.  `StopReachesEveryLoop` speaks of `running` only before that.
* `Feed tool result back` (`agent.go:210`).  For claude-cli the result has its
  header in the prompt and no content (`claudecli.go:223`), because `Message.Text` skips parts of
  type `tool_result`.  Run `agent_cli`.
* `ManifestTool adapts a manifest command to the tools.Tool interface,
  allowing manifest-discovered tools to be used in the agent's tool registry.`
  (`registry.go:256`).  `ToToolDefs` advertises one string `input` for all tools (`tools.go:92`) and the
  agent passes the JSON object on unopened, so that the parameters of a todo tool or of a command with a template stay
  unset; a command that takes flags gets `--input` in place of its own.  The shell tool
  gets the JSON text as its command.  Run `agent_args`.

Seen while modelling, without a run of its own:

* `WithMaxActSteps sets the maximum tool calls per cycle.` (`agent.go:92`).  It bounds requests; an answer
  may hold several calls, all of which are executed, so that a cycle exceeds this maximum (`AnswerCalls`).
* Three things in a request that its API may refuse, although the conversation is in order: a tool result with empty text
  has no `content` on the OpenAI wire (`omitempty`, `openai.go:58`, see `WireOpenAI`); names of manifest and todo tools have a
  dot (`registry.go:280`), which goes out with every request of `act` (`agent.go:184`); and after an answer with several calls
  their results are several user messages in a row on the Anthropic wire, so that roles do not alternate.
* `N/step` in a cron field is read as `N`.
* A step near the largest int overflows the loop variable of `parsePart`, which
  then indexes its table with a negative number (`Panics` in `Cron`).
* `The final event is always EventDone or EventError.` (`llm.go:220`).  It is, but after a read
  error there are both, and a consumer that leaves at the first is called again (`FinalEvent`).
* After a block of unknown kind, the response of a stream lacks the text of later blocks, since a
  delta finds its part by the block's index; the events have it.  A call
  without arguments has no input in a stream and `{}` from `Send`.
* `Total cap across all files` (`builder.go:24`) and the other caps are exceeded by the marker of a
  cut, and `Chars` are bytes.
* `ordered by relevance` (`memory.go:37`): the store in memory returns its order of insertion.
* `teeny chat` saves at a regular end only; SIGINT loses the chat.  Two keys that differ in
  characters `sanitize` replaces overwrite each other's file.
* `maxRetries` of the agent (`agent.go:63`) is never read.
* The built-in `read_file.run` and `list_dir.run` pass the command's name `run` to `cat` and
  `ls` as a file (`wire.go:129`).

## 7. What may follow

* Memory with Search and List against reference definitions, if prompts are ever modelled by content.
* The other stream, if OpenAI's client gets one, as a second server for `SSEStream`.
* If the code takes a lock on `tasks.json` and reloads under it, no process is ever behind when it saves: `queue_lost`
  turns into a passing run, and of `disturbed` only the saves that fail remain.
* Whole requests with their tool definitions, against what the APIs document.
