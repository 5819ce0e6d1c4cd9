------------------------------ MODULE AgentLoop ------------------------------
(***************************************************************************)
(* Agent.Run of internal/agent/agent.go: plan, act, reflect, remember,     *)
(* with the conversation of the act loop and the three ways in which the   *)
(* clients of pkg/llm turn it into a request.                              *)
(*                                                                         *)
(* The model behind the client is external: a request fails or is answered *)
(* by native tool calls, by one textual call, or by DONE.  Which tool a    *)
(* call names is decided when it is executed.  Abstracted: all texts, the  *)
(* recalled memories (they only enter the prompt of the plan), time.       *)
(***************************************************************************)
EXTENDS AgentTools, Integers, Sequences, FiniteSets

CONSTANTS
  Providers,     \* the clients in use: a subset of ProviderNames
  MaxActSteps,   \* maxActSteps (10 unless configured)
  MaxCalls,      \* bound on the calls in one answer; the code has none
  MaxCycles      \* bound on the calls of Run

ProviderNames == {"anthropic", "openai", "claude-cli"}

ASSUME ProvidersAssumption == Providers \subseteq ProviderNames
ASSUME BoundsAssumption ==
  MaxActSteps \in Nat /\ MaxCalls \in Nat /\ MaxCycles \in Nat

VARIABLES
  provider,   \* the client this agent was built with
  pc,         \* "idle", "plan", "send" (act loop), "exec", "reflect"
  step,       \* act loop counter
  messages,   \* the conversation of the act loop
  pending,    \* IDs of the calls of the last answer that are still to run;
              \* 0 stands for a textual call
  actions,    \* result.Actions: [ok, lost]
  lessons,    \* what Remember stored: "reflection" or "unavailable"
  outcome,    \* what the last Run returned: "none", "result" or "error"
  cycles,     \* calls of Run so far
  effects,    \* history: tool executions in this cycle
  sends       \* history: requests to the model in this cycle

vars == <<provider, pc, step, messages, pending, actions, lessons, outcome,
          cycles, effects, sends>>

\* A message: the calls an assistant makes, the call a result answers, and
\* whether it has text.  What a model says beside its calls is left out.
Message == [role : {"user", "assistant", "tool"}, calls : Seq(Nat), answers : Nat,
            text : BOOLEAN]
Text(role) == [role |-> role, calls |-> <<>>, answers |-> 0, text |-> TRUE]
Calls(ids) == [role |-> "assistant", calls |-> ids, answers |-> 0, text |-> FALSE]
ToolResult(id, said) == [role |-> "tool", calls |-> <<>>, answers |-> id, text |-> said]

\* Action results; lost: the call kept to the advertised schema of a tool that
\* exists, and the tool did not get the argument.
Action == [ok : BOOLEAN, lost : BOOLEAN]

-----------------------------------------------------------------------------
Init ==
  /\ provider \in Providers
  /\ pc = "idle" /\ step = 0
  /\ messages = <<>> /\ pending = <<>> /\ actions = <<>>
  /\ lessons = <<>> /\ outcome = "none"
  /\ cycles = 0 /\ effects = 0 /\ sends = 0

\* Run begins: Recall, which at worst finds nothing, and the plan's prompt.
Run ==
  /\ pc = "idle" /\ cycles < MaxCycles
  /\ cycles' = cycles + 1
  /\ pc' = "plan" /\ step' = 0
  /\ messages' = <<>> /\ pending' = <<>> /\ actions' = <<>>
  /\ outcome' = "none" /\ effects' = 0 /\ sends' = 0
  /\ UNCHANGED <<provider, lessons>>

\* Without a plan Run returns an error and remembers nothing.
PlanFails ==
  /\ pc = "plan"
  /\ pc' = "idle" /\ outcome' = "error" /\ sends' = sends + 1
  /\ UNCHANGED <<provider, step, messages, pending, actions, lessons, cycles, effects>>

\* With one, act opens the conversation.
PlanMade ==
  /\ pc = "plan"
  /\ pc' = "send" /\ sends' = sends + 1
  /\ messages' = <<Text("user")>>
  /\ UNCHANGED <<provider, step, pending, actions, lessons, outcome, cycles, effects>>

\* Mutant: the loop has no limit.
Sends_NoLimit == pc = "send" /\ sends' = sends + 1

\* Another round of the act loop sends the conversation.
Sends == pc = "send" /\ step < MaxActSteps /\ sends' = sends + 1

\* Mutant: a failed request ends the whole cycle.
SendFailsOrDone_ReturnsError ==
  /\ Sends
  /\ pc' = "idle" /\ outcome' = "error"
  /\ UNCHANGED <<provider, step, messages, pending, actions, lessons, cycles, effects>>

\* The request fails, or the answer has no call in it: the loop is left.
SendFailsOrDone ==
  /\ Sends
  /\ pc' = "reflect"
  /\ UNCHANGED <<provider, step, messages, pending, actions, lessons, outcome,
                 cycles, effects>>

\* The IDs of n calls: providers number them afresh; for claude-cli the
\* client makes them up from the position in the answer.
CallIds(n) ==
  IF provider = "claude-cli" THEN [i \in 1 .. n |-> i]
                             ELSE [i \in 1 .. n |-> effects + i]

\* An answer with native tool calls is appended at once.
AnswerCalls ==
  /\ Sends
  /\ \E n \in 1 .. MaxCalls :
       /\ pending' = CallIds(n)
       /\ messages' = Append(messages, Calls(CallIds(n)))
  /\ pc' = "exec"
  /\ UNCHANGED <<provider, step, actions, lessons, outcome, cycles, effects>>

\* A textual answer with TOOL: in it; parseToolCall sees one call.
AnswerText ==
  /\ Sends
  /\ pending' = <<0>> /\ pc' = "exec"
  /\ UNCHANGED <<provider, step, messages, actions, lessons, outcome, cycles, effects>>

\* Mutant: a tool that fails gets no answer.
Feedback_OnlyOk(id, ok, said) ==
  IF id = 0 THEN <<Text("assistant"), Text("user")>>
  ELSE IF ok THEN <<ToolResult(id, said)>> ELSE <<>>

\* What the conversation gains from an execution, whether it went well or not.
\* A textual call is answered in a sentence, a native one by the bare output.
Feedback(id, ok, said) ==
  IF id = 0 THEN <<Text("assistant"), Text("user")>> ELSE <<ToolResult(id, said)>>

\* Mutant: the loop continues without counting native rounds.
NextStep_TextOnly(id) == IF id = 0 THEN step + 1 ELSE step

\* Both branches end in the step of the for loop.
NextStep(id) == step + 1

\* The next call is executed, recorded and answered.  The model is free in the
\* tool it names and in the input it gives.
Execute ==
  /\ pc = "exec"
  /\ LET id == Head(pending) IN
     /\ \E kind \in ToolKinds, form \in Forms : \E ok \in Outcomes(kind, form) :
          /\ actions' = Append(actions,
               [ok |-> ok, lost |-> /\ form = "wrapped" /\ kind # "unknown"
                                    /\ ~Fits(kind, form)])
          /\ \E said \in Prints(kind, ok) : messages' = messages \o Feedback(id, ok, said)
     /\ pending' = Tail(pending)
     /\ IF Tail(pending) = <<>> THEN pc' = "send" /\ step' = NextStep(id)
                                ELSE UNCHANGED <<pc, step>>
  /\ effects' = effects + 1
  /\ UNCHANGED <<provider, lessons, outcome, cycles, sends>>

\* The loop is over; Run reflects, remembers a lesson whatever the reflection
\* was, and succeeds, also when the lesson could not be stored.
Reflect ==
  /\ pc = "reflect" \/ (pc = "send" /\ step >= MaxActSteps)
  /\ \/ \E lesson \in {"reflection", "unavailable"} : lessons' = Append(lessons, lesson)
     \/ UNCHANGED lessons
  /\ pc' = "idle" /\ outcome' = "result" /\ sends' = sends + 1
  /\ UNCHANGED <<provider, step, messages, pending, actions, cycles, effects>>

\* Nothing is left to do within the bound.
Finished == pc = "idle" /\ cycles = MaxCycles /\ UNCHANGED vars

Next ==
  \/ Run \/ PlanFails \/ PlanMade
  \/ SendFailsOrDone \/ AnswerCalls \/ AnswerText \/ Execute
  \/ Reflect \/ Finished

Spec == Init /\ [][Next]_vars

-----------------------------------------------------------------------------
(* Requests: what each client makes of a message, its role and whether its *)
(* text has a field in the request.                                        *)

\* Anthropic.buildMessages: a tool message becomes a user message of one
\* tool_result block, whose content is there also when it is empty.
WireAnthropic(m) ==
  [role |-> IF m.role = "tool" THEN "user" ELSE m.role, content |-> TRUE]

\* Mutant: the content of a tool message is read with Message.Text().
WireOpenAI_TextOnly(m) == [role |-> m.role, content |-> m.text /\ m.role # "tool"]

\* OpenAI.Send: every role has its counterpart; empty content is omitted.
WireOpenAI(m) == [role |-> m.role, content |-> m.text]

\* buildClaudePrompt: every role has its heading, below it Message.Text(),
\* which has nothing of a tool result.
WireClaudeCLI(m) == [role |-> m.role, content |-> m.text /\ m.role # "tool"]

Wire(m) ==
  CASE provider = "anthropic" -> WireAnthropic(m)
    [] provider = "openai"    -> WireOpenAI(m)
    [] OTHER                  -> WireClaudeCLI(m)

\* Whatever text the message has is in the request.
Shows(m) == m.text => Wire(m).content

-----------------------------------------------------------------------------
\* TypeOK: the types of the variables.
TypeOK ==
  /\ provider \in Providers
  /\ pc \in {"idle", "plan", "send", "exec", "reflect"}
  /\ step \in 0 .. MaxActSteps
  /\ messages \in Seq(Message)
  /\ pending \in Seq(Nat)
  /\ actions \in Seq(Action)
  /\ lessons \in Seq({"reflection", "unavailable"})
  /\ outcome \in {"none", "result", "error"}
  /\ cycles \in 0 .. MaxCycles
  /\ effects \in Nat /\ sends \in Nat

\* The calls of message i are answered by the messages that follow it, in order.
Answered(i) ==
  LET calls == messages[i].calls IN
  /\ i + Len(calls) <= Len(messages)
  /\ \A k \in DOMAIN calls : messages[i + k].answers = calls[k]

\* Message i, a tool result, belongs to the calls right before its group.
Belongs(i) ==
  \E j \in 1 .. i - 1 : /\ i - j \in DOMAIN messages[j].calls
                        /\ messages[j].calls[i - j] = messages[i].answers

\* The conversation of every request is in order, also after tools have failed
\* and when native and textual answers alternate (agent.go: "Feed tool result
\* back"): it begins and ends on the user's side, the assistant never speaks
\* twice running, the calls of an answer are answered by the messages right
\* after it, one by one and in order, and no result stands without its call.
\* Whether an API takes the request depends on more, which is not stated: the
\* names of the tools, fields that are omitted, roles that alternate.
CallsAreAnswered ==
  pc = "send" =>
    /\ messages[1].role = "user"
    /\ messages[Len(messages)].role # "assistant"
    /\ \A i \in 1 .. Len(messages) - 1 :
         messages[i].role = "assistant" => messages[i + 1].role # "assistant"
    /\ \A i \in DOMAIN messages :
         /\ Answered(i)
         /\ messages[i].role = "tool" => Belongs(i)

\* The model hears of every tool that ran: the request has, on the user's side,
\* one message for each execution of the cycle, with its text if there is any
\* (agent.go: "Feed tool result back").
ResultsReachModel ==
  pc = "send" =>
    Cardinality({i \in 2 .. Len(messages) :
                   Wire(messages[i]).role # "assistant" /\ Shows(messages[i])}) = effects

\* The two HTTP clients keep that promise, claude-cli does not.
ResultsReachApiModels == provider # "claude-cli" => ResultsReachModel

\* A cycle sends a plan, a reflection and MaxActSteps requests at most,
\* however many calls an answer holds and however tools fail.
SendsBounded == sends <= MaxActSteps + 2

\* What Run returns tells what was done: with an error no tool has run (the
\* task queue then marks the task failed), with a result every execution is
\* in it, although the model may have failed half-way.
OutcomeTellsEffects ==
  pc = "idle" => /\ outcome = "error" => effects = 0
                 /\ outcome = "result" => Len(actions) = effects

\* A call that keeps to the schema the agent advertises (ToToolDefs: one
\* string "input") gets its argument to the tool (ManifestTool "adapts a
\* manifest command to the tools.Tool interface").
AdvertisedCallsArrive == \A i \in DOMAIN actions : ~actions[i].lost
=============================================================================
