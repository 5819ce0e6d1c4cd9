--------------------------- MODULE AgentLoop_proofs ---------------------------
(***************************************************************************)
(* The act loop ends in time and what Run returns tells what was done, for *)
(* every set of clients, step limit and number of calls in an answer.      *)
(*                                                                         *)
(* Requests are counted against the loop counter: a round sends once and   *)
(* then counts, in both branches, so "send" is reached with at most one    *)
(* request more than the counter (the plan), "exec" with two.              *)
(*                                                                         *)
(* The conversation is followed call by call: between two requests the     *)
(* calls that still wait are exactly those the last answer made and no     *)
(* later message answers, whatever came before being answered in place.    *)
(***************************************************************************)
EXTENDS AgentLoop, FiniteSetTheorems, TLAPS

\* The number of requests each phase allows.
SendsInv ==
  /\ sends <= MaxActSteps + 2
  /\ pc = "plan" => sends = 0 /\ step = 0
  /\ pc = "send" => sends <= step + 1
  /\ pc = "exec" => sends <= step + 2 /\ step < MaxActSteps
  /\ pc = "reflect" => sends <= MaxActSteps + 1

EffectsInv ==
  /\ Len(actions) = effects
  /\ pc = "plan" \/ outcome = "error" => effects = 0
  /\ pc # "idle" => outcome = "none"

IInv == TypeOK /\ SendsInv /\ EffectsInv /\ (pc = "exec" => pending # <<>>)

-----------------------------------------------------------------------------
LEMMA InitIInv == Init => IInv
  BY BoundsAssumption
     DEF Init, IInv, TypeOK, SendsInv, EffectsInv, Message, Action

\* The IDs of an answer are numbers, one for each call.
LEMMA CallIdsType ==
  ASSUME TypeOK, NEW n \in 1 .. MaxCalls
  PROVE  CallIds(n) \in Seq(Nat) /\ CallIds(n) # <<>>
  <1>1. n \in Nat /\ n >= 1
    BY BoundsAssumption
  <1>2. CallIds(n) \in [1 .. n -> Nat]
    BY <1>1 DEF CallIds, TypeOK
  <1>3. CallIds(n) \in Seq(Nat) /\ Len(CallIds(n)) = n
    BY <1>1, <1>2
  <1> QED BY <1>1, <1>3

\* Whatever an execution adds to the conversation is messages.
LEMMA FeedbackType ==
  ASSUME NEW id \in Nat, NEW ok \in BOOLEAN, NEW said \in BOOLEAN
  PROVE  Feedback(id, ok, said) \in Seq(Message)
  <1>1. <<>> \in Seq(Nat) /\ 0 \in Nat
    OBVIOUS
  <1>2. Text("assistant") \in Message /\ Text("user") \in Message
        /\ ToolResult(id, said) \in Message
    BY <1>1 DEF Text, ToolResult, Message
  <1> QED BY <1>2 DEF Feedback

-----------------------------------------------------------------------------
(* One lemma per action: it keeps IInv.                                    *)

LEMMA RunIInv ==
  ASSUME IInv, Run
  PROVE  IInv'
  <1>1. TypeOK'
    BY BoundsAssumption DEF IInv, TypeOK, Run, Message, Action
  <1>2. SendsInv'
    BY BoundsAssumption DEF IInv, SendsInv, Run
  <1>3. EffectsInv' /\ (pc = "exec" => pending # <<>>)'
    BY DEF Run, EffectsInv
  <1> QED BY <1>1, <1>2, <1>3 DEF IInv

LEMMA PlanIInv ==
  ASSUME IInv, PlanFails \/ PlanMade
  PROVE  IInv'
  <1>1. <<Text("user")>> \in Seq(Message)
    BY DEF Text, Message
  <1>2. TypeOK'
    <2>1. CASE PlanFails
      BY <2>1 DEF IInv, TypeOK, PlanFails
    <2>2. CASE PlanMade
      BY <1>1, <2>2 DEF IInv, TypeOK, PlanMade
    <2> QED BY <2>1, <2>2
  <1>3. SendsInv'
    <2>1. sends = 0 /\ step \in Nat /\ pc = "plan"
      BY DEF IInv, SendsInv, TypeOK, PlanFails, PlanMade
    <2> QED BY <2>1, BoundsAssumption DEF SendsInv, PlanFails, PlanMade
  <1>4. EffectsInv' /\ (pc = "exec" => pending # <<>>)'
    BY DEF IInv, EffectsInv, PlanFails, PlanMade
  <1> QED BY <1>2, <1>3, <1>4 DEF IInv

LEMMA SendFailsOrDoneIInv ==
  ASSUME IInv, SendFailsOrDone
  PROVE  IInv'
  <1>1. TypeOK'
    BY DEF IInv, TypeOK, SendFailsOrDone, Sends
  <1>2. SendsInv'
    <2>1. sends \in Nat /\ step \in Nat /\ step < MaxActSteps /\ sends <= step + 1
      BY DEF IInv, SendsInv, TypeOK, SendFailsOrDone, Sends
    <2> QED BY <2>1, BoundsAssumption DEF SendsInv, SendFailsOrDone, Sends
  <1>3. EffectsInv' /\ (pc = "exec" => pending # <<>>)'
    BY DEF IInv, EffectsInv, SendFailsOrDone, Sends
  <1> QED BY <1>1, <1>2, <1>3 DEF IInv

LEMMA AnswerIInv ==
  ASSUME IInv, AnswerCalls \/ AnswerText
  PROVE  IInv'
  <1>1. /\ pending' \in Seq(Nat) /\ pending' # <<>>
        /\ messages' \in Seq(Message)
    <2>1. CASE AnswerCalls
      <3>1. PICK n \in 1 .. MaxCalls :
              /\ pending' = CallIds(n)
              /\ messages' = Append(messages, Calls(CallIds(n)))
        BY <2>1 DEF AnswerCalls
      <3>2. CallIds(n) \in Seq(Nat) /\ CallIds(n) # <<>>
        BY CallIdsType DEF IInv
      <3>3. Calls(CallIds(n)) \in Message
        BY <3>2 DEF Calls, Message
      <3> QED BY <3>1, <3>2, <3>3 DEF IInv, TypeOK
    <2>2. CASE AnswerText
      BY <2>2 DEF AnswerText, IInv, TypeOK
    <2> QED BY <2>1, <2>2
  <1>2. TypeOK'
    <2>1. CASE AnswerCalls
      BY <1>1, <2>1 DEF IInv, TypeOK, AnswerCalls, Sends
    <2>2. CASE AnswerText
      BY <1>1, <2>2 DEF IInv, TypeOK, AnswerText, Sends
    <2> QED BY <2>1, <2>2
  <1>3. SendsInv'
    <2>1. sends \in Nat /\ step \in Nat /\ step < MaxActSteps /\ sends <= step + 1
      BY DEF IInv, SendsInv, TypeOK, AnswerCalls, AnswerText, Sends
    <2>2. sends' = sends + 1 /\ step' = step /\ pc' = "exec"
      BY DEF AnswerCalls, AnswerText, Sends
    <2> QED BY <2>1, <2>2, BoundsAssumption DEF SendsInv
  <1>4. EffectsInv'
    BY DEF IInv, EffectsInv, AnswerCalls, AnswerText, Sends
  <1> QED BY <1>1, <1>2, <1>3, <1>4 DEF IInv

LEMMA ExecuteIInv ==
  ASSUME IInv, Execute
  PROVE  IInv'
  <1> DEFINE id == Head(pending)
  <1>1. id \in Nat /\ Tail(pending) \in Seq(Nat)
    <2>1. pending \in Seq(Nat) /\ pending # <<>>
      BY DEF IInv, TypeOK, Execute
    <2> QED BY <2>1
  <1>0. PICK kind \in ToolKinds, form \in Forms :
          \E ok \in Outcomes(kind, form) :
            /\ actions' = Append(actions,
                 [ok |-> ok, lost |-> /\ form = "wrapped" /\ kind # "unknown"
                                      /\ ~Fits(kind, form)])
            /\ \E said \in Prints(kind, ok) : messages' = messages \o Feedback(id, ok, said)
    BY DEF Execute
  <1> DEFINE lost == form = "wrapped" /\ kind # "unknown" /\ ~Fits(kind, form)
  <1>2. PICK ok \in Outcomes(kind, form) :
          /\ actions' = Append(actions, [ok |-> ok, lost |-> lost])
          /\ \E said \in Prints(kind, ok) : messages' = messages \o Feedback(id, ok, said)
    BY <1>0
  <1> DEFINE a == [ok |-> ok, lost |-> lost]
  <1>3. ok \in BOOLEAN
    BY DEF Outcomes
  <1>4. a \in Action
    BY <1>3, Zenon DEF Action
  <1>5. actions' = Append(actions, a)
    BY <1>2
  <1> HIDE DEF a
  <1>6. actions' \in Seq(Action) /\ Len(actions') = Len(actions) + 1
    BY <1>4, <1>5 DEF IInv, TypeOK
  <1>7. messages' \in Seq(Message)
    <2>1. messages \in Seq(Message)
      BY DEF IInv, TypeOK
    <2>2. PICK said \in BOOLEAN : messages' = messages \o Feedback(id, ok, said)
      BY <1>2 DEF Prints
    <2>3. Feedback(id, ok, said) \in Seq(Message)
      BY <1>1, <1>3, FeedbackType
    <2> HIDE DEF id
    <2> QED BY <2>1, <2>2, <2>3
  <1>8. step \in Nat /\ step < MaxActSteps /\ sends \in Nat /\ sends <= step + 2
    BY DEF IInv, SendsInv, TypeOK, Execute
  <1>9. \/ pc' = "send" /\ step' = step + 1
        \/ pc' = "exec" /\ step' = step /\ pending' # <<>>
    BY DEF Execute, NextStep
  <1>10. TypeOK'
    <2>1. step' \in 0 .. MaxActSteps /\ pc' \in {"send", "exec"}
      BY <1>8, <1>9, BoundsAssumption
    <2> QED BY <1>1, <1>6, <1>7, <2>1 DEF IInv, TypeOK, Execute
  <1>11. SendsInv'
    <2>1. sends' = sends /\ MaxActSteps \in Nat
      BY BoundsAssumption DEF Execute
    <2> HIDE DEF id, lost
    <2> QED BY <1>8, <1>9, <2>1 DEF SendsInv
  <1>12. EffectsInv'
    BY <1>6, <1>9 DEF IInv, EffectsInv, TypeOK, Execute
  <1> QED BY <1>9, <1>10, <1>11, <1>12 DEF IInv

LEMMA ReflectIInv ==
  ASSUME IInv, Reflect
  PROVE  IInv'
  <1>1. TypeOK'
    <2>1. lessons \in Seq({"reflection", "unavailable"})
      BY DEF IInv, TypeOK
    <2>2. \/ \E lesson \in {"reflection", "unavailable"} :
                lessons' = Append(lessons, lesson)
          \/ lessons' = lessons
      BY DEF Reflect
    <2>3. lessons' \in Seq({"reflection", "unavailable"})
      BY <2>1, <2>2
    <2>4. sends' \in Nat /\ outcome' = "result" /\ pc' = "idle"
      BY DEF IInv, TypeOK, Reflect
    <2> QED BY <2>3, <2>4 DEF IInv, TypeOK, Reflect
  <1>2. SendsInv'
    <2>1. sends \in Nat /\ sends <= MaxActSteps + 1
      BY BoundsAssumption DEF IInv, SendsInv, TypeOK, Reflect
    <2> QED BY <2>1, BoundsAssumption DEF SendsInv, Reflect
  <1>3. EffectsInv' /\ (pc = "exec" => pending # <<>>)'
    BY DEF IInv, EffectsInv, Reflect
  <1> QED BY <1>1, <1>2, <1>3 DEF IInv

LEMMA StutterIInv ==
  ASSUME IInv, UNCHANGED vars
  PROVE  IInv'
  BY DEF IInv, TypeOK, SendsInv, EffectsInv, vars

-----------------------------------------------------------------------------
\* IInv is an invariant of the agent.
THEOREM Invariance == Spec => []IInv
  <1>1. IInv /\ [Next]_vars => IInv'
    BY RunIInv, PlanIInv, SendFailsOrDoneIInv, AnswerIInv, ExecuteIInv,
       ReflectIInv, StutterIInv DEF Next, Finished
  <1> QED BY InitIInv, <1>1, PTL DEF Spec

\* TypeOK for every limit: the conversation, the results and the counters of
\* Run keep their types.
THEOREM TypeCorrect == Spec => []TypeOK
  <1>1. IInv => TypeOK
    BY DEF IInv
  <1> QED BY Invariance, <1>1, PTL

\* SendsBounded for every limit: a cycle costs at most maxActSteps + 2
\* requests, whatever the model answers and whatever tools do.
THEOREM BoundedSends == Spec => []SendsBounded
  <1>1. IInv => SendsBounded
    BY BoundsAssumption DEF IInv, SendsInv, TypeOK, SendsBounded
  <1> QED BY Invariance, <1>1, PTL

\* OutcomeTellsEffects for every limit: an error of Run means that no tool has
\* run, a result holds every execution.
THEOREM TruthfulOutcome == Spec => []OutcomeTellsEffects
  <1>1. IInv => OutcomeTellsEffects
    BY DEF IInv, EffectsInv, OutcomeTellsEffects
  <1> QED BY Invariance, <1>1, PTL
-----------------------------------------------------------------------------
(* The conversation.  It only grows within a cycle; between two requests it *)
(* is Closed, and while the native calls of an answer are executed it is    *)
(* Open: the results so far stand behind the calls, the rest is pending.    *)

Started ==
  /\ Len(messages) >= 1 /\ messages[1] = Text("user")
  /\ \A i \in 1 .. Len(messages) - 1 :
       messages[i].role = "assistant" => messages[i + 1].role # "assistant"
  /\ \A i \in 1 .. Len(messages) : messages[i].role = "tool" => Belongs(i)

Closed ==
  /\ messages[Len(messages)].role # "assistant"
  /\ \A i \in 1 .. Len(messages) : Answered(i)

\* The calls of message j are being executed.
OpenAt(j) ==
  LET n == Len(messages)  calls == messages[j].calls IN
  /\ messages[j].role = "assistant"
  /\ \A i \in 1 .. n : i # j => Answered(i)
  /\ Len(calls) = (n - j) + Len(pending)
  /\ \A k \in 1 .. n - j : messages[j + k].answers = calls[k]
  /\ \A k \in 1 .. Len(pending) : pending[k] = calls[n - j + k] /\ pending[k] # 0

Native == pending # <<>> /\ pending[1] # 0

TalkInv ==
  /\ pc \in {"send", "exec"} => Started
  /\ pc = "send" \/ (pc = "exec" /\ ~Native) => Closed
  /\ pc = "exec" /\ Native => \E j \in 1 .. Len(messages) : OpenAt(j)
  /\ pc = "exec" /\ ~Native => pending = <<0>>

\* The messages that tell the model of an execution.
Heard == {i \in 2 .. Len(messages) : messages[i].role # "assistant"}

HeardInv == pc \in {"send", "exec"} => Cardinality(Heard) = effects

-----------------------------------------------------------------------------
\* The conversation after more has been said.
Grows(n) ==
  /\ messages \in Seq(Message) /\ messages' \in Seq(Message)
  /\ Len(messages') = Len(messages) + n
  /\ \A i \in 1 .. Len(messages) : messages'[i] = messages[i]

LEMMA StaysAnswered ==
  ASSUME NEW n \in Nat, Grows(n), NEW i \in 1 .. Len(messages), Answered(i)
  PROVE  Answered(i)'
  <1> DEFINE calls == messages[i].calls
  <1>0. messages[i] \in Message /\ messages'[i] = messages[i]
    BY DEF Grows
  <1>1. messages'[i].calls = calls /\ calls \in Seq(Nat) /\ i \in Nat
    BY <1>0 DEF Message
  <1>2. i + Len(calls) <= Len(messages)
    BY DEF Answered
  <1>3. \A k \in 1 .. Len(calls) : i + k \in 1 .. Len(messages)
    BY <1>1, <1>2
  <1>4. ASSUME NEW k \in DOMAIN calls PROVE messages'[i + k].answers = calls[k]
    <2>1. i + k \in 1 .. Len(messages)
      BY <1>1, <1>3
    <2>2. messages[i + k].answers = calls[k]
      BY DEF Answered
    <2> QED BY <2>1, <2>2 DEF Grows
  <1>5. i + Len(calls) <= Len(messages')
    <2>1. Len(messages) \in Nat /\ Len(messages') = Len(messages) + n
      BY DEF Grows
    <2> QED BY <1>1, <1>2, <2>1
  <1> HIDE DEF calls
  <1>6. calls = (messages[i].calls)'
    BY <1>1
  <1> QED BY <1>4, <1>5, <1>6 DEF Answered

LEMMA StaysBelonging ==
  ASSUME NEW n \in Nat, Grows(n), NEW i \in 1 .. Len(messages), Belongs(i)
  PROVE  Belongs(i)'
  <1>1. PICK j \in 1 .. i - 1 : /\ i - j \in DOMAIN messages[j].calls
                                /\ messages[j].calls[i - j] = messages[i].answers
    BY DEF Belongs
  <1>2. messages'[i] = messages[i] /\ messages'[j] = messages[j]
    BY DEF Grows
  <1> QED BY <1>1, <1>2 DEF Belongs

\* A message without calls needs no answer.
LEMMA NothingToAnswer ==
  ASSUME messages' \in Seq(Message), NEW i \in 1 .. Len(messages'),
         messages'[i].calls = <<>>
  PROVE  Answered(i)'
  <1>1. i \in Nat /\ i <= Len(messages')
    OBVIOUS
  <1> QED BY <1>1 DEF Answered

LEMMA AnswerCallsTalk ==
  ASSUME IInv, TalkInv, AnswerCalls
  PROVE  TalkInv'
  <1>1. PICK n \in 1 .. MaxCalls :
          /\ pending' = CallIds(n)
          /\ messages' = Append(messages, Calls(CallIds(n)))
    BY DEF AnswerCalls
  <1>0. PICK m \in Nat : m = Len(messages)
    BY DEF IInv, TypeOK
  <1> DEFINE c == CallIds(n)
  <1>2. /\ c \in Seq(Nat) /\ Len(c) = n /\ n \in Nat /\ n >= 1
        /\ \A k \in 1 .. n : c[k] # 0
    <2>1. n \in Nat /\ n >= 1 /\ effects \in Nat
      BY BoundsAssumption DEF IInv, TypeOK
    <2>2. c \in [1 .. n -> Nat] /\ \A k \in 1 .. n : c[k] # 0
      BY <2>1 DEF CallIds
    <2> QED BY <2>1, <2>2
  <1>3. /\ messages \in Seq(Message) /\ m = Len(messages) /\ Calls(c) \in Message
        /\ pc = "send" /\ pc' = "exec" /\ Started /\ Closed
    BY <1>0, <1>2 DEF IInv, TypeOK, Calls, Message, AnswerCalls, Sends, TalkInv
  <1> HIDE DEF c
  <1>4. Grows(1) /\ messages'[m + 1] = Calls(c)
    <2>1. messages' = Append(messages, Calls(c))
      BY <1>1 DEF c
    <2> QED BY <2>1, <1>3 DEF Grows
  <1>5. pending' = c /\ Native'
    <2>1. pending' = c
      BY <1>1 DEF c
    <2>2. 1 \in 1 .. n
      BY <1>2
    <2> QED BY <2>1, <2>2, <1>2 DEF Native
  <1>6. Started'
    <2>1. Len(messages') >= 1 /\ messages'[1] = Text("user")
      BY <1>3, <1>4 DEF Started, Grows
    <2>2. ASSUME NEW i \in 1 .. Len(messages') - 1, messages'[i].role = "assistant"
          PROVE  messages'[i + 1].role # "assistant"
      <3>1. i \in 1 .. m /\ messages'[i] = messages[i]
        BY <1>3, <1>4 DEF Grows
      <3>2. i # m
        BY <2>2, <3>1, <1>3 DEF Closed
      <3>3. i \in 1 .. m - 1 /\ i + 1 \in 1 .. m
        BY <3>1, <3>2, <1>3
      <3> QED BY <2>2, <3>1, <3>3, <1>3, <1>4 DEF Started, Grows
    <2>3. ASSUME NEW i \in 1 .. Len(messages'), messages'[i].role = "tool"
          PROVE  Belongs(i)'
      <3>1. i # m + 1
        BY <2>3, <1>4 DEF Calls
      <3>2. i \in 1 .. m /\ messages'[i] = messages[i]
        BY <3>1, <1>3, <1>4 DEF Grows
      <3> QED BY <2>3, <3>2, <1>3, <1>4, StaysBelonging DEF Started
    <2> QED BY <2>1, <2>2, <2>3 DEF Started
  <1>7. OpenAt(m + 1)'
    <2>1. ASSUME NEW i \in 1 .. Len(messages'), i # m + 1 PROVE Answered(i)'
      <3>1. i \in 1 .. m
        BY <2>1, <1>3, <1>4 DEF Grows
      <3> QED BY <3>1, <1>3, <1>4, StaysAnswered DEF Closed
    <2>2. Len(messages') = m + 1 /\ messages'[m + 1].calls = c
          /\ messages'[m + 1].role = "assistant"
      BY <1>3, <1>4 DEF Grows, Calls
    <2>3. pending' = c /\ (m + 1) - (m + 1) = 0
      BY <1>3, <1>5
    <2>4. \A k \in 1 .. Len(c) : c[k] # 0 /\ (m + 1) - (m + 1) + k = k
      BY <1>2, <1>3
    <2> QED BY <2>1, <2>2, <2>3, <2>4, <1>2 DEF OpenAt
  <1>8. m + 1 \in 1 .. Len(messages')
    BY <1>3, <1>4 DEF Grows
  <1>9. \E j \in 1 .. Len(messages') : OpenAt(j)'
    BY <1>7, <1>8
  <1> QED BY <1>3, <1>5, <1>6, <1>9 DEF TalkInv

\* A textual call is answered by two messages at once.
LEMMA TextTalk ==
  ASSUME IInv, TalkInv, Execute, ~Native
  PROVE  TalkInv'
  <1>0. PICK m \in Nat : m = Len(messages)
    BY DEF IInv, TypeOK
  <1>1. /\ messages \in Seq(Message) /\ pending = <<0>> /\ Started /\ Closed
        /\ Len(messages) >= 1
    BY DEF IInv, TypeOK, TalkInv, Execute, Started
  <1>2. messages' = messages \o <<Text("assistant"), Text("user")>> /\ pc' = "send"
    BY <1>1 DEF Execute, Feedback
  <1>3. Text("assistant") \in Message /\ Text("user") \in Message
    BY DEF Text, Message
  <1>4. /\ Grows(2)
        /\ messages'[m + 1] = Text("assistant") /\ messages'[m + 2] = Text("user")
    BY <1>0, <1>1, <1>2, <1>3 DEF Grows
  <1>5. /\ Len(messages') = m + 2 /\ messages' \in Seq(Message)
        /\ \A i \in 1 .. m : messages'[i] = messages[i]
    BY <1>0, <1>4 DEF Grows
  <1>6. \A i \in 1 .. m + 2 : i \in 1 .. m \/ i = m + 1 \/ i = m + 2
    OBVIOUS
  <1>7. Started'
    <2>1. Len(messages') >= 1 /\ messages'[1] = Text("user")
      BY <1>0, <1>1, <1>5 DEF Started
    <2>2. ASSUME NEW i \in 1 .. m + 1, messages'[i].role = "assistant"
          PROVE  messages'[i + 1].role # "assistant"
      <3>1. CASE i = m + 1
        BY <3>1, <1>4 DEF Text
      <3>2. CASE i # m + 1
        <4>1. i \in 1 .. m /\ messages'[i] = messages[i]
          BY <3>2, <1>5
        <4>2. i # m
          BY <2>2, <4>1, <1>0, <1>1 DEF Closed
        <4>3. i \in 1 .. m - 1 /\ i + 1 \in 1 .. m
          BY <4>1, <4>2
        <4> QED BY <2>2, <4>1, <4>3, <1>0, <1>1, <1>5 DEF Started
      <3> QED BY <3>1, <3>2
    <2>3. ASSUME NEW i \in 1 .. m + 2, messages'[i].role = "tool"
          PROVE  Belongs(i)'
      <3>1. i \in 1 .. m /\ messages'[i] = messages[i]
        BY <2>3, <1>4, <1>5, <1>6 DEF Text
      <3> QED BY <2>3, <3>1, <1>0, <1>1, <1>4, StaysBelonging DEF Started
    <2>4. Len(messages') - 1 = m + 1
      BY <1>5
    <2> QED BY <2>1, <2>2, <2>3, <2>4, <1>5 DEF Started
  <1>8. Closed'
    <2>1. messages'[Len(messages')].role # "assistant"
      BY <1>4, <1>5 DEF Text
    <2>2. ASSUME NEW i \in 1 .. Len(messages') PROVE Answered(i)'
      <3>1. CASE i \in 1 .. m
        BY <3>1, <1>0, <1>1, <1>4, StaysAnswered DEF Closed
      <3>2. CASE i \in {m + 1, m + 2}
        <4>1. messages'[i].calls = <<>>
          BY <3>2, <1>4 DEF Text
        <4> QED BY <4>1, <1>5, NothingToAnswer
      <3> QED BY <3>1, <3>2, <1>5, <1>6
    <2> QED BY <2>1, <2>2 DEF Closed
  <1> QED BY <1>2, <1>7, <1>8 DEF TalkInv

\* A native call is answered in its place.
LEMMA NativeTalk ==
  ASSUME IInv, TalkInv, Execute, Native
  PROVE  TalkInv'
  <1>0. PICK m \in Nat : m = Len(messages)
    BY DEF IInv, TypeOK
  <1>1. PICK j \in 1 .. m : OpenAt(j)
    BY <1>0 DEF TalkInv, Execute
  <1>2. PICK id \in Nat, p \in Nat :
          /\ pending \in Seq(Nat) /\ p = Len(pending) /\ p >= 1
          /\ id = pending[1] /\ id = Head(pending) /\ id # 0
    BY DEF Native, IInv, TypeOK
  <1>3. PICK c \in Seq(Nat) : c = messages[j].calls
    <2>1. messages[j] \in Message
      BY <1>0 DEF IInv, TypeOK
    <2> QED BY <2>1 DEF Message
  <1>4. /\ messages[j].role = "assistant"
        /\ \A i \in 1 .. m : i # j => Answered(i)
        /\ Len(c) = (m - j) + p
        /\ \A k \in 1 .. m - j : messages[j + k].answers = c[k]
        /\ \A k \in 1 .. p : pending[k] = c[m - j + k] /\ pending[k] # 0
    BY <1>0, <1>1, <1>2, <1>3 DEF OpenAt
  <1>0a. PICK ok \in BOOLEAN, said \in BOOLEAN :
            messages' = messages \o Feedback(id, ok, said)
    BY <1>2 DEF Execute, Outcomes, Prints
  <1>5. /\ messages \in Seq(Message) /\ Started
        /\ messages' = Append(messages, ToolResult(id, said))
        /\ pending' = Tail(pending)
        /\ IF p = 1 THEN pc' = "send" ELSE pc' = "exec"
    <2>1. messages \in Seq(Message) /\ Started /\ pending' = Tail(pending)
          /\ pc = "exec"
      BY DEF IInv, TypeOK, TalkInv, Execute
    <2>3. messages' = messages \o <<ToolResult(id, said)>>
      BY <1>0a, <1>2 DEF Feedback
    <2>4. ToolResult(id, said) \in Message
      BY DEF ToolResult, Message
    <2>5. messages' = Append(messages, ToolResult(id, said))
      BY <2>1, <2>3, <2>4
    <2>6. Tail(pending) = <<>> <=> p = 1
      <3>1. Tail(pending) \in Seq(Nat) /\ Len(Tail(pending)) = p - 1
        BY <1>2
      <3>2. ASSUME NEW s \in Seq(Nat) PROVE s = <<>> <=> Len(s) = 0
        OBVIOUS
      <3>3. Tail(pending) = <<>> <=> Len(Tail(pending)) = 0
        BY <3>1, <3>2, Zenon
      <3> QED BY <3>1, <3>3, <1>2
    <2>7. IF p = 1 THEN pc' = "send" ELSE pc' = "exec"
      BY <2>1, <2>6 DEF Execute
    <2> QED BY <2>1, <2>5, <2>7
  <1>6. ToolResult(id, said) \in Message
    BY DEF ToolResult, Message
  <1>7. /\ Grows(1) /\ messages'[m + 1] = ToolResult(id, said)
        /\ Len(messages') = m + 1 /\ messages' \in Seq(Message)
        /\ \A i \in 1 .. m : messages'[i] = messages[i]
    BY <1>0, <1>5, <1>6 DEF Grows
  <1>8. m - j + 1 \in 1 .. Len(c) /\ c[m - j + 1] = id
    BY <1>2, <1>4
  <1>9. Started'
    <2>1. Len(messages') >= 1 /\ messages'[1] = Text("user")
      BY <1>0, <1>5, <1>7 DEF Started
    <2>2. ASSUME NEW i \in 1 .. m, messages'[i].role = "assistant"
          PROVE  messages'[i + 1].role # "assistant"
      <3>1. CASE i = m
        BY <3>1, <1>7 DEF ToolResult
      <3>2. CASE i # m
        <4>1. i \in 1 .. m - 1 /\ i + 1 \in 1 .. m
          BY <3>2
        <4> QED BY <2>2, <4>1, <1>0, <1>5, <1>7 DEF Started
      <3> QED BY <3>1, <3>2
    <2>3. ASSUME NEW i \in 1 .. m + 1, messages'[i].role = "tool"
          PROVE  Belongs(i)'
      <3>1. CASE i \in 1 .. m
        BY <2>3, <3>1, <1>0, <1>5, <1>7, StaysBelonging DEF Started
      <3>2. CASE i = m + 1
        <4>1. j \in 1 .. i - 1 /\ i - j = m - j + 1
          BY <3>2
        <4>2. messages'[j].calls = c /\ messages'[i].answers = id
          BY <3>2, <1>3, <1>7 DEF ToolResult
        <4> QED BY <4>1, <4>2, <1>8 DEF Belongs
      <3> QED BY <3>1, <3>2
    <2>4. Len(messages') - 1 = m
      BY <1>7
    <2> QED BY <2>1, <2>2, <2>3, <2>4, <1>7 DEF Started
  <1>10. ASSUME NEW i \in 1 .. m + 1, i # j PROVE Answered(i)'
    <2>1. CASE i \in 1 .. m
      BY <2>1, <1>0, <1>4, <1>7, <1>10, StaysAnswered
    <2>2. CASE i = m + 1
      <3>1. messages'[i].calls = <<>>
        BY <2>2, <1>7 DEF ToolResult
      <3> QED BY <3>1, <1>7, NothingToAnswer
    <2> QED BY <2>1, <2>2
  <1>11. ASSUME NEW k \in 1 .. m + 1 - j PROVE messages'[j + k].answers = c[k]
    <2>1. CASE k = m + 1 - j
      BY <2>1, <1>7, <1>8 DEF ToolResult
    <2>2. CASE k # m + 1 - j
      <3>1. k \in 1 .. m - j /\ j + k \in 1 .. m
        BY <2>2
      <3> QED BY <3>1, <1>4, <1>7
    <2> QED BY <2>1, <2>2
  <1>12. messages'[j].calls = c /\ messages'[j].role = "assistant"
    BY <1>3, <1>4, <1>7
  <1>13. CASE p = 1
    <2>1. Answered(j)'
      <3>1. Len(c) = m + 1 - j /\ j + Len(c) <= Len(messages')
        BY <1>4, <1>7, <1>13
      <3>2. ASSUME NEW k \in DOMAIN c PROVE messages'[j + k].answers = c[k]
        <4>1. k \in 1 .. m + 1 - j
          BY <3>1
        <4> QED BY <4>1, <1>11
      <3> QED BY <3>1, <3>2, <1>12 DEF Answered
    <2>2. Closed'
      BY <2>1, <1>7, <1>10 DEF Closed, ToolResult
    <2> QED BY <2>2, <1>5, <1>9, <1>13 DEF TalkInv
  <1>14. CASE p # 1
    <2>1. /\ pending' \in Seq(Nat) /\ Len(pending') = p - 1 /\ p - 1 \in Nat /\ p - 1 >= 1
          /\ \A k \in 1 .. p - 1 : pending'[k] = pending[k + 1]
      BY <1>2, <1>5, <1>14
    <2>2. ASSUME NEW k \in 1 .. p - 1
          PROVE  pending'[k] = c[(m + 1) - j + k] /\ pending'[k] # 0
      <3>1. k + 1 \in 1 .. p /\ m - j + (k + 1) = (m + 1) - j + k
        OBVIOUS
      <3> QED BY <3>1, <2>1, <1>4
    <2>3. OpenAt(j)'
      <3>1. Len(c) = (m + 1 - j) + Len(pending')
        BY <1>4, <2>1
      <3>2. PICK d \in Nat : d = (m + 1) - j /\ d = Len(messages') - j
        BY <1>7
      <3>3. Len(messages'[j].calls) = d + Len(pending')
        BY <3>1, <3>2, <1>12
      <3>4. ASSUME NEW k \in 1 .. Len(pending')
            PROVE  pending'[k] = messages'[j].calls[d + k] /\ pending'[k] # 0
        BY <3>2, <2>1, <2>2, <1>12
      <3>5. ASSUME NEW k \in 1 .. d
            PROVE  messages'[j + k].answers = messages'[j].calls[k]
        BY <3>2, <1>11, <1>12
      <3> QED BY <3>2, <3>3, <3>4, <3>5, <1>7, <1>10, <1>12 DEF OpenAt
    <2>4. Native'
      <3>1. 1 \in 1 .. p - 1 /\ pending' # <<>>
        BY <2>1
      <3> QED BY <3>1, <2>2 DEF Native
    <2>5. \E i \in 1 .. Len(messages') : OpenAt(i)'
      <3>1. j \in 1 .. Len(messages')
        BY <1>7
      <3> QED BY <2>3, <3>1
    <2> QED BY <2>4, <2>5, <1>5, <1>9, <1>14 DEF TalkInv
  <1> QED BY <1>13, <1>14

\* The other steps open, leave or forget the conversation.
LEMMA OtherTalk ==
  ASSUME IInv, TalkInv,
         \/ Run \/ PlanFails \/ PlanMade \/ SendFailsOrDone \/ AnswerText
         \/ Reflect \/ UNCHANGED vars
  PROVE  TalkInv'
  <1>1. CASE Run \/ PlanFails \/ SendFailsOrDone \/ Reflect
    BY <1>1 DEF Run, PlanFails, SendFailsOrDone, Reflect, TalkInv
  <1>2. CASE PlanMade
    <2> DEFINE m == Text("user")
    <2>1. pc' = "send" /\ messages' = <<m>>
      BY <1>2 DEF PlanMade
    <2>2. m \in Message /\ m.role = "user" /\ m.calls = <<>>
      BY DEF Text, Message
    <2> HIDE DEF m
    <2>3. /\ messages' \in Seq(Message) /\ Len(messages') = 1 /\ messages'[1] = m
          /\ \A i \in 1 .. Len(messages') : i = 1
      BY <2>1, <2>2
    <2>4. \A i \in 1 .. Len(messages') : Answered(i)'
      BY <2>2, <2>3, NothingToAnswer
    <2>5. Started'
      BY <2>2, <2>3 DEF Started, m
    <2>6. Closed'
      BY <2>2, <2>3, <2>4 DEF Closed
    <2> QED BY <2>1, <2>5, <2>6 DEF TalkInv
  <1>3. CASE AnswerText
    <2>1. /\ pc = "send" /\ pc' = "exec" /\ pending' = <<0>> /\ messages' = messages
      BY <1>3 DEF AnswerText, Sends
    <2>2. Started' /\ Closed'
      BY <2>1 DEF TalkInv, Started, Closed, Belongs, Answered
    <2> QED BY <2>1, <2>2 DEF TalkInv, Native
  <1>4. CASE UNCHANGED vars
    <2>1. pc' = pc /\ messages' = messages /\ pending' = pending
      BY <1>4 DEF vars
    <2>2. (Started' <=> Started) /\ (Closed' <=> Closed) /\ (Native' <=> Native)
      BY <2>1 DEF Started, Closed, Native, Belongs, Answered
    <2>3. ASSUME NEW j \in 1 .. Len(messages), OpenAt(j) PROVE OpenAt(j)'
      BY <2>1, <2>3 DEF OpenAt, Answered
    <2> QED BY <2>1, <2>2, <2>3 DEF TalkInv
  <1> QED BY <1>1, <1>2, <1>3, <1>4

LEMMA TalkInvariance == Spec => []TalkInv
  <1>1. Init => TalkInv
    BY DEF Init, TalkInv
  <1>2. IInv /\ TalkInv /\ [Next]_vars => TalkInv'
    BY AnswerCallsTalk, TextTalk, NativeTalk, OtherTalk DEF Next, Finished
  <1> QED BY <1>1, <1>2, Invariance, PTL DEF Spec

\* CallsAreAnswered for every limit and any number of calls in an answer: the
\* conversation of a request begins and ends on the user's side, and every
\* native call has its result in its place.
THEOREM AnsweredCalls == Spec => []CallsAreAnswered
  <1>1. IInv /\ TalkInv => CallsAreAnswered
    <2> SUFFICES ASSUME IInv, TalkInv, pc = "send" PROVE CallsAreAnswered
      BY DEF CallsAreAnswered
    <2>1. messages \in Seq(Message) /\ Started /\ Closed
      BY DEF IInv, TypeOK, TalkInv
    <2>2. messages[1].role = "user"
      BY <2>1 DEF Started, Text
    <2> QED BY <2>1, <2>2 DEF CallsAreAnswered, Started, Closed
  <1> QED BY <1>1, Invariance, TalkInvariance, PTL

-----------------------------------------------------------------------------
(* What the model hears.                                                    *)

\* A conversation that grows by one message that is not the assistant's, and
\* perhaps one before it that is, has one more to hear.
LEMMA HearsOne ==
  ASSUME NEW n \in 1 .. 2, Grows(n), Len(messages) >= 1,
         messages'[Len(messages) + n].role # "assistant",
         n = 2 => messages'[Len(messages) + 1].role = "assistant"
  PROVE  Cardinality(Heard') = Cardinality(Heard) + 1
  <1>1. PICK m \in Nat : m = Len(messages) /\ m >= 1
    BY DEF Grows
  <1>2. /\ Len(messages') = m + n /\ \A i \in 2 .. m : messages'[i] = messages[i]
        /\ messages'[m + n].role # "assistant"
        /\ n = 2 => messages'[m + 1].role = "assistant"
    BY <1>1 DEF Grows
  <1>3. Heard' = {i \in 2 .. m + n : messages'[i].role # "assistant"}
    BY <1>2 DEF Heard
  <1>4. Heard = {i \in 2 .. m : messages[i].role # "assistant"}
    BY <1>1 DEF Heard
  <1>5. ASSUME NEW i \in Int
        PROVE  i \in 2 .. m + n <=> i \in 2 .. m \/ i = m + n \/ (n = 2 /\ i = m + 1)
    BY <1>1
  <1>6. ASSUME NEW i PROVE i \in Heard' <=> i \in Heard \cup {m + n}
    <2>1. CASE i \in 2 .. m
      BY <2>1, <1>1, <1>2, <1>3, <1>4
    <2>2. CASE i \notin 2 .. m
      BY <2>2, <1>1, <1>2, <1>3, <1>4, <1>5
    <2> QED BY <2>1, <2>2
  <1>7. Heard' = Heard \cup {m + n}
    BY <1>6
  <1>8. m + n \notin Heard
    BY <1>1, <1>4
  <1>9. IsFiniteSet(Heard)
    <2>1. IsFiniteSet(2 .. m) /\ Heard \subseteq 2 .. m
      BY <1>1, <1>4, FS_Interval
    <2> QED BY <2>1, FS_Subset
  <1> QED BY <1>7, <1>8, <1>9, FS_AddElement

LEMMA ExecuteHeard ==
  ASSUME IInv, TalkInv, HeardInv, Execute
  PROVE  HeardInv'
  <1>1. PICK id \in Nat : id = Head(pending)
    BY DEF IInv, TypeOK, Execute
  <1>2. PICK ok \in BOOLEAN, said \in BOOLEAN :
          messages' = messages \o Feedback(id, ok, said)
    BY <1>1 DEF Execute, Outcomes, Prints
  <1>3. /\ messages \in Seq(Message) /\ Len(messages) >= 1 /\ effects' = effects + 1
        /\ Cardinality(Heard) = effects
    BY DEF IInv, TypeOK, TalkInv, Started, HeardInv, Execute
  <1>4. CASE id = 0
    <2>1. messages' = messages \o <<Text("assistant"), Text("user")>>
      BY <1>2, <1>4 DEF Feedback
    <2>2. Text("assistant") \in Message /\ Text("user") \in Message
      BY DEF Text, Message
    <2>3. /\ Grows(2) /\ messages'[Len(messages) + 1] = Text("assistant")
          /\ messages'[Len(messages) + 2] = Text("user")
      BY <2>1, <2>2, <1>3 DEF Grows
    <2>4. Cardinality(Heard') = Cardinality(Heard) + 1
      BY <2>3, <1>3, HearsOne DEF Text
    <2> QED BY <2>4, <1>3 DEF HeardInv
  <1>5. CASE id # 0
    <2>1. messages' = messages \o <<ToolResult(id, said)>>
      BY <1>2, <1>5 DEF Feedback
    <2>2. ToolResult(id, said) \in Message
      BY DEF ToolResult, Message
    <2>3. Grows(1) /\ messages'[Len(messages) + 1] = ToolResult(id, said)
      BY <2>1, <2>2, <1>3 DEF Grows
    <2>4. Cardinality(Heard') = Cardinality(Heard) + 1
      BY <2>3, <1>3, HearsOne DEF ToolResult
    <2> QED BY <2>4, <1>3 DEF HeardInv
  <1> QED BY <1>4, <1>5

\* An answer of the model adds nothing that it has to hear.
LEMMA AnswerHeard ==
  ASSUME IInv, HeardInv, AnswerCalls
  PROVE  HeardInv'
  <1>1. PICK n \in 1 .. MaxCalls : messages' = Append(messages, Calls(CallIds(n)))
    BY DEF AnswerCalls
  <1>2. PICK x \in Message : messages' = Append(messages, x) /\ x.role = "assistant"
    <2>1. CallIds(n) \in Seq(Nat)
      BY CallIdsType DEF IInv
    <2>2. Calls(CallIds(n)) \in Message /\ Calls(CallIds(n)).role = "assistant"
      BY <2>1 DEF Calls, Message
    <2> QED BY <1>1, <2>2
  <1>3. PICK m \in Nat : m = Len(messages) /\ messages \in Seq(Message)
    BY DEF IInv, TypeOK
  <1>4. /\ Len(messages') = m + 1 /\ messages'[m + 1].role = "assistant"
        /\ \A i \in 2 .. m : messages'[i] = messages[i]
    BY <1>2, <1>3
  <1>5. Heard' = {i \in 2 .. m + 1 : messages'[i].role # "assistant"}
    BY <1>4 DEF Heard
  <1>6. Heard = {i \in 2 .. m : messages[i].role # "assistant"}
    BY <1>3 DEF Heard
  <1>7. \A i \in 2 .. m + 1 : i \in 2 .. m \/ i = m + 1
    OBVIOUS
  <1>8. 2 .. m \subseteq 2 .. m + 1
    OBVIOUS
  <1>9. Heard' = Heard
    BY <1>4, <1>5, <1>6, <1>7, <1>8
  <1> QED BY <1>9 DEF HeardInv, AnswerCalls, Sends

LEMMA OtherHeard ==
  ASSUME IInv, HeardInv,
         \/ Run \/ PlanFails \/ PlanMade \/ SendFailsOrDone \/ AnswerText
         \/ Reflect \/ UNCHANGED vars
  PROVE  HeardInv'
  <1>1. CASE Run \/ PlanFails \/ SendFailsOrDone \/ Reflect
    BY <1>1 DEF Run, PlanFails, SendFailsOrDone, Reflect, HeardInv
  <1>2. CASE PlanMade
    <2>1. effects' = 0 /\ messages' = <<Text("user")>>
      BY <1>2 DEF PlanMade, IInv, EffectsInv
    <2>2. Heard' = {}
      BY <2>1 DEF Heard
    <2> QED BY <2>1, <2>2, FS_EmptySet DEF HeardInv
  <1>3. CASE AnswerText \/ UNCHANGED vars
    <2>1. /\ messages' = messages /\ effects' = effects
          /\ pc' \in {"send", "exec"} => pc \in {"send", "exec"}
      BY <1>3 DEF AnswerText, Sends, vars
    <2>2. Heard' = Heard
      BY <2>1 DEF Heard
    <2> QED BY <2>1, <2>2 DEF HeardInv
  <1> QED BY <1>1, <1>2, <1>3

\* ResultsReachApiModels for every limit and any number of calls in an answer:
\* a request of the HTTP clients shows an answer for every tool that ran.
THEOREM ResultsReach == Spec => []ResultsReachApiModels
  <1>1. Init => HeardInv
    BY DEF Init, HeardInv
  <1>2. IInv /\ TalkInv /\ HeardInv /\ [Next]_vars => HeardInv'
    BY AnswerHeard, ExecuteHeard, OtherHeard DEF Next, Finished
  <1>3. IInv /\ HeardInv => ResultsReachApiModels
    <2> SUFFICES ASSUME IInv, HeardInv, provider # "claude-cli", pc = "send"
                 PROVE  Cardinality({i \in 2 .. Len(messages) :
                          /\ Wire(messages[i]).role # "assistant"
                          /\ Shows(messages[i])}) = effects
      BY DEF ResultsReachApiModels, ResultsReachModel
    <2>1. ASSUME NEW i \in 2 .. Len(messages)
          PROVE  /\ Shows(messages[i])
                 /\ Wire(messages[i]).role # "assistant" <=> messages[i].role # "assistant"
      <3>1. messages[i] \in Message
        BY DEF IInv, TypeOK
      <3>2. CASE provider = "anthropic"
        BY <3>1, <3>2 DEF Message, Shows, Wire, WireAnthropic
      <3>3. CASE provider = "openai"
        BY <3>1, <3>3 DEF Message, Shows, Wire, WireOpenAI
      <3>4. provider \in ProviderNames
        BY ProvidersAssumption DEF IInv, TypeOK
      <3> QED BY <3>2, <3>3, <3>4 DEF ProviderNames
    <2>2. {i \in 2 .. Len(messages) :
             /\ Wire(messages[i]).role # "assistant"
             /\ Shows(messages[i])} = Heard
      BY <2>1 DEF Heard
    <2> QED BY <2>2 DEF HeardInv
  <1> QED BY <1>1, <1>2, <1>3, Invariance, TalkInvariance, PTL DEF Spec
=============================================================================
