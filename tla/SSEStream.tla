------------------------------ MODULE SSEStream ------------------------------
(***************************************************************************)
(* Anthropic.Stream of pkg/llm/anthropic.go: the events of one streamed    *)
(* reply, the response put together from them, and the consumer, who may   *)
(* refuse any event by leaving its loop (yield returns false).  No command *)
(* streams; the package offers it beside Send.                             *)
(*                                                                         *)
(* The server is external: blocks one after the other, each started, given *)
(* pieces of text and stopped, then the stop reason; the body may end or   *)
(* fail anywhere.  A frame is handled as it comes, for the read buffer     *)
(* only puts lines together.  Pings, texts that do not parse, message_stop *)
(* and "error" frames change nothing and yield nothing; after an "error"   *)
(* frame the server just ends the body.  A piece of text is                *)
(* <<block, number>>; IDs, names and token counts are left out.            *)
(***************************************************************************)
EXTENDS Integers, Sequences, SequencesExt

CONSTANTS MaxBlocks, MaxPieces    \* bounds on a reply and on a block

ASSUME BoundsAssumption == MaxBlocks \in Nat /\ MaxPieces \in Nat

Parts   == {"text", "thinking", "tool_use"}
Blocks  == Parts \cup {"other"}     \* kinds the client does not know
Unset   == ""
Reasons == {"end_turn", "max_tokens", "tool_use", "refusal"}

DeltaType == [text |-> "text_delta", thinking |-> "thinking_delta",
              tool_use |-> "tool_call_delta"]

VARIABLES
  blocks,      \* server: the blocks so far, [kind, pieces, open]
  reason,      \* server: the stop reason it has sent; Unset before
  status,      \* Stream: "request", "reading", "returned" or "panicked"
  content,     \* resp.Message.Content: [kind, text]
  stopReason,  \* resp.StopReason
  events,      \* history: the calls of yield, [type, delta]
  refusedAt    \* history: the first call of yield that returned false; 0

vars == <<blocks, reason, status, content, stopReason, events, refusedAt>>

Piece    == (1 .. MaxBlocks) \X (1 .. MaxPieces)
NoDelta  == <<0, 0>>
NoArgs   == <<0, 1>>       \* the text {}
Open     == blocks # <<>> /\ blocks[Len(blocks)].open
Current  == Len(blocks)    \* event.Index, from 1

-----------------------------------------------------------------------------
\* Mutant: what is not known is left empty.
MapStopReason_Empty(r) ==
  IF r = "max_tokens" THEN "length" ELSE IF r = "tool_use" THEN "tool_use"
  ELSE IF r = "end_turn" THEN "end" ELSE Unset

\* mapAnthropicStopReason
MapStopReason(r) ==
  IF r = "max_tokens" THEN "length" ELSE IF r = "tool_use" THEN "tool_use" ELSE "end"

\* A part of the response as Send makes it.
Sent(block) ==
  [kind |-> block.kind,
   text |-> IF block.kind = "tool_use" /\ block.pieces = <<>>
              THEN <<NoArgs>> ELSE block.pieces]

\* parseResponse, which Send applies to the reply sent in one piece.
SendContent(reply) ==
  LET upTo[n \in 0 .. Len(reply)] ==
        IF n = 0 THEN <<>>
        ELSE IF reply[n].kind \in Parts THEN Append(upTo[n - 1], Sent(reply[n]))
                                        ELSE upTo[n - 1]
  IN  upTo[Len(reply)]

-----------------------------------------------------------------------------
Init ==
  /\ blocks = <<>> /\ reason = Unset
  /\ status = "request"
  /\ content = <<>> /\ stopReason = Unset
  /\ events = <<>> /\ refusedAt = 0

Event(type, delta) == [type |-> type, delta |-> delta]

\* Mutant: the answer is not looked at.
Yield_Ignored(event, next) ==
  /\ events' = Append(events, event)
  /\ status' = next
  /\ refusedAt' \in {refusedAt, Len(events')}

\* One call of yield; next is what Stream does if the answer is true.
Yield(event, next) ==
  /\ events' = Append(events, event)
  /\ \/ status' = next /\ UNCHANGED refusedAt
     \/ status' = "returned" /\ refusedAt' = Len(events')

Silent == UNCHANGED <<status, events, refusedAt>>

\* The request cannot be built or sent, or the answer is not 200.
RequestFails ==
  /\ status = "request"
  /\ Yield(Event("error", NoDelta), "returned")
  /\ UNCHANGED <<blocks, reason, content, stopReason>>

RequestAnswered ==
  /\ status = "request"
  /\ status' = "reading"
  /\ UNCHANGED <<blocks, reason, content, stopReason, events, refusedAt>>

\* Mutant: a part is made for every block.
BlockStart_AnyKind(kind) ==
  /\ status = "reading" /\ ~Open /\ reason = Unset /\ Len(blocks) < MaxBlocks
  /\ blocks' = Append(blocks, [kind |-> kind, pieces |-> <<>>, open |-> TRUE])
  /\ content' = Append(content, [kind |-> kind, text |-> <<>>])
  /\ IF kind = "tool_use" THEN Yield(Event("tool_call_start", NoDelta), "reading")
                          ELSE Silent
  /\ UNCHANGED <<reason, stopReason>>

\* content_block_start: no part is made for a block of another kind.
BlockStart(kind) ==
  /\ status = "reading" /\ ~Open /\ reason = Unset /\ Len(blocks) < MaxBlocks
  /\ blocks' = Append(blocks, [kind |-> kind, pieces |-> <<>>, open |-> TRUE])
  /\ content' = IF kind \in Parts THEN Append(content, [kind |-> kind, text |-> <<>>])
                                  ELSE content
  /\ IF kind = "tool_use" THEN Yield(Event("tool_call_start", NoDelta), "reading")
                          ELSE Silent
  /\ UNCHANGED <<reason, stopReason>>

\* Mutant: the text goes to the last part.
Extended_Last(i, piece) ==
  [content EXCEPT ![Len(content)].text = Append(@, piece)]

\* Mutant: the bound is off by one.
Extended_OffByOne(i, piece) ==
  IF i < Len(content) THEN [content EXCEPT ![i].text = Append(@, piece)] ELSE content

\* The text goes to the part with the block's index, if there is one.
Extended(i, piece) ==
  IF i <= Len(content) THEN [content EXCEPT ![i].text = Append(@, piece)] ELSE content

\* content_block_delta: a block of another kind may get JSON, too.
Delta(type) ==
  /\ status = "reading" /\ Open
  /\ LET b == blocks[Current]
         piece == <<Current, Len(b.pieces) + 1>>
     IN  /\ Len(b.pieces) < MaxPieces
         /\ IF b.kind = "other" THEN type = "tool_call_delta" ELSE type = DeltaType[b.kind]
         /\ blocks' = [blocks EXCEPT ![Current].pieces = Append(@, piece)]
         /\ content' = Extended(Current, piece)
         /\ Yield(Event(type, piece), "reading")
  /\ UNCHANGED <<reason, stopReason>>

\* content_block_stop
BlockStop ==
  /\ status = "reading" /\ Open
  /\ blocks' = [blocks EXCEPT ![Current].open = FALSE]
  /\ IF Current <= Len(content) /\ content[Current].kind = "tool_use"
       THEN Yield(Event("tool_call_end", NoDelta), "reading")
       ELSE Silent
  /\ UNCHANGED <<reason, content, stopReason>>

\* message_delta
MessageDelta(r) ==
  /\ status = "reading" /\ ~Open /\ reason = Unset
  /\ reason' = r
  /\ stopReason' = MapStopReason(r)
  /\ Silent
  /\ UNCHANGED <<blocks, content>>

\* io.EOF: the reply is over, or was cut.
EndOfBody ==
  /\ status = "reading"
  /\ Yield(Event("done", NoDelta), "returned")
  /\ UNCHANGED <<blocks, reason, content, stopReason>>

\* Any other read error (the context has ended, the connection broke) yields
\* two events; the answer to the first is not looked at, and the runtime
\* panics when a consumer that has left its loop is called again.
ReadFails ==
  /\ status = "reading"
  /\ events' = events \o <<Event("error", NoDelta), Event("done", NoDelta)>>
  /\ \/ status' = "returned" /\ UNCHANGED refusedAt
     \/ status' = "returned" /\ refusedAt' = Len(events')
     \/ status' = "panicked" /\ refusedAt' = Len(events) + 1
  /\ UNCHANGED <<blocks, reason, content, stopReason>>

Next ==
  \/ RequestFails \/ RequestAnswered
  \/ \E kind \in Blocks : BlockStart(kind)
  \/ \E type \in {"text_delta", "thinking_delta", "tool_call_delta"} : Delta(type)
  \/ BlockStop
  \/ \E r \in Reasons : MessageDelta(r)
  \/ EndOfBody \/ ReadFails

Spec == Init /\ [][Next]_vars

-----------------------------------------------------------------------------
\* TypeOK: the types of the variables.
TypeOK ==
  /\ blocks \in Seq([kind : Blocks, pieces : Seq(Piece), open : BOOLEAN])
  /\ Len(blocks) <= MaxBlocks
  /\ reason \in Reasons \cup {Unset}
  /\ status \in {"request", "reading", "returned", "panicked"}
  /\ content \in Seq([kind : Parts, text : Seq(Piece)])
  /\ stopReason \in {Unset, "end", "length", "tool_use"}
  /\ events \in Seq([type : {"text_delta", "thinking_delta", "tool_call_start",
                             "tool_call_delta", "tool_call_end", "done", "error"},
                     delta : Piece \cup {NoDelta}])
  /\ refusedAt \in 0 .. Len(events)

\* The blocks before the first of an unknown kind.
Known ==
  LET odd == {i \in DOMAIN blocks : blocks[i].kind = "other"}
  IN  IF odd = {} THEN blocks
      ELSE SubSeq(blocks, 1, (CHOOSE i \in odd : \A j \in odd : i <= j) - 1)

\* Part by part the streamed response is what Send would have returned (but
\* for {} as the input of a call without arguments).  A block of unknown kind
\* puts nothing in a wrong place: parts before it are exact, later ones empty.
StreamAgreesWithSend ==
  LET sent == SendContent(blocks) IN
  /\ Len(content) = Len(sent)
  /\ \A i \in DOMAIN content :
       /\ content[i].kind = sent[i].kind
       /\ content[i].text = IF i > Len(Known) \/ sent[i].text = <<NoArgs>>
                              THEN <<>> ELSE sent[i].text

\* The deltas of events of the given type, in order.
Told(type) ==
  FlattenSeq([i \in DOMAIN events |->
    IF events[i].type = type THEN <<events[i].delta>> ELSE <<>>])

\* A consumer that only listens to the events has the whole text, and one
\* that only takes the response has too, as long as all blocks are known.
EventsTellResponse ==
  \A kind \in Parts :
    LET texts == [i \in DOMAIN content |->
                    IF content[i].kind = kind THEN content[i].text ELSE <<>>]
    IN  Known = blocks => Told(DeltaType[kind]) = FlattenSeq(texts)

\* "The final event is always EventDone or EventError" (llm.go) whenever the
\* consumer lets the stream end; there is one EventDone at most, an error is
\* the last event but for an EventDone, and an event that was refused is the
\* last, too, unless it was a read error.
FinalEvent ==
  LET n == Len(events)  final == {i \in 1 .. n : events[i].type \in {"done", "error"}} IN
  /\ status \in {"request", "reading"} => final = {} /\ refusedAt = 0
  /\ status = "returned" /\ refusedAt = 0 => n \in final
  /\ \A i \in final : i = n \/ (i = n - 1 /\ events[i].type = "error"
                                           /\ events[n].type = "done")
  /\ refusedAt \notin {0, n} => status = "panicked" /\ events[refusedAt].type = "error"

\* A reply that was cut, by an end of the body or an "error" frame, ends in
\* EventDone as a whole one does; the empty stop reason is what tells them
\* apart, so it is empty exactly until the server has said all.
CutIsVisible ==
  /\ stopReason = Unset <=> reason = Unset
  /\ stopReason # Unset => \A i \in DOMAIN blocks : ~blocks[i].open
=============================================================================
