--------------------------- MODULE SSEStream_proofs ---------------------------
(***************************************************************************)
(* How a stream ends and what it tells, for replies of every length.       *)
(*                                                                         *)
(* The proof separates what the consumer sees (ConsumerInv: the events, a  *)
(* refusal, where Stream is) from what is read of the reply (ReplyInv: the *)
(* blocks, the parts, the stop reason).  Each step yields one more event,  *)
(* the last event, nothing, or the two events of a read error; the lemmas  *)
(* of the first part say what each of these does to ConsumerInv.           *)
(*                                                                         *)
(* The second part compares the response with Send's and with the events.  *)
(* SendContent and the texts put together are built block by block and     *)
(* piece by piece; lemmas say what one more block or piece adds to them,   *)
(* by induction over the length where the whole is needed.  StreamInv      *)
(* names the number u of leading known blocks, for which both hold.        *)
(***************************************************************************)
EXTENDS SSEStream, SequenceTheorems, WellFoundedInduction, TLAPS

MoreTypes == {"text_delta", "thinking_delta", "tool_call_start", "tool_call_delta",
         "tool_call_end"}
FinalTypes == {"done", "error"}
Events == [type : MoreTypes \cup FinalTypes, delta : Piece \cup {NoDelta}]

\* FinalEvent, with the set of final events spelled out.
ConsumerInv ==
  /\ events \in Seq(Events)
  /\ status \in {"request", "reading", "returned", "panicked"}
  /\ refusedAt \in 0 .. Len(events)
  /\ status \in {"request", "reading"} =>
       /\ refusedAt = 0
       /\ \A i \in 1 .. Len(events) : events[i].type \notin FinalTypes
  /\ status = "returned" /\ refusedAt = 0 =>
       Len(events) # 0 /\ events[Len(events)].type \in FinalTypes
  /\ \A i \in 1 .. Len(events) : events[i].type \in FinalTypes =>
       \/ i = Len(events)
       \/ /\ i = Len(events) - 1
          /\ events[i].type = "error" /\ events[Len(events)].type = "done"
  /\ refusedAt \notin {0, Len(events)} =>
       status = "panicked" /\ events[refusedAt].type = "error"

Block == [kind : Blocks, pieces : Seq(Piece), open : BOOLEAN]
Part  == [kind : Parts, text : Seq(Piece)]

ReplyInv ==
  /\ blocks \in Seq(Block)
  /\ Len(blocks) <= MaxBlocks
  /\ content \in Seq(Part)
  /\ reason \in Reasons \cup {Unset}
  /\ stopReason \in {Unset, "end", "length", "tool_use"}
  /\ \A i \in 1 .. Len(blocks) - 1 : ~blocks[i].open
  /\ CutIsVisible

IInv == ConsumerInv /\ ReplyInv

-----------------------------------------------------------------------------
LEMMA MoreEvents ==
  ASSUME ConsumerInv, status \in {"request", "reading"},
         NEW e \in Events, e.type \in MoreTypes, Yield(e, "reading")
  PROVE  ConsumerInv'
  <1>1. /\ events' = Append(events, e)
        /\ \/ status' = "reading" /\ refusedAt' = refusedAt
           \/ status' = "returned" /\ refusedAt' = Len(events')
    BY DEF Yield
  <1>2. /\ events' \in Seq(Events) /\ Len(events') = Len(events) + 1
        /\ events'[Len(events')] = e
        /\ \A i \in 1 .. Len(events) : events'[i] = events[i]
    BY <1>1 DEF ConsumerInv
  <1>3. \A i \in 1 .. Len(events') : events'[i].type \notin FinalTypes
    BY <1>2 DEF ConsumerInv, MoreTypes, FinalTypes
  <1>4. Len(events) \in Nat
    BY DEF ConsumerInv
  <1>5. CASE status' = "reading" /\ refusedAt' = refusedAt
    BY <1>2, <1>3, <1>4, <1>5 DEF ConsumerInv
  <1>6. CASE status' = "returned" /\ refusedAt' = Len(events')
    BY <1>2, <1>3, <1>4, <1>6 DEF ConsumerInv
  <1> QED BY <1>1, <1>5, <1>6

LEMMA LastEvent ==
  ASSUME ConsumerInv, status \in {"request", "reading"},
         NEW e \in Events, e.type \in FinalTypes, Yield(e, "returned")
  PROVE  ConsumerInv'
  <1>1. /\ events' = Append(events, e)
        /\ status' = "returned"
        /\ refusedAt' = refusedAt \/ refusedAt' = Len(events')
    BY DEF Yield
  <1>2. /\ events' \in Seq(Events) /\ Len(events') = Len(events) + 1
        /\ events'[Len(events')] = e
        /\ \A i \in 1 .. Len(events) : events'[i] = events[i]
    BY <1>1 DEF ConsumerInv
  <1>3. \A i \in 1 .. Len(events) : events'[i].type \notin FinalTypes
    BY <1>2 DEF ConsumerInv
  <1>4. Len(events) \in Nat /\ refusedAt = 0
    BY DEF ConsumerInv
  <1> QED BY <1>1, <1>2, <1>3, <1>4 DEF ConsumerInv

LEMMA NoEvent ==
  ASSUME ConsumerInv, Silent
  PROVE  ConsumerInv'
  BY DEF ConsumerInv, Silent

\* The answer to the first of the two events is not looked at.
LEMMA ReadFailsConsumer ==
  ASSUME ConsumerInv, ReadFails
  PROVE  ConsumerInv'
  <1> DEFINE e1 == Event("error", NoDelta)
             e2 == Event("done", NoDelta)
             n  == Len(events)
  <1>1. e1 \in Events /\ e1.type = "error" /\ e2 \in Events /\ e2.type = "done"
    BY DEF Event, Events, FinalTypes, MoreTypes
  <1>2. events' = events \o <<e1, e2>>
    BY DEF ReadFails
  <1>3. \/ status' = "returned" /\ refusedAt' = refusedAt
        \/ status' = "returned" /\ refusedAt' = Len(events')
        \/ status' = "panicked" /\ refusedAt' = n + 1
    BY DEF ReadFails
  <1>4. n \in Nat /\ refusedAt = 0 /\ \A i \in 1 .. n : events[i].type \notin FinalTypes
    BY DEF ConsumerInv, ReadFails
  <1> HIDE DEF e1, e2
  <1>5. /\ events' \in Seq(Events) /\ Len(events') = n + 2
        /\ \A i \in 1 .. n : events'[i] = events[i]
        /\ events'[n + 1] = e1 /\ events'[n + 2] = e2
    BY <1>1, <1>2 DEF ConsumerInv
  <1> HIDE DEF n
  <1>6. \A i \in 1 .. n + 2 : events'[i].type \in FinalTypes => i \in {n + 1, n + 2}
    BY <1>4, <1>5
  <1>7. /\ \A i \in 1 .. Len(events') : events'[i].type \in FinalTypes =>
             \/ i = Len(events')
             \/ /\ i = Len(events') - 1
                /\ events'[i].type = "error" /\ events'[Len(events')].type = "done"
        /\ Len(events') # 0 /\ events'[Len(events')].type \in FinalTypes
        /\ events'[n + 1].type = "error"
    BY <1>1, <1>4, <1>5, <1>6 DEF FinalTypes
  <1> QED BY <1>3, <1>4, <1>5, <1>7 DEF ConsumerInv

-----------------------------------------------------------------------------
LEMMA InitIInv == Init => IInv
  <1> SUFFICES ASSUME Init PROVE IInv
    OBVIOUS
  <1>1. ConsumerInv
    BY DEF Init, ConsumerInv
  <1>2. ReplyInv
    BY BoundsAssumption DEF Init, ReplyInv, CutIsVisible
  <1> QED BY <1>1, <1>2 DEF IInv

LEMMA RequestIInv ==
  ASSUME IInv, RequestFails \/ RequestAnswered
  PROVE  IInv'
  <1>1. ReplyInv'
    BY DEF IInv, ReplyInv, CutIsVisible, RequestFails, RequestAnswered
  <1>2. CASE RequestFails
    <2> DEFINE e == Event("error", NoDelta)
    <2>1. e \in Events /\ e.type \in FinalTypes
      BY DEF Event, Events, FinalTypes
    <2>2. status = "request" /\ Yield(e, "returned")
      BY <1>2 DEF RequestFails
    <2> HIDE DEF e
    <2> QED BY <1>1, <2>1, <2>2, LastEvent DEF IInv
  <1>3. CASE RequestAnswered
    <2>1. ConsumerInv'
      BY <1>3 DEF IInv, ConsumerInv, RequestAnswered
    <2> QED BY <1>1, <2>1 DEF IInv
  <1> QED BY <1>2, <1>3

LEMMA BlockStartIInv ==
  ASSUME IInv, NEW kind \in Blocks, BlockStart(kind)
  PROVE  IInv'
  <1> DEFINE b == [kind |-> kind, pieces |-> <<>>, open |-> TRUE]
             p == [kind |-> kind, text |-> <<>>]
  <1>1. b \in Block /\ (kind \in Parts => p \in Part)
    BY DEF Block, Part
  <1>2. /\ status = "reading" /\ ~Open /\ reason = Unset /\ Len(blocks) < MaxBlocks
        /\ blocks' = Append(blocks, b)
        /\ content' = IF kind \in Parts THEN Append(content, p) ELSE content
        /\ UNCHANGED <<reason, stopReason>>
    BY DEF BlockStart
  <1> HIDE DEF b, p
  <1>3. blocks \in Seq(Block) /\ content \in Seq(Part) /\ stopReason = Unset
    BY <1>2 DEF IInv, ReplyInv, CutIsVisible
  <1>4. /\ blocks' \in Seq(Block) /\ Len(blocks') = Len(blocks) + 1
        /\ \A i \in 1 .. Len(blocks) : blocks'[i] = blocks[i]
    BY <1>1, <1>2, <1>3
  <1>5. content' \in Seq(Part)
    BY <1>1, <1>2, <1>3
  <1>6. \A i \in 1 .. Len(blocks) : ~blocks[i].open
    <2>1. Len(blocks) \in Nat
      BY <1>3
    <2>2. Len(blocks) # 0 => ~blocks[Len(blocks)].open
      BY <1>2, <1>3 DEF Open
    <2> QED BY <2>1, <2>2 DEF IInv, ReplyInv
  <1>7. ReplyInv'
    <2>1. \A i \in 1 .. Len(blocks') - 1 : ~blocks'[i].open
      BY <1>3, <1>4, <1>6
    <2>2. Len(blocks') <= MaxBlocks
      BY <1>2, <1>3, <1>4, BoundsAssumption
    <2> QED BY <1>2, <1>3, <1>4, <1>5, <2>1, <2>2 DEF IInv, ReplyInv, CutIsVisible
  <1>8. ConsumerInv'
    <2> DEFINE e == Event("tool_call_start", NoDelta)
    <2>1. e \in Events /\ e.type \in MoreTypes
      BY DEF Event, Events, MoreTypes
    <2>2. Yield(e, "reading") \/ Silent
      BY DEF BlockStart
    <2> HIDE DEF e
    <2> QED BY <1>2, <2>1, <2>2, MoreEvents, NoEvent DEF IInv
  <1> QED BY <1>7, <1>8 DEF IInv

LEMMA DeltaIInv ==
  ASSUME IInv, NEW type \in {"text_delta", "thinking_delta", "tool_call_delta"},
         Delta(type)
  PROVE  IInv'
  <1> DEFINE n     == Len(blocks)
             piece == <<Current, Len(blocks[n].pieces) + 1>>
             b     == [blocks[n] EXCEPT !.pieces = Append(@, piece)]
  <1>1. /\ status = "reading" /\ blocks # <<>> /\ blocks[n].open
        /\ Len(blocks[n].pieces) < MaxPieces
        /\ blocks' = [blocks EXCEPT ![n] = b]
        /\ content' = Extended(n, piece)
        /\ Yield(Event(type, piece), "reading")
        /\ UNCHANGED <<reason, stopReason>>
    BY DEF Delta, Current, Open
  <1>2. /\ blocks \in Seq(Block) /\ content \in Seq(Part)
        /\ n \in 1 .. MaxBlocks /\ blocks[n] \in Block
    BY <1>1, BoundsAssumption DEF IInv, ReplyInv
  <1>3. piece \in Piece
    BY <1>1, <1>2, BoundsAssumption DEF Piece, Current, Block
  <1>4. b \in Block /\ b.open
    <2> DEFINE longer == Append(blocks[n].pieces, piece)
    <2>1. longer \in Seq(Piece)
      BY <1>2, <1>3 DEF Block
    <2>2. b = [blocks[n] EXCEPT !.pieces = longer]
      OBVIOUS
    <2> HIDE DEF piece, b, longer
    <2>3. b \in Block
      BY <2>1, <2>2, <1>2 DEF Block
    <2>4. b.open = blocks[n].open
      BY <2>2, <1>2 DEF Block
    <2> QED BY <1>1, <2>3, <2>4
  <1> HIDE DEF piece, b
  <1>5. /\ blocks' \in Seq(Block) /\ Len(blocks') = n
        /\ \A i \in 1 .. n - 1 : blocks'[i] = blocks[i]
    BY <1>1, <1>2, <1>4
  <1>6. content' \in Seq(Part)
    <2>1. CASE n <= Len(content)
      <3> DEFINE p == [content[n] EXCEPT !.text = Append(@, piece)]
      <3>1. content[n] \in Part
        BY <2>1, <1>2
      <3>2. p \in Part
        BY <3>1, <1>3, SMTT(30) DEF Part
      <3>3. content' = [content EXCEPT ![n] = p]
        BY <1>1, <2>1 DEF Extended
      <3> HIDE DEF p
      <3> QED BY <3>2, <3>3, <1>2, <2>1
    <2>2. CASE ~(n <= Len(content))
      BY <1>1, <1>2, <2>2 DEF Extended
    <2> QED BY <2>1, <2>2
  <1>7. ReplyInv'
    <2>1. stopReason = Unset
      BY <1>1, <1>2 DEF IInv, ReplyInv, CutIsVisible
    <2>2. \A i \in 1 .. Len(blocks') - 1 : ~blocks'[i].open
      BY <1>5 DEF IInv, ReplyInv
    <2> QED BY <1>1, <1>5, <1>6, <2>1, <2>2 DEF IInv, ReplyInv, CutIsVisible
  <1>8. ConsumerInv'
    <2> DEFINE e == Event(type, piece)
    <2>1. e \in Events /\ e.type \in MoreTypes
      BY <1>3 DEF Event, Events, MoreTypes
    <2>2. Yield(e, "reading")
      BY <1>1
    <2> HIDE DEF e
    <2> QED BY <1>1, <2>1, <2>2, MoreEvents DEF IInv
  <1> QED BY <1>7, <1>8 DEF IInv

LEMMA BlockStopIInv ==
  ASSUME IInv, BlockStop
  PROVE  IInv'
  <1> DEFINE n == Len(blocks)
             b == [blocks[n] EXCEPT !.open = FALSE]
  <1>1. /\ status = "reading" /\ blocks # <<>> /\ blocks[n].open
        /\ blocks' = [blocks EXCEPT ![n] = b]
        /\ UNCHANGED <<reason, content, stopReason>>
    BY DEF BlockStop, Current, Open
  <1>2. blocks \in Seq(Block) /\ n \in Nat \ {0} /\ blocks[n] \in Block
    BY <1>1 DEF IInv, ReplyInv
  <1>3. b \in Block
    BY <1>2 DEF Block
  <1> HIDE DEF b
  <1>4. /\ blocks' \in Seq(Block) /\ Len(blocks') = n
        /\ \A i \in 1 .. n - 1 : blocks'[i] = blocks[i]
    BY <1>1, <1>2, <1>3
  <1>5. ReplyInv'
    <2>1. stopReason = Unset
      BY <1>1, <1>2 DEF IInv, ReplyInv, CutIsVisible
    <2>2. \A i \in 1 .. Len(blocks') - 1 : ~blocks'[i].open
      BY <1>4 DEF IInv, ReplyInv
    <2> QED BY <1>1, <1>4, <2>1, <2>2 DEF IInv, ReplyInv, CutIsVisible
  <1>6. ConsumerInv'
    <2> DEFINE e == Event("tool_call_end", NoDelta)
    <2>1. e \in Events /\ e.type \in MoreTypes
      BY DEF Event, Events, MoreTypes
    <2>2. Yield(e, "reading") \/ Silent
      BY DEF BlockStop
    <2> HIDE DEF e
    <2> QED BY <1>1, <2>1, <2>2, MoreEvents, NoEvent DEF IInv
  <1> QED BY <1>5, <1>6 DEF IInv

LEMMA MessageDeltaIInv ==
  ASSUME IInv, NEW r \in Reasons, MessageDelta(r)
  PROVE  IInv'
  <1>1. /\ ~Open /\ reason' = r /\ stopReason' = MapStopReason(r) /\ Silent
        /\ UNCHANGED <<blocks, content>>
    BY DEF MessageDelta
  <1>2. ConsumerInv'
    BY <1>1, NoEvent DEF IInv
  <1>3. r # Unset /\ stopReason' # Unset /\ stopReason' \in {"end", "length", "tool_use"}
    BY <1>1, Zenon DEF Reasons, MapStopReason, Unset
  <1>4. \A i \in 1 .. Len(blocks) : ~blocks[i].open
    <2>1. blocks \in Seq(Block) /\ Len(blocks) \in Nat
      BY DEF IInv, ReplyInv
    <2>2. Len(blocks) # 0 => ~blocks[Len(blocks)].open
      BY <1>1, <2>1 DEF Open
    <2> QED BY <2>1, <2>2 DEF IInv, ReplyInv
  <1>5. ReplyInv'
    <2>1. \A i \in DOMAIN blocks : ~blocks[i].open
      BY <1>4 DEF IInv, ReplyInv
    <2> QED BY <1>1, <1>3, <2>1 DEF IInv, ReplyInv, CutIsVisible
  <1> QED BY <1>2, <1>5 DEF IInv

LEMMA EndIInv ==
  ASSUME IInv, EndOfBody \/ ReadFails
  PROVE  IInv'
  <1>1. ReplyInv'
    BY DEF IInv, ReplyInv, CutIsVisible, EndOfBody, ReadFails
  <1>2. CASE EndOfBody
    <2> DEFINE e == Event("done", NoDelta)
    <2>1. e \in Events /\ e.type \in FinalTypes
      BY DEF Event, Events, FinalTypes
    <2>2. status = "reading" /\ Yield(e, "returned")
      BY <1>2 DEF EndOfBody
    <2> HIDE DEF e
    <2> QED BY <1>1, <2>1, <2>2, LastEvent DEF IInv
  <1>3. CASE ReadFails
    BY <1>1, <1>3, ReadFailsConsumer DEF IInv
  <1> QED BY <1>2, <1>3

LEMMA NextIInv == IInv /\ [Next]_vars => IInv'
  <1> SUFFICES ASSUME IInv, [Next]_vars PROVE IInv'
    OBVIOUS
  <1>1. CASE UNCHANGED vars
    BY <1>1 DEF vars, IInv, ConsumerInv, ReplyInv, CutIsVisible
  <1>2. CASE Next
    BY <1>2, RequestIInv, BlockStartIInv, DeltaIInv, BlockStopIInv,
       MessageDeltaIInv, EndIInv DEF Next
  <1> QED BY <1>1, <1>2

LEMMA Invariance == Spec => []IInv
  BY InitIInv, NextIInv, PTL DEF Spec

-----------------------------------------------------------------------------
\* TypeOK: the variables keep their types.
THEOREM TypeCorrect == Spec => []TypeOK
  <1>1. IInv => TypeOK
    BY DEF IInv, ConsumerInv, ReplyInv, TypeOK, Block, Part, Events, MoreTypes, FinalTypes
  <1> QED BY <1>1, Invariance, PTL

\* A stream that is read to its end says so with its last event, and what
\* follows an error is an end at most.
THEOREM StreamsEnd == Spec => []FinalEvent
  <1>1. IInv => FinalEvent
    <2> SUFFICES ASSUME IInv PROVE FinalEvent
      OBVIOUS
    <2>1. Len(events) \in Nat /\ refusedAt \in 0 .. Len(events)
      BY DEF IInv, ConsumerInv
    <2> QED BY <2>1 DEF IInv, ConsumerInv, FinalEvent, FinalTypes
  <1> QED BY <1>1, Invariance, PTL

\* The stop reason is empty exactly while the reply is not complete.
THEOREM VisibleCuts == Spec => []CutIsVisible
  <1>1. IInv => CutIsVisible
    BY DEF IInv, ReplyInv
  <1> QED BY <1>1, Invariance, PTL

-----------------------------------------------------------------------------
(* Sequences: induction, and what a fold of a longer one is.               *)

LEMMA Least ==
  ASSUME NEW T \in SUBSET Nat, T # {}
  PROVE  \E x \in T : \A y \in T : x <= y
  <1> DEFINE R == OpToRel(<, Nat)
  <1>1. IsWellFoundedOn(R, Nat)
    BY NatLessThanWellFounded
  <1>2. \A x, y \in Nat : <<y, x>> \in R <=> y < x
    BY DEF OpToRel
  <1> HIDE DEF R
  <1>3. PICK x \in T : \A y \in T : ~(<<y, x>> \in R)
    BY <1>1, WFMin
  <1>4. ASSUME NEW y \in T PROVE x <= y
    <2>1. ~(y < x) /\ x \in Nat /\ y \in Nat
      BY <1>2, <1>3
    <2> QED BY <2>1
  <1> QED BY <1>4

LEMMA Induction ==
  ASSUME NEW A, 0 \in A, \A n \in Nat : n \in A => n + 1 \in A
  PROVE  Nat \subseteq A
  <1> SUFFICES ASSUME Nat \ A # {} PROVE FALSE
    OBVIOUS
  <1>1. PICK x \in Nat \ A : \A y \in Nat \ A : x <= y
    BY Least
  <1>2. x - 1 \in Nat /\ x - 1 \notin Nat \ A
    BY <1>1
  <1> QED BY <1>1, <1>2

\* All but the last.
LEMMA FrontFacts ==
  ASSUME NEW S, NEW s \in Seq(S), Len(s) > 0
  PROVE  \E pre \in Seq(S) : /\ Len(pre) = Len(s) - 1
                             /\ \A i \in 1 .. Len(pre) : pre[i] = s[i]
  <1>1. PICK n \in Nat : n = Len(s) - 1 /\ n <= Len(s)
    <2>1. Len(s) - 1 \in Nat /\ Len(s) - 1 <= Len(s)
      OBVIOUS
    <2> QED BY <2>1
  <1>2. \A i \in 1 .. n : s[i] \in S
    BY <1>1
  <1>3. /\ SubSeq(s, 1, n) \in Seq(S)
        /\ Len(SubSeq(s, 1, n)) = n
        /\ \A i \in 1 .. n : SubSeq(s, 1, n)[i] = s[i]
    BY <1>1, <1>2, SubSeqProperties
  <1> QED BY <1>1, <1>3

Flat(ss, n, f) ==
  f = [i \in 1 .. n |-> IF i = 1 THEN ss[i] ELSE f[i - 1] \o ss[i]]

LEMMA FlatExists ==
  ASSUME NEW ss, NEW n \in Nat
  PROVE  \E f : Flat(ss, n, f)
  <1> DEFINE A == {m \in Nat : \E f : Flat(ss, m, f)}
             Value(f, i) == IF i = 1 THEN ss[i] ELSE f[i - 1] \o ss[i]
  <1>1. 0 \in A
    <2> DEFINE f == [i \in 1 .. 0 |-> 0]
    <2>1. Flat(ss, 0, f)
      BY DEF Flat
    <2> QED BY <2>1
  <1>2. ASSUME NEW m \in Nat, m \in A PROVE m + 1 \in A
    <2>1. PICK f : Flat(ss, m, f)
      BY <1>2
    <2> DEFINE g == [i \in 1 .. m + 1 |-> IF i = m + 1 THEN Value(f, i) ELSE f[i]]
    <2>2. ASSUME NEW i \in 1 .. m + 1 PROVE g[i] = Value(g, i)
      <3>1. CASE i = m + 1
        BY <3>1
      <3>2. CASE i # m + 1
        <4>1. i \in 1 .. m /\ (i # 1 => i - 1 \in 1 .. m)
          BY <3>2
        <4>2. f[i] = Value(f, i)
          BY <2>1, <4>1 DEF Flat
        <4> QED BY <3>2, <4>1, <4>2
      <3> QED BY <3>1, <3>2
    <2>3. Flat(ss, m + 1, g)
      BY <2>2 DEF Flat
    <2> QED BY <2>3
  <1> HIDE DEF A
  <1>3. n \in A
    BY <1>1, <1>2, Induction
  <1> QED BY <1>3 DEF A

\* FlattenSeq is the last value of a function that Flat describes.
LEMMA FlattenIsFlat ==
  ASSUME NEW S, NEW ss \in Seq(S), Len(ss) > 0
  PROVE  \E f : Flat(ss, Len(ss), f) /\ FlattenSeq(ss) = f[Len(ss)]
  <1> DEFINE flatten[i \in 1 .. Len(ss)] ==
               IF i = 1 THEN ss[i] ELSE flatten[i - 1] \o ss[i]
  <1>1. FlattenSeq(ss) = flatten[Len(ss)]
    BY DEF FlattenSeq
  <1>2. flatten = CHOOSE f : Flat(ss, Len(ss), f)
    BY DEF Flat
  <1> HIDE DEF flatten
  <1>3. \E f : Flat(ss, Len(ss), f)
    <2>1. Len(ss) \in Nat
      OBVIOUS
    <2> QED BY <2>1, FlatExists
  <1>4. Flat(ss, Len(ss), CHOOSE f : Flat(ss, Len(ss), f))
    BY <1>3, Zenon
  <1> QED BY <1>1, <1>2, <1>4

LEMMA FlattenLast ==
  ASSUME NEW S, NEW ss \in Seq(Seq(S)), Len(ss) > 0,
         NEW pre \in Seq(Seq(S)), Len(pre) = Len(ss) - 1,
         \A i \in 1 .. Len(pre) : pre[i] = ss[i]
  PROVE  FlattenSeq(ss) = FlattenSeq(pre) \o ss[Len(ss)]
  <1> DEFINE n == Len(ss)
  <1>1. n \in Nat /\ n > 0 /\ Len(pre) = n - 1
    OBVIOUS
  <1>2. PICK f : Flat(ss, n, f) /\ FlattenSeq(ss) = f[n]
    BY FlattenIsFlat
  <1>3. CASE n = 1
    <2>1. FlattenSeq(ss) = ss[1]
      BY <1>2, <1>3 DEF Flat
    <2>2. FlattenSeq(pre) = <<>>
      BY <1>1, <1>3 DEF FlattenSeq
    <2>3. ss[1] \in Seq(S)
      BY <1>3
    <2> QED BY <1>3, <2>1, <2>2, <2>3, ConcatEmptySeq
  <1>4. CASE n # 1
    <2>1. PICK g : Flat(pre, n - 1, g) /\ FlattenSeq(pre) = g[n - 1]
      <3>1. Len(pre) > 0
        BY <1>1, <1>4
      <3>2. \E g : Flat(pre, Len(pre), g) /\ FlattenSeq(pre) = g[Len(pre)]
        BY <3>1, FlattenIsFlat
      <3> QED BY <3>2, <1>1
    <2>0. \A k \in Nat : k # 0 => k + 1 # 1 /\ (k + 1) - 1 = k
      OBVIOUS
    <2> DEFINE A == {k \in Nat : k \in 1 .. n - 1 => f[k] = g[k]}
    <2>2. 0 \in A
      OBVIOUS
    <2>3. ASSUME NEW k \in Nat, k \in A PROVE k + 1 \in A
      <3> SUFFICES ASSUME k + 1 \in 1 .. n - 1 PROVE f[k + 1] = g[k + 1]
        OBVIOUS
      <3>1. k + 1 \in 1 .. n /\ pre[k + 1] = ss[k + 1]
        BY <1>1
      <3>2. CASE k = 0
        BY <3>1, <3>2, <1>2, <2>1 DEF Flat
      <3>3. CASE k # 0
        <4>1. k \in 1 .. n - 1
          BY <3>3
        <4>2. f[k] = g[k]
          BY <4>1, <2>3
        <4>3. k + 1 # 1 /\ (k + 1) - 1 = k
          BY <2>0, <3>3, Zenon
        <4>4. f[k + 1] = f[k] \o ss[k + 1]
          BY <4>3, <3>1, <1>2 DEF Flat
        <4>5. g[k + 1] = g[k] \o pre[k + 1]
          BY <4>3, <2>1 DEF Flat
        <4> QED BY <3>1, <4>2, <4>4, <4>5
      <3> QED BY <3>2, <3>3
    <2> HIDE DEF A
    <2>4. n - 1 \in A
      <3>1. Nat \subseteq A
        BY <2>2, <2>3, Induction
      <3> QED BY <3>1, <1>1
    <2>5. f[n - 1] = g[n - 1]
      BY <1>1, <1>4, <2>4 DEF A
    <2>6. f[n] = f[n - 1] \o ss[n]
      <3> HIDE DEF n
      <3>1. n \in 1 .. n
        BY <1>1
      <3> QED BY <1>2, <1>4, <3>1 DEF Flat
    <2> QED BY <1>2, <2>1, <2>5, <2>6
  <1> QED BY <1>3, <1>4

LEMMA FlattenIsSeq ==
  ASSUME NEW S, NEW ss \in Seq(Seq(S))
  PROVE  FlattenSeq(ss) \in Seq(S)
  <1> DEFINE A == {n \in Nat : \A ts \in Seq(Seq(S)) : Len(ts) = n => FlattenSeq(ts) \in Seq(S)}
  <1>1. 0 \in A
    <2>1. ASSUME NEW ts \in Seq(Seq(S)), Len(ts) = 0 PROVE FlattenSeq(ts) \in Seq(S)
      <3>1. ts = <<>> /\ <<>> \in Seq(S)
        BY <2>1
      <3>2. FlattenSeq(ts) = ts
        BY <2>1 DEF FlattenSeq
      <3> QED BY <3>1, <3>2
    <2> QED BY <2>1
  <1>2. ASSUME NEW n \in Nat, n \in A PROVE n + 1 \in A
    <2>1. ASSUME NEW ts \in Seq(Seq(S)), Len(ts) = n + 1 PROVE FlattenSeq(ts) \in Seq(S)
      <3>1. PICK pre \in Seq(Seq(S)) : /\ Len(pre) = Len(ts) - 1
                                       /\ \A i \in 1 .. Len(pre) : pre[i] = ts[i]
        <4>1. Len(ts) > 0
          BY <2>1
        <4> QED BY <4>1, FrontFacts
      <3>2. FlattenSeq(ts) = FlattenSeq(pre) \o ts[Len(ts)]
        <4>1. Len(ts) > 0
          BY <2>1
        <4> QED BY <4>1, <3>1, FlattenLast
      <3>3. FlattenSeq(pre) \in Seq(S) /\ ts[Len(ts)] \in Seq(S)
        BY <1>2, <2>1, <3>1
      <3> QED BY <3>2, <3>3
    <2> QED BY <2>1
  <1> HIDE DEF A
  <1>3. Len(ss) \in A
    BY <1>1, <1>2, Induction, SMTT(30)
  <1> QED BY <1>3 DEF A

LEMMA FlattenAppend ==
  ASSUME NEW S, NEW ss \in Seq(Seq(S)), NEW t \in Seq(S)
  PROVE  FlattenSeq(Append(ss, t)) = FlattenSeq(ss) \o t
  <1> DEFINE more == Append(ss, t)
  <1>1. /\ more \in Seq(Seq(S)) /\ Len(more) = Len(ss) + 1 /\ more[Len(ss) + 1] = t
        /\ Len(ss) \in Nat /\ \A i \in 1 .. Len(ss) : ss[i] = more[i]
    OBVIOUS
  <1> HIDE DEF more
  <1>2. FlattenSeq(more) = FlattenSeq(ss) \o more[Len(more)]
    <2>1. Len(more) > 0 /\ Len(ss) = Len(more) - 1
      BY <1>1
    <2> QED BY <1>1, <2>1, FlattenLast
  <1> QED BY <1>1, <1>2 DEF more

LEMMA ConcatAppend ==
  ASSUME NEW S, NEW s \in Seq(S), NEW t \in Seq(S), NEW m \in S
  PROVE  s \o Append(t, m) = Append(s \o t, m)
  <1>1. /\ \A u \in Seq(S) : Append(u, m) = u \o <<m>>
        /\ <<m>> \in Seq(S) /\ s \o t \in Seq(S)
    OBVIOUS
  <1>2. s \o (t \o <<m>>) = (s \o t) \o <<m>>
    BY <1>1, ConcatAssociative
  <1> QED BY <1>1, <1>2

\* One more element in the last sequence.
LEMMA FlattenExtend ==
  ASSUME NEW S, NEW ss \in Seq(Seq(S)), Len(ss) > 0, NEW x \in S,
         NEW tt \in Seq(Seq(S)), Len(tt) = Len(ss),
         \A i \in 1 .. Len(ss) - 1 : tt[i] = ss[i],
         tt[Len(ss)] = Append(ss[Len(ss)], x)
  PROVE  FlattenSeq(tt) = Append(FlattenSeq(ss), x)
  <1>1. PICK pre \in Seq(Seq(S)) : /\ Len(pre) = Len(ss) - 1
                                   /\ \A i \in 1 .. Len(pre) : pre[i] = ss[i]
    BY FrontFacts
  <1>2. FlattenSeq(ss) = FlattenSeq(pre) \o ss[Len(ss)]
    BY <1>1, FlattenLast
  <1>3. FlattenSeq(tt) = FlattenSeq(pre) \o Append(ss[Len(ss)], x)
    <2>1. \A i \in 1 .. Len(pre) : pre[i] = tt[i]
      BY <1>1
    <2> QED BY <1>1, <2>1, FlattenLast
  <1>4. PICK p \in Seq(S), q \in Seq(S) : p = FlattenSeq(pre) /\ q = ss[Len(ss)]
    BY FlattenIsSeq
  <1>5. p \o Append(q, x) = Append(p \o q, x)
    BY ConcatAppend, SMTT(30)
  <1> QED BY <1>2, <1>3, <1>4, <1>5

-----------------------------------------------------------------------------
(* What Send makes of a reply.                                             *)

SentPart == [kind : Parts, text : Seq(Piece \cup {NoArgs})]

UpTo(reply, n, f) ==
  f = [i \in 0 .. n |->
         IF i = 0 THEN <<>>
         ELSE IF reply[i].kind \in Parts THEN Append(f[i - 1], Sent(reply[i]))
                                         ELSE f[i - 1]]

LEMMA UpToExists ==
  ASSUME NEW reply, NEW n \in Nat
  PROVE  \E f : UpTo(reply, n, f)
  <1> DEFINE A == {m \in Nat : \E f : UpTo(reply, m, f)}
             Value(f, i) == IF i = 0 THEN <<>>
                            ELSE IF reply[i].kind \in Parts
                                   THEN Append(f[i - 1], Sent(reply[i])) ELSE f[i - 1]
  <1>1. 0 \in A
    <2> DEFINE f == [i \in 0 .. 0 |-> <<>>]
    <2>1. UpTo(reply, 0, f)
      BY DEF UpTo
    <2> QED BY <2>1
  <1>2. ASSUME NEW m \in Nat, m \in A PROVE m + 1 \in A
    <2>1. PICK f : UpTo(reply, m, f)
      BY <1>2
    <2> DEFINE g == [i \in 0 .. m + 1 |-> IF i = m + 1 THEN Value(f, i) ELSE f[i]]
    <2>2. ASSUME NEW i \in 0 .. m + 1 PROVE g[i] = Value(g, i)
      <3>1. CASE i = m + 1
        BY <3>1
      <3>2. CASE i # m + 1
        <4>1. i \in 0 .. m /\ (i # 0 => i - 1 \in 0 .. m)
          BY <3>2
        <4>2. f[i] = Value(f, i)
          BY <2>1, <4>1 DEF UpTo
        <4> QED BY <3>2, <4>1, <4>2
      <3> QED BY <3>1, <3>2
    <2>3. UpTo(reply, m + 1, g)
      BY <2>2 DEF UpTo
    <2> QED BY <2>3
  <1> HIDE DEF A
  <1>3. n \in A
    BY <1>1, <1>2, Induction
  <1> QED BY <1>3 DEF A

LEMMA SendIsUpTo ==
  ASSUME NEW S, NEW reply \in Seq(S)
  PROVE  \E f : UpTo(reply, Len(reply), f) /\ SendContent(reply) = f[Len(reply)]
  <1> DEFINE upTo[n \in 0 .. Len(reply)] ==
               IF n = 0 THEN <<>>
               ELSE IF reply[n].kind \in Parts THEN Append(upTo[n - 1], Sent(reply[n]))
                                               ELSE upTo[n - 1]
  <1>1. SendContent(reply) = upTo[Len(reply)]
    BY DEF SendContent
  <1>2. upTo = CHOOSE f : UpTo(reply, Len(reply), f)
    BY DEF UpTo
  <1> HIDE DEF upTo
  <1>3. \E f : UpTo(reply, Len(reply), f)
    <2>1. Len(reply) \in Nat
      OBVIOUS
    <2> QED BY <2>1, UpToExists
  <1>4. UpTo(reply, Len(reply), CHOOSE f : UpTo(reply, Len(reply), f))
    BY <1>3, Zenon
  <1> QED BY <1>1, <1>2, <1>4

\* The last block adds its part, if it is of a kind that is known.
LEMMA SendLast ==
  ASSUME NEW r \in Seq(Block), NEW pre \in Seq(Block), NEW n \in Nat,
         Len(r) = n + 1, Len(pre) = n, \A i \in 1 .. n : pre[i] = r[i]
  PROVE  SendContent(r) = IF r[n + 1].kind \in Parts
                            THEN Append(SendContent(pre), Sent(r[n + 1]))
                            ELSE SendContent(pre)
  <1>1. PICK f : UpTo(r, n + 1, f) /\ SendContent(r) = f[n + 1]
    BY SendIsUpTo
  <1>2. PICK g : UpTo(pre, n, g) /\ SendContent(pre) = g[n]
    BY SendIsUpTo
  <1> DEFINE A == {k \in Nat : k \in 0 .. n => f[k] = g[k]}
  <1>3. 0 \in A
    BY <1>1, <1>2 DEF UpTo
  <1>4. ASSUME NEW k \in Nat, k \in A PROVE k + 1 \in A
    <2> SUFFICES ASSUME k + 1 \in 0 .. n PROVE f[k + 1] = g[k + 1]
      OBVIOUS
    <2>1. /\ k + 1 \in 0 .. n + 1 /\ k + 1 # 0 /\ (k + 1) - 1 = k
          /\ pre[k + 1] = r[k + 1] /\ f[k] = g[k]
      BY <1>4
    <2>2. f[k + 1] = IF r[k + 1].kind \in Parts THEN Append(f[k], Sent(r[k + 1])) ELSE f[k]
      <3>1. f[k + 1] = IF k + 1 = 0 THEN <<>>
                       ELSE IF r[k + 1].kind \in Parts
                              THEN Append(f[(k + 1) - 1], Sent(r[k + 1])) ELSE f[(k + 1) - 1]
        BY <1>1, <2>1 DEF UpTo
      <3> QED BY <2>1, <3>1
    <2>3. g[k + 1] = IF pre[k + 1].kind \in Parts THEN Append(g[k], Sent(pre[k + 1])) ELSE g[k]
      BY <1>2, <2>1, ZenonT(30) DEF UpTo
    <2> QED BY <2>1, <2>2, <2>3
  <1> HIDE DEF A
  <1>5. n \in A
    BY <1>3, <1>4, Induction
  <1>6. f[n] = g[n]
    BY <1>5 DEF A
  <1>7. n + 1 \in 0 .. n + 1 /\ n + 1 # 0 /\ (n + 1) - 1 = n
    OBVIOUS
  <1>8. f[n + 1] = IF r[n + 1].kind \in Parts THEN Append(f[n], Sent(r[n + 1])) ELSE f[n]
    BY <1>1, <1>7 DEF UpTo
  <1> QED BY <1>1, <1>2, <1>6, <1>8

LEMMA SendEmpty == SendContent(<<>>) = <<>>
  <1>1. <<>> \in Seq(Block) /\ Len(<<>>) = 0
    OBVIOUS
  <1>2. PICK f : UpTo(<<>>, 0, f) /\ SendContent(<<>>) = f[0]
    BY <1>1, SendIsUpTo
  <1> QED BY <1>2 DEF UpTo

LEMMA SentFacts ==
  ASSUME NEW b \in Block, b.kind \in Parts
  PROVE  /\ Sent(b) \in SentPart
         /\ Sent(b).kind = b.kind
         /\ Sent(b).text = IF b.kind = "tool_use" /\ b.pieces = <<>> THEN <<NoArgs>> ELSE b.pieces
  <1>1. b.pieces \in Seq(Piece \cup {NoArgs}) /\ <<NoArgs>> \in Seq(Piece \cup {NoArgs})
    BY DEF Block
  <1> QED BY <1>1 DEF Sent, SentPart

\* The first u blocks and no more are of known kinds.
Leading(reply, u) ==
  /\ u \in 0 .. Len(reply)
  /\ \A i \in 1 .. u : reply[i].kind \in Parts
  /\ u < Len(reply) => reply[u + 1].kind \notin Parts

\* There are no more parts than blocks, fewer if a block is not known, and a
\* part for each of the leading blocks.
Counted(reply) ==
  /\ SendContent(reply) \in Seq(SentPart)
  /\ Len(SendContent(reply)) <= Len(reply)
  /\ (\E i \in 1 .. Len(reply) : reply[i].kind \notin Parts)
        => Len(SendContent(reply)) < Len(reply)
  /\ \A u \in 0 .. Len(reply) :
       (\A i \in 1 .. u : reply[i].kind \in Parts) => u <= Len(SendContent(reply))

LEMMA SendCounted ==
  ASSUME NEW reply \in Seq(Block)
  PROVE  Counted(reply)
  <1> DEFINE A == {n \in Nat : \A r \in Seq(Block) : Len(r) = n => Counted(r)}
  <1>1. 0 \in A
    <2>1. ASSUME NEW r \in Seq(Block), Len(r) = 0 PROVE Counted(r)
      <3>1. r = <<>> /\ <<>> \in Seq(SentPart) /\ Len(<<>>) = 0
        BY <2>1
      <3>2. PICK s \in Seq(SentPart) : s = SendContent(r) /\ Len(s) = 0
        BY <3>1, SendEmpty
      <3>3. /\ 1 .. Len(r) = {}
            /\ \A u \in 0 .. Len(r) : u <= Len(s)
        BY <2>1, <3>2
      <3> QED BY <2>1, <3>2, <3>3 DEF Counted
    <2> QED BY <2>1
  <1>2. ASSUME NEW n \in Nat, n \in A PROVE n + 1 \in A
    <2>1. ASSUME NEW r \in Seq(Block), Len(r) = n + 1 PROVE Counted(r)
      <3>1. PICK pre \in Seq(Block) : Len(pre) = n /\ \A i \in 1 .. n : pre[i] = r[i]
        <4>1. Len(r) > 0 /\ Len(r) - 1 = n
          BY <2>1
        <4>2. PICK pre \in Seq(Block) : /\ Len(pre) = Len(r) - 1
                                        /\ \A i \in 1 .. Len(pre) : pre[i] = r[i]
          BY <4>1, FrontFacts
        <4> QED BY <4>1, <4>2
      <3>2. Counted(pre)
        BY <1>2, <3>1
      <3>3. PICK b \in Block : b = r[n + 1]
        BY <2>1
      <3>4. PICK s, t : s = SendContent(pre) /\ t = SendContent(r)
        OBVIOUS
      <3>5. t = IF b.kind \in Parts THEN Append(s, Sent(b)) ELSE s
        BY <2>1, <3>1, <3>3, <3>4, SendLast
      <3>6. /\ s \in Seq(SentPart) /\ Len(s) \in Nat /\ Len(s) <= n
            /\ (\E i \in 1 .. n : r[i].kind \notin Parts) => Len(s) < n
            /\ \A u \in 0 .. n : (\A i \in 1 .. u : r[i].kind \in Parts) => u <= Len(s)
        <4>1. s \in Seq(SentPart) /\ Len(s) \in Nat /\ Len(s) <= n
          BY <3>1, <3>2, <3>4 DEF Counted
        <4>2. (\E i \in 1 .. n : r[i].kind \notin Parts) => Len(s) < n
          BY <3>1, <3>2, <3>4 DEF Counted
        <4>3. ASSUME NEW u \in 0 .. n, \A i \in 1 .. u : r[i].kind \in Parts PROVE u <= Len(s)
          <5>1. \A i \in 1 .. u : i \in 1 .. n /\ pre[i].kind \in Parts
            BY <3>1, <4>3
          <5> QED BY <5>1, <3>1, <3>2, <3>4 DEF Counted
        <4> QED BY <4>1, <4>2, <4>3
      <3>7. CASE b.kind \in Parts
        <4>1. Sent(b) \in SentPart
          BY <3>7, SentFacts
        <4>2. t = Append(s, Sent(b)) /\ t \in Seq(SentPart) /\ Len(t) = Len(s) + 1
          BY <3>5, <3>6, <3>7, <4>1
        <4>3. ASSUME NEW i \in 1 .. n + 1, r[i].kind \notin Parts PROVE Len(t) < n + 1
          <5>1. i \in 1 .. n
            BY <3>3, <3>7, <4>3
          <5> QED BY <5>1, <4>2, <4>3, <3>6
        <4>4. ASSUME NEW u \in 0 .. n + 1, \A i \in 1 .. u : r[i].kind \in Parts
              PROVE  u <= Len(t)
          <5>1. CASE u = n + 1
            <6>1. \A i \in 1 .. n : r[i].kind \in Parts
              BY <4>4, <5>1
            <6>2. n <= Len(s)
              BY <6>1, <3>6
            <6> QED BY <6>2, <5>1, <4>2, <3>6
          <5>2. CASE u # n + 1
            <6>1. u \in 0 .. n
              BY <5>2
            <6>2. u <= Len(s)
              BY <6>1, <4>4, <3>6
            <6> QED BY <6>1, <6>2, <4>2, <3>6
          <5> QED BY <5>1, <5>2
        <4>5. Len(t) <= n + 1
          BY <3>6, <4>2
        <4> QED BY <2>1, <3>4, <4>2, <4>3, <4>4, <4>5 DEF Counted
      <3>8. CASE b.kind \notin Parts
        <4>1. t = s
          BY <3>5, <3>8
        <4>2. ASSUME NEW u \in 0 .. n + 1, \A i \in 1 .. u : r[i].kind \in Parts
              PROVE  u <= Len(t)
          <5>1. u # n + 1
            <6>1. n + 1 \in 1 .. n + 1
              OBVIOUS
            <6> QED BY <6>1, <3>3, <3>8, <4>2
          <5>2. u \in 0 .. n
            BY <5>1
          <5> QED BY <5>2, <4>1, <4>2, <3>6
        <4>3. Len(t) < n + 1 /\ Len(t) <= n + 1
          BY <3>6, <4>1
        <4> QED BY <2>1, <3>4, <3>6, <4>1, <4>2, <4>3 DEF Counted
      <3> QED BY <3>7, <3>8
    <2> QED BY <2>1
  <1> HIDE DEF A
  <1>3. Nat \subseteq A /\ Len(reply) \in Nat
    BY <1>1, <1>2, Induction
  <1>4. Len(reply) \in A
    BY <1>3
  <1> QED BY <1>4 DEF A

\* Part by part the response agrees with what Send makes of the reply, of
\* which u blocks lead.
Agrees(parts, reply, u) ==
  /\ Len(parts) = Len(SendContent(reply))
  /\ \A i \in 1 .. Len(parts) :
       /\ parts[i].kind = SendContent(reply)[i].kind
       /\ parts[i].text = IF i > u \/ SendContent(reply)[i].text = <<NoArgs>>
                            THEN <<>> ELSE SendContent(reply)[i].text

LEMMA SentText ==
  ASSUME NEW b \in Block, b.kind \in Parts
  PROVE  (IF Sent(b).text = <<NoArgs>> THEN <<>> ELSE Sent(b).text) = b.pieces
  <1>1. b.pieces \in Seq(Piece)
    BY DEF Block
  <1>2. b.pieces # <<NoArgs>>
    <2>1. ASSUME b.pieces = <<NoArgs>> PROVE FALSE
      <3>1. Len(b.pieces) = 1 /\ b.pieces[1] = NoArgs
        BY <2>1
      <3>2. NoArgs \in Piece
        BY <1>1, <3>1
      <3> QED BY <3>2 DEF NoArgs, Piece
    <2> QED BY <2>1
  <1> QED BY <1>2, SentFacts

LEMMA SendAppend ==
  ASSUME NEW reply \in Seq(Block), NEW b \in Block
  PROVE  SendContent(Append(reply, b)) =
           IF b.kind \in Parts THEN Append(SendContent(reply), Sent(b))
                               ELSE SendContent(reply)
  <1> DEFINE more == Append(reply, b)
  <1>1. PICK n \in Nat : n = Len(reply)
    OBVIOUS
  <1>2. /\ more \in Seq(Block) /\ Len(more) = n + 1 /\ more[n + 1] = b
        /\ \A i \in 1 .. n : reply[i] = more[i]
    BY <1>1
  <1> HIDE DEF more
  <1>3. SendContent(more) = IF more[n + 1].kind \in Parts
                              THEN Append(SendContent(reply), Sent(more[n + 1]))
                              ELSE SendContent(reply)
    BY <1>1, <1>2, SendLast
  <1> QED BY <1>2, <1>3 DEF more

\* While all blocks are known there is a part for each.
LEMMA AllKnown ==
  ASSUME NEW parts \in Seq(Part), NEW reply \in Seq(Block), NEW n \in Nat,
         Len(reply) = n + 1, Leading(reply, n + 1), Agrees(parts, reply, n + 1)
  PROVE  /\ Len(parts) = n + 1
         /\ parts[n + 1].kind = reply[n + 1].kind
         /\ parts[n + 1].text = reply[n + 1].pieces
  <1>1. PICK pre \in Seq(Block) : Len(pre) = n /\ \A i \in 1 .. n : pre[i] = reply[i]
    <2>1. Len(reply) > 0 /\ Len(reply) - 1 = n
      OBVIOUS
    <2>2. \E pre \in Seq(Block) : /\ Len(pre) = Len(reply) - 1
                                   /\ \A i \in 1 .. Len(pre) : pre[i] = reply[i]
      BY <2>1, FrontFacts
    <2>3. PICK pre \in Seq(Block) : /\ Len(pre) = Len(reply) - 1
                                    /\ \A i \in 1 .. Len(pre) : pre[i] = reply[i]
      BY <2>2
    <2> QED BY <2>1, <2>3
  <1>2. PICK b \in Block : b = reply[n + 1]
    OBVIOUS
  <1>3. b.kind \in Parts /\ \A i \in 1 .. n : pre[i].kind \in Parts
    BY <1>1, <1>2 DEF Leading
  <1>4. PICK s \in Seq(SentPart) : s = SendContent(pre) /\ Len(s) = n
    <2>1. PICK s \in Seq(SentPart) : s = SendContent(pre)
      BY SendCounted DEF Counted
    <2>2. Len(s) <= n
      BY <1>1, <2>1, SendCounted DEF Counted
    <2>3. n \in 0 .. Len(pre)
      BY <1>1
    <2>4. n <= Len(s)
      BY <1>3, <2>1, <2>3, SendCounted DEF Counted
    <2> QED BY <2>1, <2>2, <2>4
  <1>5. SendContent(reply) = Append(s, Sent(b))
    BY <1>1, <1>2, <1>3, <1>4, SendLast
  <1>6. Sent(b) \in SentPart /\ Sent(b).kind = b.kind
    BY <1>3, SentFacts
  <1>7. PICK t : t = SendContent(reply) /\ Len(t) = n + 1 /\ t[n + 1] = Sent(b)
    BY <1>4, <1>5, <1>6
  <1>8. Len(parts) = n + 1
    BY <1>7 DEF Agrees
  <1>9. n + 1 \in 1 .. Len(parts)
    BY <1>8
  <1>10. /\ parts[n + 1].kind = t[n + 1].kind
         /\ parts[n + 1].text = IF n + 1 > n + 1 \/ t[n + 1].text = <<NoArgs>>
                                  THEN <<>> ELSE t[n + 1].text
    BY <1>7, <1>9, Zenon DEF Agrees
  <1> QED BY <1>2, <1>3, <1>6, <1>7, <1>8, <1>10, SentText

\* The last block gets more pieces, or none, and the part with its index does.
LEMMA AgreesLast ==
  ASSUME NEW parts \in Seq(Part), NEW reply \in Seq(Block), NEW u, NEW n \in Nat,
         Len(reply) = n + 1, Leading(reply, u), Agrees(parts, reply, u),
         NEW next \in Seq(Block), Len(next) = n + 1, \A i \in 1 .. n : next[i] = reply[i],
         next[n + 1].kind = reply[n + 1].kind,
         NEW new \in Seq(Part), Len(new) = Len(parts),
         \A i \in 1 .. Len(parts) : new[i].kind = parts[i].kind,
         \A i \in 1 .. Len(parts) : i # n + 1 => new[i] = parts[i],
         Len(parts) = n + 1 /\ parts[n + 1].text = reply[n + 1].pieces
           => new[n + 1].text = next[n + 1].pieces
  PROVE  Leading(next, u) /\ Agrees(new, next, u)
  <1>1. PICK pre \in Seq(Block) : Len(pre) = n /\ \A i \in 1 .. n : pre[i] = reply[i]
    <2>1. Len(reply) > 0 /\ Len(reply) - 1 = n
      OBVIOUS
    <2> QED BY <2>1, FrontFacts
  <1>2. PICK b \in Block, c \in Block : b = reply[n + 1] /\ c = next[n + 1] /\ b.kind = c.kind
    OBVIOUS
  <1>3. \A i \in 1 .. n + 1 : next[i].kind = reply[i].kind
    <2>1. \A i \in 1 .. n + 1 : i \in 1 .. n \/ i = n + 1
      OBVIOUS
    <2> QED BY <2>1
  <1>4. u \in 0 .. n + 1 /\ u \in Nat
    BY DEF Leading
  <1>5. Leading(next, u)
    <2>1. \A i \in 1 .. u : next[i].kind \in Parts
      BY <1>3, <1>4 DEF Leading
    <2>2. u < n + 1 => next[u + 1].kind \notin Parts
      BY <1>3, <1>4 DEF Leading
    <2> QED BY <1>4, <2>1, <2>2 DEF Leading
  <1>6. PICK s \in Seq(SentPart) : s = SendContent(pre) /\ Len(s) \in Nat /\ Len(s) <= n
    BY <1>1, SendCounted DEF Counted
  <1>7. PICK t : /\ t = SendContent(reply)
                 /\ t = IF b.kind \in Parts THEN Append(s, Sent(b)) ELSE s
    <2>1. SendContent(reply) = IF reply[n + 1].kind \in Parts
                                 THEN Append(SendContent(pre), Sent(reply[n + 1]))
                                 ELSE SendContent(pre)
      BY <1>1, SendLast
    <2> QED BY <2>1, <1>2, <1>6
  <1>8. PICK w : /\ w = SendContent(next)
                 /\ w = IF b.kind \in Parts THEN Append(s, Sent(c)) ELSE s
    <2>1. \A i \in 1 .. n : pre[i] = next[i]
      BY <1>1
    <2>2. SendContent(next) = IF next[n + 1].kind \in Parts
                                THEN Append(SendContent(pre), Sent(next[n + 1]))
                                ELSE SendContent(pre)
      BY <2>1, <1>1, SendLast
    <2> QED BY <2>2, <1>2, <1>6
  <1>9. Len(parts) = Len(t)
    BY <1>7 DEF Agrees
  <1>10. \A i \in 1 .. Len(parts) :
           /\ parts[i].kind = t[i].kind
           /\ parts[i].text = IF i > u \/ t[i].text = <<NoArgs>> THEN <<>> ELSE t[i].text
    BY <1>7, Zenon DEF Agrees
  <1>11. CASE b.kind \notin Parts
    <2>1. t = s /\ w = s /\ Len(parts) <= n
      BY <1>6, <1>7, <1>8, <1>9, <1>11
    <2>2. \A i \in 1 .. Len(parts) : new[i] = parts[i]
      BY <2>1
    <2> QED BY <1>5, <1>8, <1>9, <1>10, <2>1, <2>2 DEF Agrees
  <1>12. CASE b.kind \in Parts
    <2>1. Sent(b) \in SentPart /\ Sent(b).kind = b.kind /\ Sent(c) \in SentPart /\ Sent(c).kind = b.kind
      BY <1>2, <1>12, SentFacts
    <2>2. PICK m \in Nat : m = Len(s) /\ m <= n
      BY <1>6
    <2>3. /\ Len(t) = m + 1 /\ t[m + 1] = Sent(b) /\ \A i \in 1 .. m : t[i] = s[i]
          /\ Len(w) = m + 1 /\ w[m + 1] = Sent(c) /\ \A i \in 1 .. m : w[i] = s[i]
      BY <1>7, <1>8, <1>12, <2>1, <2>2
    <2>4. Len(parts) = m + 1
      BY <1>9, <2>3
    <2>5. ASSUME NEW i \in 1 .. m
          PROVE  /\ new[i].kind = w[i].kind
                 /\ new[i].text = IF i > u \/ w[i].text = <<NoArgs>> THEN <<>> ELSE w[i].text
      <3>1. i \in 1 .. Len(parts) /\ i # n + 1
        BY <2>2, <2>4
      <3> QED BY <3>1, <1>10, <2>3, ZenonT(30)
    <2>6. m + 1 \in 1 .. Len(parts) /\ new[m + 1].kind = w[m + 1].kind
      <3>1. m + 1 \in 1 .. Len(parts)
        BY <2>4
      <3> QED BY <3>1, <1>10, <2>1, <2>3
    <2>7. new[m + 1].text = IF m + 1 > u \/ w[m + 1].text = <<NoArgs>>
                              THEN <<>> ELSE w[m + 1].text
      <3>1. CASE u = n + 1
        <4>1. m = n
          <5>1. \A i \in 1 .. n : pre[i].kind \in Parts
            <6>1. \A i \in 1 .. n : i \in 1 .. u /\ pre[i] = reply[i]
              BY <1>1, <3>1
            <6> QED BY <6>1 DEF Leading
          <5>2. n \in 0 .. Len(pre)
            BY <1>1
          <5>3. n <= Len(s)
            BY <5>1, <5>2, <1>6, SendCounted DEF Counted
          <5> QED BY <5>3, <2>2
        <4>2. parts[n + 1].text = b.pieces
          <5>1. parts[n + 1].text = IF n + 1 > u \/ Sent(b).text = <<NoArgs>>
                                      THEN <<>> ELSE Sent(b).text
            BY <4>1, <2>3, <2>6, <1>10
          <5>2. ~(n + 1 > u)
            BY <3>1
          <5> QED BY <5>1, <5>2, <1>12, SentText
        <4>3. new[n + 1].text = c.pieces
          BY <4>1, <4>2, <2>4, <1>2
        <4>4. ~(m + 1 > u)
          BY <3>1, <4>1
        <4> QED BY <4>1, <4>3, <4>4, <2>3, <1>2, <1>12, SentText
      <3>2. CASE u # n + 1
        <4>1. u \in 0 .. n /\ \E i \in 1 .. n : pre[i].kind \notin Parts
          <5>1. u < n + 1 /\ reply[u + 1].kind \notin Parts
            BY <3>2, <1>4 DEF Leading
          <5>2. u + 1 # n + 1
            BY <5>1, <1>2, <1>12
          <5>3. u + 1 \in 1 .. n
            BY <5>1, <5>2, <1>4
          <5> QED BY <5>1, <5>3, <1>1, <1>4
        <4>2. Len(s) < n
          BY <4>1, <1>1, <1>6, SendCounted DEF Counted
        <4>3. u <= Len(s)
          <5>1. \A i \in 1 .. u : pre[i].kind \in Parts
            BY <1>1, <4>1 DEF Leading
          <5> QED BY <5>1, <4>1, <1>1, <1>6, SendCounted DEF Counted
        <4>4. m + 1 > u /\ m + 1 # n + 1
          BY <4>2, <4>3, <2>2, <1>4
        <4> QED BY <4>4, <2>3, <2>6, <1>10
      <3> QED BY <3>1, <3>2
    <2>8. \A i \in 1 .. m + 1 :
            /\ new[i].kind = w[i].kind
            /\ new[i].text = IF i > u \/ w[i].text = <<NoArgs>> THEN <<>> ELSE w[i].text
      <3>1. \A i \in 1 .. m + 1 : i \in 1 .. m \/ i = m + 1
        OBVIOUS
      <3> QED BY <3>1, <2>5, <2>6, <2>7
    <2> QED BY <1>5, <1>8, <2>3, <2>4, <2>8, ZenonT(30) DEF Agrees
  <1> QED BY <1>11, <1>12

-----------------------------------------------------------------------------
(* What the events tell.                                                   *)

Delivered == Piece \cup {NoDelta}

Deltas(evs, type) ==
  [i \in DOMAIN evs |-> IF evs[i].type = type THEN <<evs[i].delta>> ELSE <<>>]

Texts(parts, kind) ==
  [i \in DOMAIN parts |-> IF parts[i].kind = kind THEN parts[i].text ELSE <<>>]

Heard(evs, parts) ==
  \A kind \in Parts : FlattenSeq(Deltas(evs, DeltaType[kind])) = FlattenSeq(Texts(parts, kind))

LEMMA DeltasFacts ==
  ASSUME NEW evs \in Seq(Events), NEW type
  PROVE  /\ Deltas(evs, type) \in Seq(Seq(Delivered))
         /\ Len(Deltas(evs, type)) = Len(evs)
         /\ \A i \in 1 .. Len(evs) :
              Deltas(evs, type)[i] = IF evs[i].type = type THEN <<evs[i].delta>> ELSE <<>>
  <1>1. PICK n \in Nat : n = Len(evs) /\ DOMAIN evs = 1 .. n
    OBVIOUS
  <1>2. ASSUME NEW i \in 1 .. n
        PROVE  (IF evs[i].type = type THEN <<evs[i].delta>> ELSE <<>>) \in Seq(Delivered)
    <2>1. evs[i] \in Events
      BY <1>1
    <2>2. evs[i].delta \in Delivered
      BY <2>1 DEF Events, Delivered
    <2> QED BY <2>2
  <1>3. Deltas(evs, type) = [i \in 1 .. n |-> IF evs[i].type = type THEN <<evs[i].delta>> ELSE <<>>]
    BY <1>1 DEF Deltas
  <1> QED BY <1>1, <1>2, <1>3

LEMMA TextsFacts ==
  ASSUME NEW parts \in Seq(Part), NEW kind
  PROVE  /\ Texts(parts, kind) \in Seq(Seq(Delivered))
         /\ Len(Texts(parts, kind)) = Len(parts)
         /\ \A i \in 1 .. Len(parts) :
              Texts(parts, kind)[i] = IF parts[i].kind = kind THEN parts[i].text ELSE <<>>
  <1>1. PICK n \in Nat : n = Len(parts) /\ DOMAIN parts = 1 .. n
    OBVIOUS
  <1>2. ASSUME NEW i \in 1 .. n
        PROVE  (IF parts[i].kind = kind THEN parts[i].text ELSE <<>>) \in Seq(Delivered)
    <2>1. parts[i] \in Part
      BY <1>1
    <2>2. parts[i].text \in Seq(Piece)
      BY <2>1 DEF Part
    <2>3. parts[i].text \in Seq(Delivered)
      BY <2>2 DEF Delivered
    <2> QED BY <2>3
  <1>3. Texts(parts, kind) = [i \in 1 .. n |-> IF parts[i].kind = kind THEN parts[i].text ELSE <<>>]
    BY <1>1 DEF Texts
  <1> QED BY <1>1, <1>2, <1>3

\* One more event tells one more piece, or none.
LEMMA DeltasAppend ==
  ASSUME NEW evs \in Seq(Events), NEW e \in Events, NEW type
  PROVE  /\ FlattenSeq(Deltas(evs, type)) \in Seq(Delivered)
         /\ FlattenSeq(Deltas(Append(evs, e), type)) =
              IF e.type = type THEN Append(FlattenSeq(Deltas(evs, type)), e.delta)
                               ELSE FlattenSeq(Deltas(evs, type))
  <1>1. PICK told \in Seq(Seq(Delivered)) :
          /\ told = Deltas(evs, type) /\ Len(told) = Len(evs)
          /\ \A i \in 1 .. Len(evs) : told[i] = IF evs[i].type = type THEN <<evs[i].delta>> ELSE <<>>
    BY DeltasFacts
  <1>2. PICK t \in Seq(Delivered) : t = IF e.type = type THEN <<e.delta>> ELSE <<>>
    <2>1. e.delta \in Delivered
      BY DEF Events, Delivered
    <2>2. <<e.delta>> \in Seq(Delivered) /\ <<>> \in Seq(Delivered)
      BY <2>1
    <2> QED BY <2>2, Zenon
  <1>3. PICK more \in Seq(Events), n \in Nat :
          /\ more = Append(evs, e) /\ n = Len(evs) /\ Len(more) = n + 1 /\ more[n + 1] = e
          /\ \A i \in 1 .. n : more[i] = evs[i]
    <2>1. PICK n \in Nat : n = Len(evs)
      OBVIOUS
    <2> DEFINE more == Append(evs, e)
    <2>2. /\ more \in Seq(Events) /\ Len(more) = n + 1 /\ more[n + 1] = e
          /\ \A i \in 1 .. n : more[i] = evs[i]
      BY <2>1
    <2> QED BY <2>1, <2>2
  <1>4. PICK now \in Seq(Seq(Delivered)) :
          /\ now = Deltas(more, type) /\ Len(now) = n + 1
          /\ \A i \in 1 .. n + 1 :
               now[i] = IF more[i].type = type THEN <<more[i].delta>> ELSE <<>>
    <2>1. /\ Deltas(more, type) \in Seq(Seq(Delivered))
          /\ Len(Deltas(more, type)) = Len(more)
          /\ \A i \in 1 .. Len(more) :
               Deltas(more, type)[i] = IF more[i].type = type THEN <<more[i].delta>> ELSE <<>>
      BY DeltasFacts
    <2>2. Len(more) = n + 1
      BY <1>3
    <2> QED BY <2>1, <2>2
  <1>5. /\ \A i \in 1 .. n : told[i] = now[i]
        /\ now[n + 1] = t
    <2>1. ASSUME NEW i \in 1 .. n
          PROVE  told[i] = now[i]
      <3>1. i \in 1 .. n + 1 /\ i \in 1 .. Len(evs) /\ more[i] = evs[i]
        BY <1>3
      <3>2. /\ told[i] = IF evs[i].type = type THEN <<evs[i].delta>> ELSE <<>>
            /\ now[i] = IF more[i].type = type THEN <<more[i].delta>> ELSE <<>>
        BY <3>1, <1>1, <1>4
      <3> QED BY <3>1, <3>2
    <2>2. n + 1 \in 1 .. n + 1 /\ more[n + 1] = e
      BY <1>3
    <2>3. now[n + 1] = IF more[n + 1].type = type THEN <<more[n + 1].delta>> ELSE <<>>
      BY <2>2, <1>4
    <2> QED BY <2>1, <2>2, <2>3, <1>2
  <1>6. FlattenSeq(now) = FlattenSeq(told) \o t
    <2>1. Len(now) > 0 /\ Len(told) = Len(now) - 1 /\ \A i \in 1 .. Len(told) : told[i] = now[i]
      BY <1>1, <1>3, <1>4, <1>5
    <2>2. FlattenSeq(now) = FlattenSeq(told) \o now[Len(now)]
      BY <2>1, FlattenLast
    <2> QED BY <2>2, <1>4, <1>5
  <1>7. PICK all \in Seq(Delivered) : all = FlattenSeq(told)
    BY FlattenIsSeq
  <1>8. CASE e.type = type
    <2>1. e.delta \in Delivered
      BY DEF Events, Delivered
    <2>2. all \o <<e.delta>> = Append(all, e.delta)
      BY <2>1
    <2> QED BY <2>2, <1>1, <1>2, <1>3, <1>4, <1>6, <1>7, <1>8
  <1>9. CASE e.type # type
    <2>1. all \o <<>> = all
      BY ConcatEmptySeq
    <2> QED BY <2>1, <1>1, <1>2, <1>3, <1>4, <1>6, <1>7, <1>9
  <1> QED BY <1>8, <1>9

DeltaTypes == {"text_delta", "thinking_delta", "tool_call_delta"}

LEMMA DeltaTypeFacts ==
  /\ \A kind \in Parts : DeltaType[kind] \in DeltaTypes
  /\ \A k1, k2 \in Parts : DeltaType[k1] = DeltaType[k2] => k1 = k2
  BY DEF DeltaType, DeltaTypes, Parts

LEMMA HeardQuiet ==
  ASSUME NEW evs \in Seq(Events), NEW parts, Heard(evs, parts),
         NEW e \in Events, e.type \notin DeltaTypes
  PROVE  Heard(Append(evs, e), parts)
  <1>1. ASSUME NEW kind \in Parts
        PROVE  FlattenSeq(Deltas(Append(evs, e), DeltaType[kind])) =
                 FlattenSeq(Deltas(evs, DeltaType[kind]))
    <2>1. e.type # DeltaType[kind]
      BY DeltaTypeFacts
    <2> QED BY <2>1, DeltasAppend
  <1> QED BY <1>1 DEF Heard

LEMMA HeardStart ==
  ASSUME NEW evs, NEW parts \in Seq(Part), Heard(evs, parts),
         NEW p \in Part, p.text = <<>>
  PROVE  Heard(evs, Append(parts, p))
  <1>1. PICK more \in Seq(Part), n \in Nat :
          /\ more = Append(parts, p) /\ n = Len(parts) /\ Len(more) = n + 1 /\ more[n + 1] = p
          /\ \A i \in 1 .. n : more[i] = parts[i]
    <2>1. PICK n \in Nat : n = Len(parts)
      OBVIOUS
    <2> DEFINE more == Append(parts, p)
    <2>2. /\ more \in Seq(Part) /\ Len(more) = n + 1 /\ more[n + 1] = p
          /\ \A i \in 1 .. n : more[i] = parts[i]
      BY <2>1
    <2> QED BY <2>1, <2>2
  <1>2. ASSUME NEW kind \in Parts
        PROVE  FlattenSeq(Texts(more, kind)) = FlattenSeq(Texts(parts, kind))
    <2>1. PICK s \in Seq(Seq(Delivered)) :
            /\ s = Texts(parts, kind) /\ Len(s) = n
            /\ \A i \in 1 .. n : s[i] = IF parts[i].kind = kind THEN parts[i].text ELSE <<>>
      BY <1>1, TextsFacts
    <2>2. PICK t \in Seq(Seq(Delivered)) :
            /\ t = Texts(more, kind) /\ Len(t) = n + 1
            /\ \A i \in 1 .. n + 1 : t[i] = IF more[i].kind = kind THEN more[i].text ELSE <<>>
      <3>1. /\ Texts(more, kind) \in Seq(Seq(Delivered))
            /\ Len(Texts(more, kind)) = Len(more)
            /\ \A i \in 1 .. Len(more) :
                 Texts(more, kind)[i] = IF more[i].kind = kind THEN more[i].text ELSE <<>>
        BY TextsFacts
      <3>2. Len(more) = n + 1
        BY <1>1
      <3> QED BY <3>1, <3>2
    <2>3. t[n + 1] = <<>> /\ \A i \in 1 .. n : s[i] = t[i]
      <3>1. ASSUME NEW i \in 1 .. n
            PROVE  s[i] = t[i]
        <4>1. i \in 1 .. n + 1 /\ more[i] = parts[i]
          BY <1>1
        <4> QED BY <4>1, <2>1, <2>2
      <3>2. n + 1 \in 1 .. n + 1 /\ more[n + 1] = p
        BY <1>1
      <3>3. t[n + 1] = IF more[n + 1].kind = kind THEN more[n + 1].text ELSE <<>>
        BY <3>2, <2>2
      <3> QED BY <3>1, <3>2, <3>3
    <2>4. FlattenSeq(t) = FlattenSeq(s) \o t[Len(t)]
      <3>1. Len(t) > 0 /\ Len(s) = Len(t) - 1 /\ \A i \in 1 .. Len(s) : s[i] = t[i]
        BY <2>1, <2>2, <2>3
      <3> QED BY <3>1, FlattenLast
    <2>5. PICK all \in Seq(Delivered) : all = FlattenSeq(s)
      BY FlattenIsSeq
    <2>6. all \o <<>> = all
      BY ConcatEmptySeq
    <2> QED BY <2>1, <2>2, <2>3, <2>4, <2>5, <2>6
  <1> QED BY <1>1, <1>2 DEF Heard

LEMMA HeardDelta ==
  ASSUME NEW evs \in Seq(Events), NEW parts \in Seq(Part), Heard(evs, parts),
         NEW n \in Nat, Len(parts) = n + 1,
         NEW piece \in Piece, NEW e \in Events, e.delta = piece,
         e.type = DeltaType[parts[n + 1].kind],
         NEW new \in Seq(Part), Len(new) = n + 1,
         \A i \in 1 .. n : new[i] = parts[i],
         new[n + 1].kind = parts[n + 1].kind,
         new[n + 1].text = Append(parts[n + 1].text, piece)
  PROVE  Heard(Append(evs, e), new)
  <1>1. PICK k \in Parts : k = parts[n + 1].kind
    <2>1. n + 1 \in 1 .. Len(parts)
      OBVIOUS
    <2>2. parts[n + 1] \in Part
      BY <2>1
    <2> QED BY <2>2 DEF Part
  <1>2. ASSUME NEW kind \in Parts
        PROVE  FlattenSeq(Deltas(Append(evs, e), DeltaType[kind])) = FlattenSeq(Texts(new, kind))
    <2>1. PICK s \in Seq(Seq(Delivered)) :
            /\ s = Texts(parts, kind) /\ Len(s) = n + 1
            /\ \A i \in 1 .. n + 1 : s[i] = IF parts[i].kind = kind THEN parts[i].text ELSE <<>>
      BY TextsFacts
    <2>2. PICK t \in Seq(Seq(Delivered)) :
            /\ t = Texts(new, kind) /\ Len(t) = n + 1
            /\ \A i \in 1 .. n + 1 : t[i] = IF new[i].kind = kind THEN new[i].text ELSE <<>>
      BY TextsFacts
    <2>3. ASSUME NEW i \in 1 .. n
          PROVE  t[i] = s[i]
      <3>1. i \in 1 .. n + 1 /\ new[i] = parts[i]
        OBVIOUS
      <3>2. /\ s[i] = IF parts[i].kind = kind THEN parts[i].text ELSE <<>>
            /\ t[i] = IF new[i].kind = kind THEN new[i].text ELSE <<>>
        BY <3>1, <2>1, <2>2
      <3> QED BY <3>1, <3>2
    <2>4. FlattenSeq(Deltas(evs, DeltaType[kind])) = FlattenSeq(s)
      BY <2>1 DEF Heard
    <2>5. CASE kind = k
      <3>1. t[n + 1] = Append(s[n + 1], piece)
        BY <1>1, <2>1, <2>2, <2>5
      <3>2. piece \in Delivered
        BY DEF Delivered
      <3>3. FlattenSeq(t) = Append(FlattenSeq(s), piece)
        <4>1. /\ Len(s) > 0 /\ Len(t) = Len(s)
              /\ \A i \in 1 .. Len(s) - 1 : t[i] = s[i]
              /\ t[Len(s)] = Append(s[Len(s)], piece)
          BY <2>1, <2>2, <2>3, <3>1
        <4> QED BY <4>1, <3>2, FlattenExtend, ZenonT(30)
      <3>4. e.type = DeltaType[kind]
        BY <1>1, <2>5
      <3>5. FlattenSeq(Deltas(Append(evs, e), DeltaType[kind])) =
              Append(FlattenSeq(Deltas(evs, DeltaType[kind])), e.delta)
        BY <3>4, DeltasAppend
      <3> QED BY <2>2, <2>4, <3>3, <3>5
    <2>6. CASE kind # k
      <3>1. t[n + 1] = s[n + 1]
        <4>1. n + 1 \in 1 .. n + 1 /\ parts[n + 1].kind # kind /\ new[n + 1].kind # kind
          BY <1>1, <2>6
        <4>2. s[n + 1] = <<>> /\ t[n + 1] = <<>>
          BY <4>1, <2>1, <2>2
        <4> QED BY <4>2
      <3>2. t = s
        <4>1. \A i \in 1 .. Len(s) : t[i] = s[i]
          <5>1. \A i \in 1 .. Len(s) : i \in 1 .. n \/ i = n + 1
            BY <2>1
          <5> QED BY <5>1, <2>3, <3>1
        <4>2. Len(s) = Len(t)
          BY <2>1, <2>2
        <4> QED BY <4>1, <4>2, SeqEqual
      <3>3. e.type # DeltaType[kind]
        BY <1>1, <2>6, DeltaTypeFacts
      <3> QED BY <2>2, <2>4, <3>2, <3>3, DeltasAppend
    <2> QED BY <2>5, <2>6
  <1> QED BY <1>2 DEF Heard

-----------------------------------------------------------------------------
(* The reply, the response and the events, step by step.                   *)

\* The response is Send's up to block u, and with no unknown block the events
\* have told the same.
Streamed(parts, evs, reply) ==
  \E u \in 0 .. Len(reply) :
    /\ Leading(reply, u)
    /\ Agrees(parts, reply, u)
    /\ u = Len(reply) => Heard(evs, parts)

StreamInv == Streamed(content, events, blocks)

LEMMA StreamedStutter ==
  ASSUME StreamInv, UNCHANGED <<content, events, blocks>>
  PROVE  StreamInv'
  BY DEF StreamInv

LEMMA InitStreamed == Init => StreamInv
  <1>1. SendContent(<<>>) = <<>>
    BY SendEmpty
  <1>2. Leading(<<>>, 0) /\ Agrees(<<>>, <<>>, 0)
    BY <1>1 DEF Leading, Agrees
  <1>3. Heard(<<>>, <<>>)
    <2>1. ASSUME NEW kind \in Parts
          PROVE  Deltas(<<>>, DeltaType[kind]) = Texts(<<>>, kind)
      <3>1. DOMAIN << >> = 1 .. 0
        BY EmptySeq
      <3> QED BY <3>1 DEF Deltas, Texts
    <2> QED BY <2>1 DEF Heard
  <1>4. Streamed(<<>>, <<>>, <<>>)
    <2>1. Len(<<>>) = 0 /\ 0 \in 0 .. 0
      OBVIOUS
    <2> QED BY <2>1, <1>2, <1>3 DEF Streamed
  <1> QED BY <1>4 DEF Init, StreamInv

\* An event that tells no piece, with the same blocks and parts.
LEMMA StreamedQuiet ==
  ASSUME NEW parts, NEW evs \in Seq(Events), NEW reply, Streamed(parts, evs, reply),
         NEW e \in Events, e.type \notin DeltaTypes
  PROVE  Streamed(parts, Append(evs, e), reply)
  BY HeardQuiet DEF Streamed

LEMMA QuietStep ==
  ASSUME IInv, StreamInv, UNCHANGED <<content, blocks>>,
         NEW e \in Events, e.type \notin DeltaTypes, events' = Append(events, e)
  PROVE  StreamInv'
  <1>1. events \in Seq(Events)
    BY DEF IInv, ConsumerInv
  <1>2. Streamed(content, Append(events, e), blocks)
    BY <1>1, StreamedQuiet DEF StreamInv
  <1> QED BY <1>2 DEF StreamInv

\* A block is started.
LEMMA StreamedStart ==
  ASSUME NEW parts \in Seq(Part), NEW evs \in Seq(Events), NEW reply \in Seq(Block),
         Streamed(parts, evs, reply), NEW b \in Block, b.pieces = <<>>,
         NEW p, b.kind \in Parts => p \in Part /\ p.kind = b.kind /\ p.text = <<>>,
         NEW longer, longer = IF b.kind \in Parts THEN Append(parts, p) ELSE parts
  PROVE  Streamed(longer, evs, Append(reply, b))
  <1>1. PICK u \in 0 .. Len(reply) : /\ Leading(reply, u) /\ Agrees(parts, reply, u)
                                     /\ u = Len(reply) => Heard(evs, parts)
    BY DEF Streamed
  <1>2. PICK more : more = Append(reply, b)
    OBVIOUS
  <1>3. PICK n \in Nat : n = Len(reply)
    OBVIOUS
  <1>4. /\ more \in Seq(Block) /\ Len(more) = n + 1 /\ more[n + 1] = b
        /\ \A i \in 1 .. n : more[i] = reply[i]
    BY <1>3, <1>2
  <1>5. u \in 0 .. n /\ u \in Nat
    BY <1>1, <1>3 DEF Leading
  <1>6. PICK v \in Nat : v = IF u = n /\ b.kind \in Parts THEN n + 1 ELSE u
    <2>1. n + 1 \in Nat
      OBVIOUS
    <2> QED BY <2>1, <1>5, Zenon
  <1>7. Leading(more, v)
    <2>1. CASE u = n /\ b.kind \in Parts
      <3>1. \A i \in 1 .. n + 1 : more[i].kind \in Parts
        <4>1. \A i \in 1 .. n : reply[i].kind \in Parts
          BY <1>1, <1>3, <2>1 DEF Leading
        <4>2. \A i \in 1 .. n + 1 : i \in 1 .. n \/ i = n + 1
          OBVIOUS
        <4> QED BY <4>1, <4>2, <1>4, <2>1
      <3> QED BY <3>1, <1>4, <1>6, <2>1 DEF Leading
    <2>2. CASE ~(u = n /\ b.kind \in Parts)
      <3>1. \A i \in 1 .. u : more[i].kind \in Parts
        <4>1. \A i \in 1 .. u : reply[i].kind \in Parts
          BY <1>1 DEF Leading
        <4>2. \A i \in 1 .. u : i \in 1 .. n
          BY <1>5
        <4> QED BY <4>1, <4>2, <1>4
      <3>2. more[u + 1].kind \notin Parts
        <4>1. CASE u = n
          BY <4>1, <2>2, <1>4
        <4>2. CASE u # n
          BY <4>2, <1>1, <1>3, <1>4, <1>5 DEF Leading
        <4> QED BY <4>1, <4>2
      <3>3. v = u /\ v \in 0 .. Len(more)
        BY <1>4, <1>5, <1>6, <2>2
      <3> QED BY <3>1, <3>2, <3>3 DEF Leading
    <2> QED BY <2>1, <2>2
  <1>8. v = Len(more) => u = Len(reply) /\ b.kind \in Parts
    BY <1>3, <1>4, <1>5, <1>6
  <1>9. PICK s \in Seq(SentPart) : s = SendContent(reply) /\ Len(s) <= n
    BY <1>3, SendCounted DEF Counted
  <1>10. PICK t : t = SendContent(more)
    OBVIOUS
  <1>11. t = IF b.kind \in Parts THEN Append(s, Sent(b)) ELSE s
    BY <1>9, <1>10, <1>2, SendAppend
  <1>12. /\ Len(parts) = Len(s) /\ Len(s) \in Nat
         /\ \A i \in 1 .. Len(s) :
              /\ parts[i].kind = s[i].kind
              /\ parts[i].text = IF i > u \/ s[i].text = <<NoArgs>> THEN <<>> ELSE s[i].text
    <2>1. Len(parts) = Len(s) /\ Len(s) \in Nat
      BY <1>1, <1>9 DEF Agrees
    <2>2. \A i \in 1 .. Len(parts) :
            /\ parts[i].kind = s[i].kind
            /\ parts[i].text = IF i > u \/ s[i].text = <<NoArgs>> THEN <<>> ELSE s[i].text
      BY <1>1, <1>9, Zenon DEF Agrees
    <2> QED BY <2>1, <2>2
  <1>13. \A i \in 1 .. Len(s) : i > v <=> i > u
    BY <1>5, <1>6, <1>9
  <1>14. Agrees(longer, more, v)
    <2>1. CASE b.kind \in Parts
      <3>1. p \in Part /\ p.kind = b.kind /\ p.text = <<>>
        BY <2>1
      <3>2. longer = Append(parts, p)
        BY <2>1
      <3>3. /\ Len(longer) = Len(s) + 1 /\ longer[Len(s) + 1] = p
            /\ \A i \in 1 .. Len(s) : longer[i] = parts[i]
        BY <3>1, <3>2, <1>12
      <3>4. Sent(b) \in SentPart /\ Sent(b).kind = b.kind
        BY <2>1, SentFacts
      <3>5. (IF Sent(b).text = <<NoArgs>> THEN <<>> ELSE Sent(b).text) = <<>>
        BY <2>1, SentText
      <3>6. t = Append(s, Sent(b))
        BY <1>11, <2>1
      <3>7. /\ Len(t) = Len(s) + 1 /\ t[Len(s) + 1] = Sent(b)
            /\ \A i \in 1 .. Len(s) : t[i] = s[i]
        BY <3>4, <3>6
      <3>8. ASSUME NEW i \in 1 .. Len(longer)
            PROVE  /\ longer[i].kind = t[i].kind
                   /\ longer[i].text = IF i > v \/ t[i].text = <<NoArgs>> THEN <<>> ELSE t[i].text
        <4>1. CASE i = Len(s) + 1
          BY <4>1, <3>1, <3>3, <3>4, <3>5, <3>7
        <4>2. CASE i # Len(s) + 1
          <5>1. i \in 1 .. Len(s)
            BY <4>2, <3>3, <1>12
          <5> QED BY <5>1, <3>3, <3>7, <1>12, <1>13
        <4> QED BY <4>1, <4>2
      <3> QED BY <3>3, <3>7, <3>8, <1>10 DEF Agrees
    <2>2. CASE b.kind \notin Parts
      BY <2>2, <1>10, <1>11, <1>12, <1>13 DEF Agrees
    <2> QED BY <2>1, <2>2
  <1>15. ASSUME v = Len(more)
         PROVE  Heard(evs, longer)
    <2>1. p \in Part /\ p.text = <<>>
      BY <1>8, <1>15
    <2>2. Heard(evs, parts) /\ longer = Append(parts, p)
      BY <1>1, <1>8, <1>15
    <2> QED BY <2>1, <2>2, HeardStart
  <1>16. v \in 0 .. Len(more)
    BY <1>7 DEF Leading
  <1> QED BY <1>2, <1>7, <1>14, <1>15, <1>16 DEF Streamed

\* One more piece, in the last block, the part with its index and the event.
LongerReply(next, reply, n, piece) ==
  /\ Len(reply) = n + 1 /\ Len(next) = n + 1
  /\ \A i \in 1 .. n : next[i] = reply[i]
  /\ next[n + 1].kind = reply[n + 1].kind
  /\ next[n + 1].pieces = Append(reply[n + 1].pieces, piece)

LongerPart(new, parts, n, piece) ==
  /\ Len(new) = Len(parts)
  /\ \A i \in 1 .. Len(parts) : new[i].kind = parts[i].kind
  /\ \A i \in 1 .. Len(parts) : i # n + 1 => new[i] = parts[i]
  /\ n + 1 <= Len(parts) => new[n + 1].text = Append(parts[n + 1].text, piece)

DeltaEvent(e, reply, n, piece) ==
  /\ e.delta = piece
  /\ reply[n + 1].kind \in Parts => e.type = DeltaType[reply[n + 1].kind]

LEMMA StreamedDelta ==
  ASSUME NEW parts \in Seq(Part), NEW evs \in Seq(Events), NEW reply \in Seq(Block),
         Streamed(parts, evs, reply), NEW n \in Nat, NEW piece \in Piece,
         NEW e \in Events, DeltaEvent(e, reply, n, piece),
         NEW next \in Seq(Block), LongerReply(next, reply, n, piece),
         NEW new \in Seq(Part), LongerPart(new, parts, n, piece)
  PROVE  Streamed(new, Append(evs, e), next)
  <1> USE DEF DeltaEvent, LongerReply, LongerPart
  <1>1. PICK u \in 0 .. Len(reply) : /\ Leading(reply, u) /\ Agrees(parts, reply, u)
                                     /\ u = Len(reply) => Heard(evs, parts)
    BY DEF Streamed
  <1>2. Leading(next, u) /\ Agrees(new, next, u)
    <2>1. Len(parts) = n + 1 /\ parts[n + 1].text = reply[n + 1].pieces
            => new[n + 1].text = next[n + 1].pieces
      OBVIOUS
    <2> QED BY <1>1, <2>1, AgreesLast, ZenonT(30)
  <1>3. ASSUME u = Len(next)
        PROVE  Heard(Append(evs, e), new)
    <2>1. Leading(reply, n + 1) /\ Agrees(parts, reply, n + 1) /\ Heard(evs, parts)
      BY <1>1, <1>3
    <2>2. /\ Len(parts) = n + 1 /\ parts[n + 1].kind = reply[n + 1].kind
          /\ parts[n + 1].text = reply[n + 1].pieces
      BY <2>1, AllKnown
    <2>3. reply[n + 1].kind \in Parts
      <3>1. n + 1 \in 1 .. n + 1
        OBVIOUS
      <3> QED BY <3>1, <2>1 DEF Leading
    <2>4. e.type = DeltaType[parts[n + 1].kind]
      BY <2>2, <2>3
    <2>5. /\ Len(new) = n + 1 /\ \A i \in 1 .. n : new[i] = parts[i]
          /\ new[n + 1].kind = parts[n + 1].kind
          /\ new[n + 1].text = Append(parts[n + 1].text, piece)
      BY <2>2
    <2> QED BY <2>1, <2>2, <2>4, <2>5, HeardDelta
  <1>4. u \in 0 .. Len(next)
    BY <1>1
  <1> QED BY <1>2, <1>3, <1>4 DEF Streamed

LEMMA StreamedStop ==
  ASSUME NEW parts \in Seq(Part), NEW evs, NEW reply \in Seq(Block),
         Streamed(parts, evs, reply), NEW n \in Nat, Len(reply) = n + 1,
         NEW next \in Seq(Block), Len(next) = n + 1, \A i \in 1 .. n : next[i] = reply[i],
         next[n + 1].kind = reply[n + 1].kind,
         next[n + 1].pieces = reply[n + 1].pieces
  PROVE  Streamed(parts, evs, next)
  <1>1. PICK u \in 0 .. Len(reply) : /\ Leading(reply, u) /\ Agrees(parts, reply, u)
                                     /\ u = Len(reply) => Heard(evs, parts)
    BY DEF Streamed
  <1>2. Leading(next, u) /\ Agrees(parts, next, u)
    BY <1>1, AgreesLast
  <1>3. u \in 0 .. Len(next) /\ (u = Len(next) => Heard(evs, parts))
    BY <1>1
  <1> QED BY <1>2, <1>3 DEF Streamed

-----------------------------------------------------------------------------
LEMMA RequestStreamed ==
  ASSUME IInv, StreamInv, RequestFails \/ RequestAnswered \/ EndOfBody
  PROVE  StreamInv'
  <1>1. CASE RequestAnswered
    BY <1>1, StreamedStutter DEF RequestAnswered
  <1>2. CASE RequestFails \/ EndOfBody
    <2>1. PICK e \in Events : /\ e.type \notin DeltaTypes /\ events' = Append(events, e)
      BY <1>2 DEF RequestFails, EndOfBody, Yield, Event, Events, FinalTypes, DeltaTypes
    <2> QED BY <1>2, <2>1, QuietStep DEF RequestFails, EndOfBody
  <1> QED BY <1>1, <1>2

LEMMA ReadFailsStreamed ==
  ASSUME IInv, StreamInv, ReadFails
  PROVE  StreamInv'
  <1>1. PICK e1 \in Events, e2 \in Events :
          /\ e1.type \notin DeltaTypes /\ e2.type \notin DeltaTypes
          /\ events' = events \o <<e1, e2>>
    BY DEF ReadFails, Event, Events, FinalTypes, DeltaTypes
  <1>2. events \in Seq(Events) /\ Append(events, e1) \in Seq(Events)
    BY DEF IInv, ConsumerInv
  <1>3. events' = Append(Append(events, e1), e2)
    BY <1>1, <1>2
  <1>4. Streamed(content, Append(events, e1), blocks)
    BY <1>1, <1>2, StreamedQuiet DEF StreamInv
  <1>5. Streamed(content, Append(Append(events, e1), e2), blocks)
    BY <1>1, <1>2, <1>4, StreamedQuiet
  <1>6. UNCHANGED <<content, blocks>>
    BY DEF ReadFails
  <1> QED BY <1>3, <1>5, <1>6 DEF StreamInv

\* The event of a step that starts or stops a block, if it has one.
LEMMA StreamedSilent ==
  ASSUME NEW parts, NEW reply, IInv, Streamed(parts, events, reply),
         NEW e \in Events, e.type \notin DeltaTypes, Yield(e, "reading") \/ Silent
  PROVE  Streamed(parts, events', reply)
  <1>1. events \in Seq(Events)
    BY DEF IInv, ConsumerInv
  <1>2. CASE Silent
    BY <1>2 DEF Silent
  <1>3. CASE Yield(e, "reading")
    <2>1. events' = Append(events, e)
      BY <1>3 DEF Yield
    <2> QED BY <2>1, <1>1, StreamedQuiet
  <1> QED BY <1>2, <1>3

LEMMA BlockStartStreamed ==
  ASSUME IInv, StreamInv, NEW kind \in Blocks, BlockStart(kind)
  PROVE  StreamInv'
  <1> DEFINE b == [kind |-> kind, pieces |-> <<>>, open |-> TRUE]
             e == Event("tool_call_start", NoDelta)
  <1>1. b \in Block /\ b.pieces = <<>> /\ b.kind = kind
    BY DEF Block
  <1>2. e \in Events /\ e.type \notin DeltaTypes
    BY DEF Event, Events, MoreTypes, DeltaTypes
  <1>3. /\ blocks' = Append(blocks, b)
        /\ content' = IF kind \in Parts THEN Append(content, [kind |-> kind, text |-> <<>>])
                                        ELSE content
        /\ Yield(e, "reading") \/ Silent
    BY DEF BlockStart
  <1> HIDE DEF b, e
  <1>4. blocks \in Seq(Block) /\ content \in Seq(Part) /\ events \in Seq(Events)
    BY DEF IInv, ReplyInv, ConsumerInv
  <1>5. PICK longer, p : /\ longer = content'
                         /\ p = [kind |-> kind, text |-> <<>>]
    OBVIOUS
  <1>6. /\ b.kind \in Parts => p \in Part /\ p.kind = b.kind /\ p.text = <<>>
        /\ longer = IF b.kind \in Parts THEN Append(content, p) ELSE content
    BY <1>1, <1>3, <1>5 DEF Part
  <1>7. Streamed(longer, events, Append(blocks, b))
    BY <1>1, <1>4, <1>6, StreamedStart DEF StreamInv
  <1>8. Streamed(longer, events', Append(blocks, b))
    BY <1>2, <1>3, <1>7, StreamedSilent
  <1> QED BY <1>3, <1>5, <1>8 DEF StreamInv

LEMMA DeltaStreamed ==
  ASSUME IInv, StreamInv,
         NEW type \in {"text_delta", "thinking_delta", "tool_call_delta"}, Delta(type)
  PROVE  StreamInv'
  <1>1. blocks \in Seq(Block) /\ content \in Seq(Part) /\ events \in Seq(Events)
    BY DEF IInv, ReplyInv, ConsumerInv
  <1>2. blocks # <<>>
    BY DEF Delta, Open
  <1>3. PICK n \in Nat : Len(blocks) = n + 1
    <2>1. Len(blocks) \in Nat /\ Len(blocks) # 0
      BY <1>1, <1>2
    <2>2. Len(blocks) - 1 \in Nat /\ Len(blocks) = (Len(blocks) - 1) + 1
      BY <2>1
    <2> QED BY <2>2
  <1>4. PICK old \in Block : old = blocks[n + 1]
    BY <1>1, <1>3
  <1>5. PICK piece \in Piece :
          /\ piece = <<Current, Len(old.pieces) + 1>>
          /\ Len(old.pieces) < MaxPieces
          /\ old.kind \in Parts => type = DeltaType[old.kind]
          /\ blocks' = [blocks EXCEPT ![n + 1].pieces = Append(@, piece)]
          /\ content' = Extended(n + 1, piece)
          /\ Yield(Event(type, piece), "reading")
    <2> DEFINE piece == <<Current, Len(old.pieces) + 1>>
    <2>1. /\ Len(old.pieces) < MaxPieces
          /\ old.kind \in Parts => type = DeltaType[old.kind]
          /\ blocks' = [blocks EXCEPT ![n + 1].pieces = Append(@, piece)]
          /\ content' = Extended(n + 1, piece)
          /\ Yield(Event(type, piece), "reading")
      BY <1>3, <1>4 DEF Delta, Current, Parts
    <2>2. n + 1 \in 1 .. MaxBlocks
      BY <1>1, <1>3, BoundsAssumption DEF IInv, ReplyInv
    <2>3. Len(old.pieces) + 1 \in 1 .. MaxPieces
      BY <1>4, <2>1, BoundsAssumption DEF Block
    <2>4. piece \in Piece
      BY <2>2, <2>3, <1>3 DEF Piece, Current
    <2> HIDE DEF piece
    <2> QED BY <2>1, <2>4 DEF piece
  <1>6. PICK b \in Block : b = [old EXCEPT !.pieces = Append(@, piece)]
    <2>1. PICK longer \in Seq(Piece) : longer = Append(old.pieces, piece)
      <3>1. old.pieces \in Seq(Piece)
        BY <1>4 DEF Block
      <3>2. Append(old.pieces, piece) \in Seq(Piece)
        BY <3>1
      <3> QED BY <3>2
    <2>2. [old EXCEPT !.pieces = longer] \in Block
      BY <2>1 DEF Block
    <2> QED BY <2>1, <2>2
  <1>7. b.kind = old.kind /\ b.pieces = Append(old.pieces, piece)
    BY <1>6 DEF Block
  <1>8. PICK next \in Seq(Block) :
          /\ next = blocks' /\ Len(next) = n + 1 /\ next[n + 1] = b
          /\ \A i \in 1 .. n : next[i] = blocks[i]
    <2> DEFINE next == [blocks EXCEPT ![n + 1] = b]
    <2>1. blocks' = next
      BY <1>4, <1>5, <1>6
    <2>2. /\ next \in Seq(Block) /\ Len(next) = n + 1 /\ next[n + 1] = b
          /\ \A i \in 1 .. n : next[i] = blocks[i]
      BY <1>1, <1>3, <1>6
    <2> HIDE DEF next
    <2> QED BY <2>1, <2>2
  <1>9. PICK new \in Seq(Part) :
          /\ new = content' /\ Len(new) = Len(content)
          /\ \A i \in 1 .. Len(content) : new[i].kind = content[i].kind
          /\ \A i \in 1 .. Len(content) : i # n + 1 => new[i] = content[i]
          /\ n + 1 <= Len(content) => new[n + 1].text = Append(content[n + 1].text, piece)
    <2>1. CASE n + 1 <= Len(content)
      <3>1. PICK was \in Part : was = content[n + 1]
        BY <1>1, <2>1
      <3>2. PICK text \in Seq(Piece) : text = Append(was.text, piece)
        <4>1. was.text \in Seq(Piece)
          BY <3>1 DEF Part
        <4>2. Append(was.text, piece) \in Seq(Piece)
          BY <4>1
        <4> QED BY <4>2
      <3>3. PICK p \in Part : p = [was EXCEPT !.text = text]
        BY <3>1, <3>2 DEF Part
      <3>4. p.kind = was.kind /\ p.text = text
        BY <3>3 DEF Part
      <3>5. content' = [content EXCEPT ![n + 1] = p]
        BY <1>5, <2>1, <3>1, <3>2, <3>3 DEF Extended
      <3>6. PICK new \in Seq(Part) : new = [content EXCEPT ![n + 1] = p]
        <4>1. [content EXCEPT ![n + 1] = p] \in Seq(Part)
          BY <1>1, <2>1, <3>3
        <4> QED BY <4>1
      <3>7. /\ Len(new) = Len(content) /\ new[n + 1] = p
            /\ \A i \in 1 .. Len(content) : i # n + 1 => new[i] = content[i]
        BY <1>1, <2>1, <3>6
      <3>8. \A i \in 1 .. Len(content) : new[i].kind = content[i].kind
        BY <3>1, <3>4, <3>7
      <3> QED BY <3>1, <3>2, <3>4, <3>5, <3>6, <3>7, <3>8
    <2>2. CASE ~(n + 1 <= Len(content))
      <3>1. content' = content
        BY <1>5, <2>2 DEF Extended
      <3> QED BY <3>1, <1>1, <2>2
    <2> QED BY <2>1, <2>2
  <1>10. PICK e \in Events : /\ e = Event(type, piece) /\ e.delta = piece /\ e.type = type
                             /\ events' = Append(events, e)
    BY <1>5 DEF Yield, Event, Events, MoreTypes
  <1>11. Streamed(new, Append(events, e), next)
    <2>1. blocks[n + 1].kind \in Parts => e.type = DeltaType[blocks[n + 1].kind]
      BY <1>4, <1>5, <1>10
    <2>2. next[n + 1].kind = blocks[n + 1].kind
      BY <1>4, <1>7, <1>8
    <2>3. next[n + 1].pieces = Append(blocks[n + 1].pieces, piece)
      BY <1>4, <1>7, <1>8
    <2>4. Streamed(content, events, blocks)
      BY DEF StreamInv
    <2>5. PICK parts \in Seq(Part), evs \in Seq(Events), reply \in Seq(Block) :
            parts = content /\ evs = events /\ reply = blocks
      BY <1>1
    <2>6. DeltaEvent(e, reply, n, piece)
      BY <2>1, <2>5, <1>10 DEF DeltaEvent
    <2>7. LongerReply(next, reply, n, piece)
      BY <2>2, <2>3, <2>5, <1>3, <1>8 DEF LongerReply
    <2>8. LongerPart(new, parts, n, piece)
      BY <2>5, <1>9 DEF LongerPart
    <2>9. Streamed(new, Append(evs, e), next)
      BY <2>4, <2>5, <2>6, <2>7, <2>8, StreamedDelta
    <2> QED BY <2>5, <2>9
  <1> QED BY <1>8, <1>9, <1>10, <1>11 DEF StreamInv

LEMMA BlockStopStreamed ==
  ASSUME IInv, StreamInv, BlockStop
  PROVE  StreamInv'
  <1>1. blocks \in Seq(Block) /\ content \in Seq(Part)
    BY DEF IInv, ReplyInv
  <1>2. blocks # <<>>
    BY DEF BlockStop, Open
  <1>3. PICK n \in Nat : Len(blocks) = n + 1
    <2>1. Len(blocks) \in Nat /\ Len(blocks) # 0
      BY <1>1, <1>2
    <2>2. Len(blocks) - 1 \in Nat /\ Len(blocks) = (Len(blocks) - 1) + 1
      BY <2>1
    <2> QED BY <2>2
  <1>4. PICK old \in Block : old = blocks[n + 1]
    BY <1>1, <1>3
  <1>5. PICK b \in Block : /\ b = [old EXCEPT !.open = FALSE]
                           /\ b.kind = old.kind /\ b.pieces = old.pieces
    <2>1. [old EXCEPT !.open = FALSE] \in Block
      BY <1>4 DEF Block
    <2> QED BY <2>1 DEF Block
  <1>6. PICK next \in Seq(Block) :
          /\ next = blocks' /\ Len(next) = n + 1 /\ next[n + 1] = b
          /\ \A i \in 1 .. n : next[i] = blocks[i]
    <2> DEFINE next == [blocks EXCEPT ![n + 1] = b]
    <2>1. blocks' = next
      BY <1>3, <1>4, <1>5 DEF BlockStop, Current
    <2>2. /\ next \in Seq(Block) /\ Len(next) = n + 1 /\ next[n + 1] = b
          /\ \A i \in 1 .. n : next[i] = blocks[i]
      BY <1>1, <1>3, <1>5
    <2> HIDE DEF next
    <2> QED BY <2>1, <2>2
  <1>7. Streamed(content, events, next)
    <2>1. next[n + 1].kind = blocks[n + 1].kind /\ next[n + 1].pieces = blocks[n + 1].pieces
      BY <1>4, <1>5, <1>6
    <2>2. Streamed(content, events, blocks)
      BY DEF StreamInv
    <2> QED BY <2>1, <2>2, <1>1, <1>3, <1>6, StreamedStop
  <1>8. Streamed(content, events', next)
    <2> DEFINE e == Event("tool_call_end", NoDelta)
    <2>1. e \in Events /\ e.type \notin DeltaTypes
      BY DEF Event, Events, MoreTypes, DeltaTypes
    <2>2. Yield(e, "reading") \/ Silent
      BY DEF BlockStop
    <2> HIDE DEF e
    <2> QED BY <1>7, <2>1, <2>2, StreamedSilent
  <1>9. content' = content
    BY DEF BlockStop
  <1> QED BY <1>6, <1>8, <1>9 DEF StreamInv

LEMMA NextStreamed == IInv /\ StreamInv /\ [Next]_vars => StreamInv'
  <1> SUFFICES ASSUME IInv, StreamInv, [Next]_vars PROVE StreamInv'
    OBVIOUS
  <1>1. CASE UNCHANGED vars
    BY <1>1, StreamedStutter DEF vars
  <1>2. ASSUME NEW r \in Reasons, MessageDelta(r)
        PROVE  StreamInv'
    BY <1>2, StreamedStutter DEF MessageDelta, Silent
  <1>3. CASE Next
    BY <1>2, <1>3, RequestStreamed, BlockStartStreamed, DeltaStreamed, BlockStopStreamed,
       ReadFailsStreamed DEF Next
  <1> QED BY <1>1, <1>3

LEMMA StreamInvariance == Spec => [](IInv /\ StreamInv)
  BY InitIInv, InitStreamed, NextIInv, NextStreamed, PTL DEF Spec

-----------------------------------------------------------------------------
\* Known ends where the leading blocks do.
LEMMA KnownIsLeading ==
  ASSUME blocks \in Seq(Block), NEW u \in 0 .. Len(blocks), Leading(blocks, u)
  PROVE  /\ \A i \in Nat : i > Len(Known) <=> i > u
         /\ Known = blocks => u = Len(blocks)
  <1> DEFINE odd == {i \in DOMAIN blocks : blocks[i].kind = "other"}
  <1>1. PICK n \in Nat : n = Len(blocks) /\ DOMAIN blocks = 1 .. n
    OBVIOUS
  <1>2. \A i \in 1 .. n : blocks[i].kind = "other" <=> blocks[i].kind \notin Parts
    <2>1. \A i \in 1 .. n : blocks[i].kind \in Blocks
      <3>1. \A i \in 1 .. n : blocks[i] \in Block
        BY <1>1
      <3> QED BY <3>1 DEF Block
    <2> QED BY <2>1 DEF Blocks, Parts
  <1>3. CASE u = n
    <2>1. odd = {}
      BY <1>1, <1>2, <1>3 DEF Leading
    <2>2. Known = blocks
      BY <2>1 DEF Known
    <2> QED BY <2>2, <1>1, <1>3
  <1>4. CASE u # n
    <2>1. u + 1 \in odd /\ \A j \in odd : u + 1 <= j
      <3>1. u + 1 \in 1 .. n /\ blocks[u + 1].kind \notin Parts
        BY <1>1, <1>4 DEF Leading
      <3>2. ASSUME NEW j \in odd
            PROVE  u + 1 <= j
        <4>1. j \in 1 .. n /\ blocks[j].kind \notin Parts
          BY <1>1, <1>2
        <4>2. j \notin 1 .. u
          BY <4>1 DEF Leading
        <4> QED BY <4>1, <4>2, <1>1
      <3> QED BY <3>1, <3>2, <1>1, <1>2
    <2>2. PICK m : m = CHOOSE i \in odd : \A j \in odd : i <= j
      OBVIOUS
    <2>3. m \in odd /\ \A j \in odd : m <= j
      BY <2>1, <2>2, Zenon
    <2>4. odd # {} /\ odd \subseteq 1 .. n
      BY <2>1, <1>1
    <2>5. Known = SubSeq(blocks, 1, m - 1)
      BY <2>2, <2>4 DEF Known
    <2> HIDE DEF odd
    <2>6. m = u + 1
      BY <2>1, <2>3, <2>4
    <2>7. Len(Known) = u
      BY <2>5, <2>6, <1>1
    <2> QED BY <2>7, <1>1, <1>4
  <1> QED BY <1>3, <1>4

\* The response put together from the stream is, part by part, what Send makes
\* of the same blocks, up to the first block of an unknown kind; the parts
\* after it are empty, and so is the input of a call without arguments.
THEOREM AgreesWithSend == Spec => []StreamAgreesWithSend
  <1>1. IInv /\ StreamInv => StreamAgreesWithSend
    <2> SUFFICES ASSUME IInv, StreamInv PROVE StreamAgreesWithSend
      OBVIOUS
    <2>1. PICK u \in 0 .. Len(blocks) : Leading(blocks, u) /\ Agrees(content, blocks, u)
      BY DEF StreamInv, Streamed
    <2>2. blocks \in Seq(Block) /\ content \in Seq(Part)
      BY DEF IInv, ReplyInv
    <2>3. DOMAIN content = 1 .. Len(content) /\ \A i \in DOMAIN content : i \in Nat
      BY <2>2
    <2>4. \A i \in Nat : i > Len(Known) <=> i > u
      BY <2>1, <2>2, KnownIsLeading
    <2> QED BY <2>1, <2>3, <2>4, Zenon DEF StreamAgreesWithSend, Agrees
  <1> QED BY <1>1, StreamInvariance, PTL

\* While all blocks are of a known kind, the deltas told so far and the texts
\* of the response are the same, kind by kind and in the same order.
THEOREM EventsTellAll == Spec => []EventsTellResponse
  <1>1. IInv /\ StreamInv => EventsTellResponse
    <2> SUFFICES ASSUME IInv, StreamInv PROVE EventsTellResponse
      OBVIOUS
    <2>1. PICK u \in 0 .. Len(blocks) :
            Leading(blocks, u) /\ (u = Len(blocks) => Heard(events, content))
      BY DEF StreamInv, Streamed
    <2>2. Known = blocks => Heard(events, content)
      BY <2>1, KnownIsLeading DEF IInv, ReplyInv
    <2> QED BY <2>2 DEF EventsTellResponse, Heard, Told, Deltas, Texts
  <1> QED BY <1>1, StreamInvariance, PTL
=============================================================================
