------------------------ MODULE ContextBuilder_proofs ------------------------
(***************************************************************************)
(* The budget of the system prompt, for every number and size of files and *)
(* every setting of the caps, also where the file cap exceeds the total.   *)
(*                                                                         *)
(* The loop reads a file only below the total cap, so what remains is      *)
(* positive, and a text is either within it or cut to it plus a marker;    *)
(* the second case fills the budget and ends the loop.                     *)
(***************************************************************************)
EXTENDS ContextBuilder, TLAPS

Names == {"identity", "files", "tools", "learnings", "summary"}

\* The sections a prompt may have.
Allowed ==
  {s \in [name : Names, size : Nat] :
     /\ s.name = "files" => s.size <= TotalCap + Marker
     /\ s.name = "learnings" => s.size <= LearningsCap + Marker}

TypeOK ==
  /\ size \in [Files -> Nat \cup {Unreadable}]
  /\ next \in Nat \ {0}
  /\ total \in Nat
  /\ parts \in [Files -> Part]
  /\ prompt \in Seq(Allowed)

IInv ==
  /\ TypeOK
  /\ total <= TotalCap + Marker
  /\ \A f \in Files : parts[f].size <= PerFileCap + 2 * Marker
  /\ NothingLostSilently

-----------------------------------------------------------------------------
\* What a cap makes of a text.
LEMMA CappedFacts ==
  ASSUME NEW part \in Part, NEW cap \in Nat
  PROVE  /\ Capped(part, cap) \in Part
         /\ Capped(part, cap).size <= cap + Marker
         /\ Capped(part, cap).size <= part.size + Marker
         /\ Capped(part, cap).cut \/ Capped(part, cap) = part
         /\ part.size > cap => Capped(part, cap).size = cap + Marker
         /\ part.size <= cap => Capped(part, cap) = part
  BY CapsAssumption DEF Capped, Part

\* What is taken of a file while the budget is not used up: within both caps,
\* whole or marked, and a cut has a reason.
LEMMA TakenFacts ==
  ASSUME NEW n \in Nat, total \in Nat, total < TotalCap
  PROVE  /\ Taken(n) \in Part
         /\ Taken(n).size <= PerFileCap + 2 * Marker
         /\ total + Taken(n).size <= TotalCap + Marker
         /\ Taken(n).cut \/ Taken(n).size = n
         /\ Taken(n).cut => n > PerFileCap \/ total + Taken(n).size >= TotalCap
  <1> DEFINE whole == [size |-> n, cut |-> FALSE]
             first == Capped(whole, PerFileCap)
             rest  == TotalCap - total
  <1>1. whole \in Part /\ whole.size = n /\ ~whole.cut /\ rest \in Nat
    BY CapsAssumption DEF Part
  <1>2. /\ first \in Part
        /\ first.size <= PerFileCap + Marker
        /\ first.cut \/ first = whole
        /\ n <= PerFileCap => first = whole
    BY <1>1, CappedFacts, CapsAssumption DEF Part
  <1>3. /\ Taken(n) = Capped(first, rest)
        /\ Taken(n) \in Part
        /\ Taken(n).size <= rest + Marker
        /\ Taken(n).size <= first.size + Marker
        /\ Taken(n).cut \/ Taken(n) = first
        /\ first.size > rest => Taken(n).size = rest + Marker
        /\ first.size <= rest => Taken(n) = first
    <2> HIDE DEF first, rest
    <2>1. Taken(n) = Capped(first, rest)
      BY DEF Taken, first, rest
    <2> QED BY <1>1, <1>2, <2>1, CappedFacts
  <1> HIDE DEF first, whole
  <1>4. first.size \in Nat /\ Taken(n).size \in Nat
    BY <1>2, <1>3 DEF Part
  <1>5. Taken(n).cut \/ Taken(n).size = n
    BY <1>1, <1>2, <1>3
  <1>6. Taken(n).cut => n > PerFileCap \/ total + Taken(n).size >= TotalCap
    <2>1. CASE first.size > rest
      BY <2>1, <1>3, <1>4, CapsAssumption
    <2>2. CASE first.size <= rest
      BY <2>2, <1>1, <1>2, <1>3, CapsAssumption
    <2> QED BY <2>1, <2>2, <1>4, <1>1
  <1> QED BY <1>2, <1>3, <1>4, <1>5, <1>6, CapsAssumption

\* The sections are put together from none and from single ones.
LEMMA EmptySection == <<>> \in Seq(Allowed)
  OBVIOUS

LEMMA OneSection ==
  ASSUME NEW name \in Names, NEW n \in Nat,
         [name |-> name, size |-> n] \in Allowed
  PROVE  Section(name, n) \in Seq(Allowed)
  <1> DEFINE s == [name |-> name, size |-> n]
  <1>1. s \in Allowed /\ Section(name, n) = <<s>>
    BY DEF Section
  <1> HIDE DEF s
  <1> QED BY <1>1

-----------------------------------------------------------------------------
LEMMA InitIInv == Init => IInv
  <1> SUFFICES ASSUME Init PROVE IInv
    OBVIOUS
  <1>1. Left \in Part /\ Left.size = 0 /\ ~Left.cut
    BY DEF Left, Part
  <1>2. parts \in [Files -> Part] /\ \A f \in Files : parts[f] = Left
    BY <1>1 DEF Init
  <1>3. TypeOK
    <2>1. size \in [Files -> Nat \cup {Unreadable}]
      BY SizesAssumption DEF Init
    <2>2. prompt \in Seq(Allowed)
      <3>1. prompt = <<>>
        BY DEF Init
      <3> QED BY <3>1, EmptySection
    <2>3. next \in Nat \ {0} /\ total \in Nat
      BY DEF Init
    <2> QED BY <1>2, <2>1, <2>2, <2>3 DEF TypeOK
  <1>4. NothingLostSilently
    BY <1>1, <1>2 DEF Init, NothingLostSilently, Files
  <1> QED BY <1>1, <1>2, <1>3, <1>4, CapsAssumption DEF Init, IInv

LEMMA SkipIInv ==
  ASSUME IInv, Skip
  PROVE  IInv'
  BY DEF IInv, TypeOK, Skip, More, NothingLostSilently, Files

LEMMA TakeIInv ==
  ASSUME IInv, Take
  PROVE  IInv'
  <1> DEFINE n == size[next]
             part == Taken(n)
  <1>1. next \in Files /\ n \in Nat /\ total \in Nat /\ total < TotalCap
    BY DEF IInv, TypeOK, Take, More
  <1>2. /\ part \in Part
        /\ part.size <= PerFileCap + 2 * Marker
        /\ total + part.size <= TotalCap + Marker
        /\ part.cut \/ part.size = n
        /\ part.cut => n > PerFileCap \/ total + part.size >= TotalCap
    BY <1>1, TakenFacts
  <1>3. /\ parts' = [parts EXCEPT ![next] = part]
        /\ total' = total + part.size
        /\ next' = next + 1
        /\ UNCHANGED <<size, prompt>>
    BY DEF Take
  <1> HIDE DEF part
  <1>4. part.size \in Nat /\ total' >= total
    BY <1>1, <1>2, <1>3 DEF Part
  <1>5. TypeOK'
    BY <1>1, <1>2, <1>3, <1>4 DEF IInv, TypeOK, Files
  <1>6. \A f \in Files : parts'[f] = IF f = next THEN part ELSE parts[f]
    BY <1>3 DEF IInv, TypeOK
  <1>7. \A f \in Files : parts'[f].size <= PerFileCap + 2 * Marker
    BY <1>2, <1>6 DEF IInv
  <1>8. NothingLostSilently'
    <2>1. ASSUME NEW f \in Files, f < next', size[f] # Unreadable
          PROVE  parts'[f].cut \/ parts'[f].size = size[f]
      <3>1. CASE f = next
        BY <3>1, <1>2, <1>6
      <3>2. CASE f # next
        <4>1. f < next
          BY <3>2, <2>1, <1>1, <1>3 DEF Files
        <4> QED BY <3>2, <4>1, <2>1, <1>6 DEF IInv, NothingLostSilently
      <3> QED BY <3>1, <3>2
    <2>2. ASSUME NEW f \in Files, parts'[f].cut
          PROVE  size[f] > PerFileCap \/ total' >= TotalCap
      <3>1. CASE f = next
        BY <3>1, <2>2, <1>2, <1>3, <1>6
      <3>2. CASE f # next
        BY <3>2, <2>2, <1>1, <1>4, <1>3, <1>6, CapsAssumption
           DEF IInv, NothingLostSilently
      <3> QED BY <3>1, <3>2
    <2>3. prompt # <<>> => FALSE
      BY <1>1, CapsAssumption DEF IInv, NothingLostSilently
    <2> QED BY <2>1, <2>2, <2>3, <1>3 DEF NothingLostSilently
  <1> QED BY <1>2, <1>3, <1>5, <1>7, <1>8 DEF IInv

\* Every section that is put together is an allowed one.
LEMMA AssembleIInv ==
  ASSUME IInv, NEW tools \in BOOLEAN, NEW summary \in BOOLEAN,
         NEW n \in Sizes \cup {0}, Assemble(tools, n, summary)
  PROVE  IInv'
  <1> DEFINE text == Capped([size |-> n, cut |-> FALSE], LearningsCap)
  <1>1. n \in Nat /\ [size |-> n, cut |-> FALSE] \in Part
    BY SizesAssumption DEF Part
  <1>2. text \in Part /\ text.size <= LearningsCap + Marker
    BY <1>1, CappedFacts, CapsAssumption
  <1> HIDE DEF text
  <1>3. text.size \in Nat /\ total \in Nat /\ total <= TotalCap + Marker
    BY <1>2 DEF Part, IInv, TypeOK
  <1>4. /\ Section("identity", 0) \in Seq(Allowed)
        /\ Section("tools", 0) \in Seq(Allowed)
        /\ Section("summary", 0) \in Seq(Allowed)
    <2>1. ASSUME NEW name \in {"identity", "tools", "summary"}
          PROVE  Section(name, 0) \in Seq(Allowed)
      <3>1. [name |-> name, size |-> 0] \in Allowed
        BY CapsAssumption DEF Allowed, Names
      <3> QED BY <3>1, OneSection DEF Names
    <2> QED BY <2>1
  <1>5. Section("files", total) \in Seq(Allowed)
    <2>1. [name |-> "files", size |-> total] \in Allowed
      BY <1>3 DEF Allowed, Names
    <2> QED BY <1>3, <2>1, OneSection DEF Names
  <1>6. Section("learnings", text.size) \in Seq(Allowed)
    <2>1. [name |-> "learnings", size |-> text.size] \in Allowed
      BY <1>2, <1>3 DEF Allowed, Names
    <2> QED BY <1>3, <2>1, OneSection DEF Names
  <1>7. <<>> \in Seq(Allowed)
    BY EmptySection
  <1>8. prompt' \in Seq(Allowed)
    <2> DEFINE taken == {f \in Files : f < next /\ size[f] # Unreadable}
               p1 == IF taken # {} THEN Section("files", total) ELSE <<>>
               p2 == IF tools THEN Section("tools", 0) ELSE <<>>
               p3 == IF n = 0 THEN <<>> ELSE Section("learnings", text.size)
               p4 == IF summary THEN Section("summary", 0) ELSE <<>>
    <2>1. prompt' = Section("identity", 0) \o p1 \o p2 \o p3 \o p4
      BY DEF Assemble, text
    <2>2. /\ p1 \in Seq(Allowed) /\ p2 \in Seq(Allowed)
          /\ p3 \in Seq(Allowed) /\ p4 \in Seq(Allowed)
      BY <1>4, <1>5, <1>6, <1>7
    <2> HIDE DEF p1, p2, p3, p4, taken
    <2> QED BY <2>1, <2>2, <1>4
  <1>9. UNCHANGED <<size, next, total, parts>> /\ ~More
    BY DEF Assemble
  <1>10. NothingLostSilently'
    BY <1>9, CapsAssumption DEF IInv, TypeOK, NothingLostSilently, More
  <1> QED BY <1>8, <1>9, <1>10 DEF IInv, TypeOK

LEMMA NextIInv == IInv /\ [Next]_vars => IInv'
  <1> SUFFICES ASSUME IInv, [Next]_vars PROVE IInv'
    OBVIOUS
  <1>1. CASE Skip
    BY <1>1, SkipIInv
  <1>2. CASE Take
    BY <1>2, TakeIInv
  <1>3. CASE \E tools, summary \in BOOLEAN, n \in Sizes \cup {0} :
               Assemble(tools, n, summary)
    BY <1>3, AssembleIInv
  <1>4. CASE UNCHANGED vars
    BY <1>4 DEF vars, IInv, TypeOK, NothingLostSilently
  <1> QED BY <1>1, <1>2, <1>3, <1>4 DEF Next

LEMMA IInvBudget == IInv => BudgetKept
  <1> SUFFICES ASSUME IInv PROVE BudgetKept
    OBVIOUS
  <1>1. ASSUME NEW s \in DOMAIN prompt PROVE prompt[s] \in Allowed
    BY DEF IInv, TypeOK
  <1>2. CapsKept
    BY <1>1 DEF IInv, CapsKept, Allowed
  <1> QED BY <1>2 DEF IInv, BudgetKept

\* However many files there are and however large, the caps hold but for the
\* markers, and nothing is left out or cut without one.
THEOREM BudgetAlwaysKept == Spec => []BudgetKept
  <1>1. Spec => []IInv
    BY InitIInv, NextIInv, PTL DEF Spec
  <1> QED BY <1>1, IInvBudget, PTL
=============================================================================
