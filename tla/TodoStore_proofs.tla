--------------------------- MODULE TodoStore_proofs ---------------------------
(***************************************************************************)
(* Safety of the todo tools for every number of agents and items, with     *)
(* stale copies, failing saves and agents that die.                        *)
(*                                                                         *)
(* Every copy of the list, on disk and in an agent, is good: IDs rise and  *)
(* have been given out, open items have rising positions.  A call only     *)
(* loads a copy, changes it by one operator and writes it, so each         *)
(* operator has a lemma that its result is good; interleaving never matters.*)
(* What the calls told their callers (Serial) is followed as long as calls *)
(* do not overlap.                                                         *)
(*                                                                         *)
(* Cleared is computed item by item: that it returns the open items, in    *)
(* their order, is proved by induction over the number of items, which a   *)
(* least counterexample stands for.                                        *)
(***************************************************************************)
EXTENDS TodoStore, WellFoundedInduction, TLAPS

\* n: the IDs given out.
GoodFor(n, s) ==
  /\ s \in Seq(Item) /\ Ordered(s)
  /\ \A i \in DOMAIN s : s[i].id \in 1 .. n

IInv ==
  /\ TypeOK
  /\ GoodFor(adds, file.items)
  /\ \A a \in Agents : GoodFor(adds, copy[a])

\* The list s says of every ID what l does.
Says(l, s) ==
  \A i \in Ids :
    IF l[i] = "none" THEN \A k \in DOMAIN s : s[k].id # i
                     ELSE \E k \in DOMAIN s : s[k].id = i /\ s[k].status = l[i]

Serial ==
  ~disturbed =>
    /\ \A a, b \in Agents : pc[a] # "idle" /\ pc[b] # "idle" => a = b
    /\ \A a \in Agents : pc[a] = "write" => file.kind = "empty"
    /\ (\A a \in Agents : pc[a] = "idle") => Says(ledger, file.items)
    /\ \A a \in Agents : pc[a] # "idle" => Says(Told(call[a]), copy[a])

-----------------------------------------------------------------------------
(* Induction over the natural numbers.                                     *)

LEMMA Least ==
  ASSUME NEW T \in SUBSET Nat, T # {}
  PROVE  \E x \in T : \A y \in T : x <= y
  <1> DEFINE R == OpToRel(<, Nat)
  <1>1. IsWellFoundedOn(R, Nat)
    BY NatLessThanWellFounded
  <1>2. \A x, y \in Nat : <<y, x>> \in R <=> y < x
    BY DEF OpToRel
  <1> HIDE DEF R
  <1>3. PICK x \in T : \A y \in T : ~(<<y, x>> \in R)
    BY <1>1, WFMin
  <1>4. ASSUME NEW y \in T PROVE x <= y
    <2>1. ~(y < x) /\ x \in Nat /\ y \in Nat
      BY <1>2, <1>3
    <2> QED BY <2>1
  <1> QED BY <1>4

LEMMA Induction ==
  ASSUME NEW S, 0 \in S, \A n \in Nat : n \in S => n + 1 \in S
  PROVE  Nat \subseteq S
  <1> SUFFICES ASSUME Nat \ S # {} PROVE FALSE
    OBVIOUS
  <1>1. PICK x \in Nat \ S : \A y \in Nat \ S : x <= y
    BY Least
  <1>2. x - 1 \in Nat /\ x - 1 \notin Nat \ S
    BY <1>1
  <1> QED BY <1>1, <1>2

\* A set of positions has a first and a last one.
LEMMA FirstAndLast ==
  ASSUME NEW n \in Nat, NEW T \in SUBSET (1 .. n), T # {}
  PROVE  /\ \E x \in T : \A y \in T : x <= y
         /\ \E x \in T : \A y \in T : y <= x
  <1>1. T \in SUBSET Nat
    OBVIOUS
  <1>2. \E x \in T : \A y \in T : x <= y
    BY <1>1, Least
  <1> DEFINE U == {n - x : x \in T}
  <1>3. U \in SUBSET Nat /\ U # {}
    <2>1. \A x \in T : x \in Nat /\ n - x \in Nat
      OBVIOUS
    <2>2. PICK x \in T : n - x \in U
      OBVIOUS
    <2> QED BY <2>1, <2>2
  <1>4. PICK u \in U : \A v \in U : u <= v
    BY <1>3, Least
  <1>5. PICK x \in T : u = n - x
    OBVIOUS
  <1>6. ASSUME NEW y \in T PROVE y <= x
    <2>1. n - x <= n - y
      BY <1>4, <1>5
    <2> QED BY <2>1
  <1> QED BY <1>2, <1>6

-----------------------------------------------------------------------------
(* The operators on lists.                                                 *)

Open(s) == {i \in DOMAIN s : s[i].status = "todo"}

LEMMA ItemFacts ==
  ASSUME NEW s \in Seq(Item), NEW i \in DOMAIN s
  PROVE  /\ i \in Nat /\ s[i] \in Item /\ s[i].id \in Nat /\ s[i].position \in Int
         /\ s[i].status \in {"todo", "done", "skipped"}
  <1>1. i \in Nat /\ s[i] \in Item
    OBVIOUS
  <1> QED BY <1>1 DEF Item

\* The new position is above those of the open items.
LEMMA NextPositionValue ==
  ASSUME NEW s \in Seq(Item), Ordered(s)
  PROVE  /\ NextPosition(s) \in Int
         /\ \A i \in Open(s) : s[i].position < NextPosition(s)
  <1>1. CASE Open(s) = {}
    BY <1>1 DEF NextPosition, Open
  <1>2. CASE Open(s) # {}
    <2> DEFINE P == {s[i].position : i \in Open(s)}
               Top(p) == \A i \in Open(s) : s[i].position <= p
    <2>1. Len(s) \in Nat /\ Open(s) \in SUBSET (1 .. Len(s))
      BY DEF Open
    <2>2. PICK x \in Open(s) : \A y \in Open(s) : y <= x
      BY <2>1, <1>2, FirstAndLast
    <2>3. ASSUME NEW y \in Open(s) PROVE s[y].position <= s[x].position
      <3>1. x \in DOMAIN s /\ y \in DOMAIN s /\ y <= x /\ x \in Nat /\ y \in Nat
            /\ s[x].status = "todo" /\ s[y].status = "todo"
        BY <2>1, <2>2 DEF Open
      <3>2. s[x].position \in Int /\ s[y].position \in Int
        BY <3>1, ItemFacts
      <3>3. y = x \/ s[y].position < s[x].position
        BY <3>1 DEF Ordered
      <3> QED BY <3>2, <3>3
    <2>4. s[x].position \in P /\ Top(s[x].position)
      BY <2>3
    <2>5. (CHOOSE p \in P : Top(p)) \in P /\ Top(CHOOSE p \in P : Top(p))
      <3> HIDE DEF Top, P
      <3> QED BY <2>4, Zenon
    <2>6. P \subseteq Int
      BY ItemFacts DEF Open
    <2>7. NextPosition(s) = (CHOOSE p \in P : Top(p)) + 1
      BY <1>2 DEF NextPosition, Open
    <2>8. PICK p \in Int : p = (CHOOSE q \in P : Top(q)) /\ Top(p)
      BY <2>5, <2>6
    <2>9. ASSUME NEW i \in Open(s) PROVE s[i].position < p + 1
      <3>1. s[i].position \in Int /\ s[i].position <= p
        BY <2>8, ItemFacts DEF Open
      <3> QED BY <3>1
    <2>10. NextPosition(s) = p + 1
      BY <2>7, <2>8
    <2>11. p + 1 \in Int
      OBVIOUS
    <2> QED BY <2>9, <2>10, <2>11
  <1> QED BY <1>1, <1>2

LEMMA AddItemGood ==
  ASSUME NEW n \in Nat, NEW s, GoodFor(n, s)
  PROVE  GoodFor(n + 1, AddItem(s, n + 1))
  <1> DEFINE x == [id |-> n + 1, status |-> "todo", position |-> NextPosition(s)]
             t == AddItem(s, n + 1)
             m == Len(s)
  <1>1. /\ s \in Seq(Item) /\ Ordered(s) /\ m \in Nat
        /\ \A i \in 1 .. m : s[i].id \in 1 .. n
    BY DEF GoodFor
  <1>2. /\ NextPosition(s) \in Int
        /\ \A i \in Open(s) : s[i].position < NextPosition(s)
    BY <1>1, NextPositionValue
  <1>3. x \in Item
    BY <1>2 DEF Item
  <1>4. /\ t \in Seq(Item) /\ Len(t) = m + 1 /\ t[m + 1] = x
        /\ \A i \in 1 .. m : t[i] = s[i]
    BY <1>1, <1>3 DEF AddItem
  <1>5. x.id = n + 1 /\ x.position = NextPosition(s)
    OBVIOUS
  <1> HIDE DEF x, t, m
  <1>6. DOMAIN t = 1 .. m + 1 /\ DOMAIN s = 1 .. m
    BY <1>1, <1>4 DEF m
  <1>7. \A i \in 1 .. m + 1 : i \in 1 .. m \/ i = m + 1
    BY <1>1
  <1>8. ASSUME NEW i \in 1 .. m + 1, NEW j \in 1 .. m + 1, i < j
        PROVE  /\ t[i].id < t[j].id
               /\ t[i].status = "todo" /\ t[j].status = "todo"
                    => t[i].position < t[j].position
    <2>1. i \in 1 .. m /\ t[i] = s[i]
      BY <1>1, <1>4, <1>8
    <2>2. CASE j \in 1 .. m
      BY <2>1, <2>2, <1>1, <1>4, <1>6, <1>8 DEF Ordered
    <2>3. CASE j = m + 1
      <3>1. t[j].id = n + 1 /\ t[i].id \in 1 .. n
        BY <2>1, <2>3, <1>1, <1>4, <1>5
      <3>2. t[i].status = "todo" => t[i].position < t[j].position
        BY <2>1, <2>3, <1>2, <1>4, <1>5, <1>6 DEF Open
      <3> QED BY <3>1, <3>2
    <2> QED BY <2>2, <2>3, <1>7
  <1>9. ASSUME NEW i \in 1 .. m + 1 PROVE t[i].id \in 1 .. n + 1
    <2>1. CASE i \in 1 .. m
      BY <2>1, <1>1, <1>4
    <2>2. CASE i = m + 1
      BY <2>2, <1>4, <1>5
    <2> QED BY <2>1, <2>2, <1>7
  <1>10. Ordered(t)
    BY <1>6, <1>8 DEF Ordered
  <1> QED BY <1>4, <1>6, <1>9, <1>10 DEF GoodFor, t

\* A status changes nothing else, and items only close.
Marked(s, i, st, t) ==
  /\ t \in Seq(Item) /\ DOMAIN t = DOMAIN s
  /\ \A j \in DOMAIN s :
       /\ t[j].id = s[j].id /\ t[j].position = s[j].position
       /\ t[j].status = IF j = i THEN st ELSE s[j].status

LEMMA WithStatusValue ==
  ASSUME NEW s \in Seq(Item), NEW i \in DOMAIN s, NEW st \in {"done", "skipped"}
  PROVE  Marked(s, i, st, WithStatus(s, i, st))
  <1>1. s[i] \in Item
    OBVIOUS
  <1> DEFINE x == [s[i] EXCEPT !.status = st]
  <1>2. x \in Item /\ x.id = s[i].id /\ x.position = s[i].position /\ x.status = st
    BY <1>1 DEF Item
  <1> HIDE DEF x
  <1>3. WithStatus(s, i, st) = [s EXCEPT ![i] = x]
    BY DEF WithStatus, x
  <1> QED BY <1>2, <1>3 DEF Marked

LEMMA WithStatusGood ==
  ASSUME NEW n \in Nat, NEW s, GoodFor(n, s),
         NEW i \in DOMAIN s, NEW st \in {"done", "skipped"}
  PROVE  GoodFor(n, WithStatus(s, i, st))
  <1> DEFINE t == WithStatus(s, i, st)
  <1>1. s \in Seq(Item) /\ st # "todo"
    BY DEF GoodFor
  <1>2. Marked(s, i, st, t)
    BY <1>1, WithStatusValue
  <1> HIDE DEF t
  <1>3. /\ t \in Seq(Item) /\ DOMAIN t = DOMAIN s
        /\ \A j \in DOMAIN s : t[j].id = s[j].id /\ t[j].position = s[j].position
    BY <1>2 DEF Marked
  <1>4. \A j \in DOMAIN s : t[j].status = "todo" => s[j].status = "todo"
    <2> SUFFICES ASSUME NEW j \in DOMAIN s PROVE t[j].status = "todo" => s[j].status = "todo"
      OBVIOUS
    <2>1. t[j].status = IF j = i THEN st ELSE s[j].status
      BY <1>2 DEF Marked
    <2> QED BY <1>1, <2>1
  <1>5. Ordered(t)
    BY <1>3, <1>4 DEF GoodFor, Ordered
  <1> QED BY <1>3, <1>5 DEF GoodFor, t

-----------------------------------------------------------------------------
(* Cleared, after i items.                                                 *)

Rec(s, kept, n) ==
  kept = [i \in 0 .. n |->
            IF i = 0 THEN <<>>
            ELSE IF Closed(s[i]) THEN kept[i - 1]
                                 ELSE Append(kept[i - 1], s[i])]

LEMMA RecExists ==
  ASSUME NEW s, NEW n \in Nat
  PROVE  \E kept : Rec(s, kept, n)
  <1> DEFINE S == {m \in Nat : \E kept : Rec(s, kept, m)}
  <1>1. 0 \in S
    <2> DEFINE k == [i \in 0 .. 0 |-> <<>>]
    <2>1. Rec(s, k, 0)
      BY DEF Rec
    <2> QED BY <2>1
  <1>2. ASSUME NEW m \in Nat, m \in S PROVE m + 1 \in S
    <2>1. PICK k : Rec(s, k, m)
      BY <1>2
    <2> DEFINE Item1(f, i) == IF i = 0 THEN <<>>
                              ELSE IF Closed(s[i]) THEN f[i - 1]
                                                   ELSE Append(f[i - 1], s[i])
               h == [i \in 0 .. m + 1 |-> IF i = m + 1 THEN Item1(k, i) ELSE k[i]]
    <2>2. ASSUME NEW i \in 0 .. m + 1 PROVE h[i] = Item1(h, i)
      <3>1. CASE i = m + 1
        BY <3>1
      <3>2. CASE i # m + 1
        <4>1. i \in 0 .. m /\ (i # 0 => i - 1 \in 0 .. m)
          BY <3>2
        <4>2. k[i] = Item1(k, i)
          BY <2>1, <4>1 DEF Rec
        <4> QED BY <3>2, <4>1, <4>2
      <3> QED BY <3>1, <3>2
    <2>3. Rec(s, h, m + 1)
      BY <2>2 DEF Rec
    <2> QED BY <2>3
  <1> HIDE DEF S
  <1>3. n \in S
    BY <1>1, <1>2, Induction
  <1> QED BY <1>3 DEF S

LEMMA ClearedRec ==
  ASSUME NEW s \in Seq(Item)
  PROVE  \E kept : Rec(s, kept, Len(s)) /\ Cleared(s) = kept[Len(s)]
  <1> DEFINE kept[i \in 0 .. Len(s)] ==
        IF i = 0 THEN <<>>
        ELSE IF Closed(s[i]) THEN kept[i - 1] ELSE Append(kept[i - 1], s[i])
      n == Len(s)
  <1>1. Cleared(s) = kept[n]
    BY DEF Cleared
  <1>2. kept = CHOOSE k : Rec(s, k, n)
    BY DEF Rec
  <1>3. n \in Nat
    OBVIOUS
  <1> HIDE DEF n, kept
  <1>4. \E k : Rec(s, k, n)
    BY <1>3, RecExists
  <1>5. Rec(s, CHOOSE k : Rec(s, k, n), n)
    BY <1>4, Zenon
  <1> QED BY <1>1, <1>2, <1>5 DEF n

\* t holds the open items among the first m of s, in their order; h tells
\* where they stood.
Kept(s, m, t, h) ==
  /\ t \in Seq(Item) /\ h \in [DOMAIN t -> 1 .. m]
  /\ \A k \in DOMAIN t : t[k] = s[h[k]] /\ ~Closed(t[k])
  /\ \A k, l \in DOMAIN t : k < l => h[k] < h[l]
  /\ \A i \in 1 .. m : ~Closed(s[i]) => \E k \in DOMAIN t : h[k] = i

LEMMA KeptStep ==
  ASSUME NEW s \in Seq(Item), NEW m \in Nat, m + 1 <= Len(s),
         NEW t, NEW h, Kept(s, m, t, h)
  PROVE  \E g : Kept(s, m + 1,
                     IF Closed(s[m + 1]) THEN t ELSE Append(t, s[m + 1]), g)
  <1>1. s[m + 1] \in Item
    OBVIOUS
  <1>2. 1 .. m \subseteq 1 .. m + 1 /\ \A i \in 1 .. m + 1 : i \in 1 .. m \/ i = m + 1
    OBVIOUS
  <1>3. CASE Closed(s[m + 1])
    <2>1. Kept(s, m + 1, t, h)
      BY <1>2, <1>3 DEF Kept
    <2> QED BY <2>1, <1>3
  <1>4. CASE ~Closed(s[m + 1])
    <2>1. PICK n \in Nat : n = Len(t) /\ t \in Seq(Item) /\ DOMAIN t = 1 .. n
      BY DEF Kept
    <2> DEFINE u == Append(t, s[m + 1])
               g == [k \in 1 .. n + 1 |-> IF k = n + 1 THEN m + 1 ELSE h[k]]
    <2>2. /\ u \in Seq(Item) /\ DOMAIN u = 1 .. n + 1 /\ u[n + 1] = s[m + 1]
          /\ \A k \in 1 .. n : u[k] = t[k]
      BY <1>1, <2>1
    <2>3. \A k \in 1 .. n + 1 : k \in 1 .. n \/ k = n + 1
      BY <2>1
    <2>4. /\ \A k \in 1 .. n : g[k] = h[k] /\ h[k] \in 1 .. m
          /\ g[n + 1] = m + 1 /\ n + 1 \in 1 .. n + 1
      BY <2>1 DEF Kept
    <2>5. g \in [DOMAIN u -> 1 .. m + 1]
      <3>1. \A k \in 1 .. n + 1 : (IF k = n + 1 THEN m + 1 ELSE h[k]) \in 1 .. m + 1
        <4>1. ASSUME NEW k \in 1 .. n + 1
              PROVE  (IF k = n + 1 THEN m + 1 ELSE h[k]) \in 1 .. m + 1
          <5>1. CASE k = n + 1
            BY <5>1
          <5>2. CASE k # n + 1
            BY <5>2, <1>2, <2>3, <2>4
          <5> QED BY <5>1, <5>2
        <4> QED BY <4>1
      <3>2. g \in [1 .. n + 1 -> 1 .. m + 1]
        BY <3>1
      <3> QED BY <2>2, <3>2
    <2> HIDE DEF u, g
    <2>6. \A k \in DOMAIN u : u[k] = s[g[k]] /\ ~Closed(u[k])
      BY <1>4, <2>1, <2>2, <2>3, <2>4 DEF Kept
    <2>7. ASSUME NEW k \in DOMAIN u, NEW l \in DOMAIN u, k < l PROVE g[k] < g[l]
      <3>1. k \in 1 .. n
        BY <2>7, <2>1, <2>2
      <3>2. CASE l \in 1 .. n
        BY <2>7, <3>1, <3>2, <2>1, <2>4 DEF Kept
      <3>3. CASE l = n + 1
        BY <3>1, <3>3, <2>4
      <3> QED BY <3>2, <3>3, <2>2, <2>3
    <2>8. ASSUME NEW i \in 1 .. m + 1, ~Closed(s[i]) PROVE \E k \in DOMAIN u : g[k] = i
      <3>1. CASE i \in 1 .. m
        <4>1. PICK k \in 1 .. n : h[k] = i
          BY <2>1, <2>8, <3>1 DEF Kept
        <4>2. k \in DOMAIN u
          BY <2>1, <2>2
        <4> QED BY <4>1, <4>2, <2>4
      <3>2. CASE i = m + 1
        BY <3>2, <2>2, <2>4
      <3> QED BY <3>1, <3>2, <1>2
    <2>9. Kept(s, m + 1, u, g)
      BY <2>2, <2>5, <2>6, <2>7, <2>8 DEF Kept
    <2> QED BY <2>9, <1>4 DEF u
  <1> QED BY <1>3, <1>4

\* todo-mgmt.clear keeps exactly the open items, in their order.
LEMMA ClearedKeeps ==
  ASSUME NEW s \in Seq(Item)
  PROVE  \E h : Kept(s, Len(s), Cleared(s), h)
  <1>0. PICK n \in Nat : n = Len(s)
    OBVIOUS
  <1>1. PICK kept : n = Len(s) /\ Rec(s, kept, n) /\ Cleared(s) = kept[n]
    BY <1>0, ClearedRec
  <1> DEFINE S == {m \in Nat : m <= n => \E h : Kept(s, m, kept[m], h)}
  <1>2. 0 \in S
    <2>1. kept[0] = <<>>
      BY <1>1 DEF Rec
    <2>2. Kept(s, 0, <<>>, <<>>)
      BY DEF Kept
    <2> QED BY <2>1, <2>2
  <1>3. ASSUME NEW m \in Nat, m \in S PROVE m + 1 \in S
    <2> SUFFICES ASSUME m + 1 <= n PROVE \E h : Kept(s, m + 1, kept[m + 1], h)
      OBVIOUS
    <2>1. PICK h : Kept(s, m, kept[m], h)
      BY <1>3
    <2>2. kept[m + 1] = IF Closed(s[m + 1]) THEN kept[m] ELSE Append(kept[m], s[m + 1])
      <3>1. m + 1 \in 0 .. n /\ m + 1 # 0 /\ (m + 1) - 1 = m
        BY <1>1
      <3>2. kept[m + 1] = IF m + 1 = 0 THEN <<>>
                          ELSE IF Closed(s[m + 1]) THEN kept[(m + 1) - 1]
                               ELSE Append(kept[(m + 1) - 1], s[m + 1])
        BY <1>1, <3>1 DEF Rec
      <3> QED BY <3>1, <3>2
    <2> QED BY <1>1, <2>1, <2>2, KeptStep
  <1> HIDE DEF S
  <1>4. n \in S
    BY <1>2, <1>3, Induction
  <1> QED BY <1>1, <1>4 DEF S

LEMMA ClearedGood ==
  ASSUME NEW n \in Nat, NEW s, GoodFor(n, s)
  PROVE  GoodFor(n, Cleared(s))
  <1> DEFINE t == Cleared(s)
  <1>1. s \in Seq(Item)
    BY DEF GoodFor
  <1>2. PICK h : Kept(s, Len(s), t, h)
    BY <1>1, ClearedKeeps
  <1> HIDE DEF t
  <1>3. /\ t \in Seq(Item)
        /\ \A k \in DOMAIN t : h[k] \in DOMAIN s /\ t[k] = s[h[k]]
        /\ \A k, l \in DOMAIN t : k < l => h[k] < h[l]
    BY <1>1, <1>2 DEF Kept
  <1>4. ASSUME NEW k \in DOMAIN t, NEW l \in DOMAIN t, k < l
        PROVE  /\ t[k].id < t[l].id
               /\ t[k].status = "todo" /\ t[l].status = "todo"
                    => t[k].position < t[l].position
    <2>1. /\ h[k] \in DOMAIN s /\ h[l] \in DOMAIN s /\ h[k] < h[l]
          /\ t[k] = s[h[k]] /\ t[l] = s[h[l]]
      BY <1>3, <1>4
    <2> QED BY <2>1 DEF Ordered, GoodFor
  <1>5. Ordered(t)
    BY <1>4 DEF Ordered
  <1> QED BY <1>3, <1>5 DEF GoodFor, t

LEMMA EmptyGood ==
  ASSUME NEW n \in Nat
  PROVE  GoodFor(n, <<>>)
  BY DEF GoodFor, Ordered

LEMMA GoodLater ==
  ASSUME NEW n \in Nat, NEW m \in Nat, n <= m, NEW s, GoodFor(n, s)
  PROVE  GoodFor(m, s)
  BY DEF GoodFor

-----------------------------------------------------------------------------
(* One lemma per action: it keeps IInv.                                    *)

LEMMA TypeFacts ==
  ASSUME TypeOK
  PROVE  /\ adds \in Nat /\ MaxAdds \in Nat /\ adds <= MaxAdds
         /\ NoLedger \in [Ids -> {"none", "todo", "done", "skipped"}]
  BY AddsAssumption DEF TypeOK, NoLedger

LEMMA BeginIInv ==
  ASSUME IInv, NEW a \in Agents, NEW kind \in Kinds, NEW id \in Nat, NEW items,
         NEW n \in 0 .. MaxAdds, adds' = n, adds <= n, GoodFor(n, items),
         Begin(a, kind, id, items)
  PROVE  IInv'
  <1>1. TypeOK /\ adds \in Nat /\ n \in Nat
    BY AddsAssumption, TypeFacts DEF IInv
  <1>2. /\ pc' = [pc EXCEPT ![a] = "open"] /\ copy' = [copy EXCEPT ![a] = items]
        /\ call' = [call EXCEPT ![a] = [kind |-> kind, id |-> id]]
        /\ disturbed' \in BOOLEAN /\ file' = file
        /\ ledger' = IF disturbed' THEN NoLedger ELSE ledger
    <2>1. disturbed' = (disturbed \/ \E b \in Agents : pc[b] # "idle")
      BY DEF Begin
    <2>2. disturbed' \in BOOLEAN
      BY <2>1
    <2> QED BY <2>2 DEF Begin
  <1>3. \A b \in Agents : copy'[b] = IF b = a THEN items ELSE copy[b]
    BY <1>1, <1>2 DEF TypeOK
  <1>4. GoodFor(n, file.items) /\ \A b \in Agents : GoodFor(n, copy[b])
    BY <1>1, GoodLater DEF IInv
  <1>5. GoodFor(n, file'.items) /\ \A b \in Agents : GoodFor(n, copy'[b])
    BY <1>2, <1>3, <1>4
  <1>6. TypeOK'
    <2>1. items \in Seq(Item) /\ [kind |-> kind, id |-> id] \in [kind : Kinds, id : Nat]
      BY DEF GoodFor
    <2>2. copy' \in [Agents -> Seq(Item)] /\ pc' \in [Agents -> {"idle", "open", "write"}]
          /\ call' \in [Agents -> [kind : Kinds, id : Nat] \cup {NoCall}]
      BY <1>1, <1>2, <2>1 DEF TypeOK
    <2>3. ledger' \in [Ids -> {"none", "todo", "done", "skipped"}]
      BY <1>1, <1>2, TypeFacts DEF TypeOK
    <2> QED BY <1>1, <1>2, <2>2, <2>3 DEF TypeOK
  <1> QED BY <1>5, <1>6 DEF IInv

LEMMA CallIInv ==
  ASSUME IInv, NEW a \in Agents,
         \/ Add(a) \/ Note(a) \/ Clear(a)
         \/ \E status \in {"done", "skipped"} : SetStatus(a, status)
  PROVE  IInv'
  <1>1. /\ adds \in Nat /\ adds \in 0 .. MaxAdds /\ adds <= adds
        /\ GoodFor(adds, file.items) /\ file.items \in Seq(Item)
    BY TypeFacts DEF IInv, GoodFor, TypeOK
  <1>2. {"add", "done", "skipped", "note", "clear"} \subseteq Kinds
    BY DEF Kinds
  <1>3. CASE Add(a)
    <2>1. PICK n \in Nat : n = adds + 1 /\ n \in 0 .. MaxAdds /\ adds' = n /\ adds <= n
      BY <1>1, <1>3, AddsAssumption DEF Add
    <2>2. Begin(a, "add", n, AddItem(file.items, n))
      BY <1>3, <2>1 DEF Add
    <2>3. GoodFor(n, AddItem(file.items, n))
      BY <1>1, <2>1, AddItemGood
    <2> QED BY <1>2, <2>1, <2>2, <2>3, BeginIInv
  <1>4. ASSUME NEW i \in DOMAIN file.items, adds' = adds,
               Begin(a, "note", file.items[i].id, file.items)
        PROVE  IInv'
    BY <1>1, <1>2, <1>4, BeginIInv, ItemFacts
  <1>5. CASE Clear(a)
    <2>1. GoodFor(adds, Cleared(file.items)) /\ 0 \in Nat
      BY <1>1, ClearedGood
    <2>2. Begin(a, "clear", 0, Cleared(file.items)) /\ adds' = adds
      BY <1>5 DEF Clear
    <2> QED BY <1>1, <1>2, <2>1, <2>2, BeginIInv
  <1>6. ASSUME NEW st \in {"done", "skipped"}, NEW i \in DOMAIN file.items, adds' = adds,
               Begin(a, st, file.items[i].id, WithStatus(file.items, i, st))
        PROVE  IInv'
    <2>1. GoodFor(adds, WithStatus(file.items, i, st))
      BY <1>1, WithStatusGood
    <2>2. st \in Kinds /\ file.items[i].id \in Nat
      BY <1>1, <1>2, ItemFacts
    <2> QED BY <1>1, <1>6, <2>1, <2>2, BeginIInv
  <1> QED BY <1>3, <1>4, <1>5, <1>6 DEF Note, SetStatus

\* A save writes the agent's copy or nothing that can be read.
LEMMA SaveIInv ==
  ASSUME IInv, NEW a \in Agents, Truncate(a) \/ Write(a) \/ SaveFails(a)
  PROVE  IInv'
  <1>1. TypeOK /\ adds \in Nat /\ adds' = adds
    BY TypeFacts DEF IInv, Truncate, Write, SaveFails, Return
  <1>2. <<>> \in Seq(Item) /\ GoodFor(adds, <<>>)
    BY <1>1, EmptyGood
  <1>3. /\ file' \in [kind : {"absent", "json", "empty", "garbage"}, items : Seq(Item)]
        /\ GoodFor(adds, file'.items)
    <2>1. \/ file' = file
          \/ \E kind \in {"empty", "garbage"} : file' = [kind |-> kind, items |-> <<>>]
          \/ file' = [kind |-> "json", items |-> copy[a]]
      BY DEF Truncate, Write, SaveFails
    <2>2. CASE file' = file
      BY <2>2, <1>1 DEF TypeOK, IInv
    <2>3. CASE \E kind \in {"empty", "garbage"} : file' = [kind |-> kind, items |-> <<>>]
      BY <2>3, <1>2
    <2>4. CASE file' = [kind |-> "json", items |-> copy[a]]
      BY <2>4, <1>1 DEF TypeOK, IInv
    <2> QED BY <2>1, <2>2, <2>3, <2>4
  <1>4. /\ copy' \in [Agents -> Seq(Item)]
        /\ \A b \in Agents : GoodFor(adds, copy'[b])
    <2>1. copy' = copy \/ copy' = [copy EXCEPT ![a] = <<>>]
      BY DEF Truncate, Write, SaveFails, Return
    <2>2. CASE copy' = copy
      BY <2>2, <1>1 DEF TypeOK, IInv
    <2>3. CASE copy' = [copy EXCEPT ![a] = <<>>]
      <3>1. copy' \in [Agents -> Seq(Item)]
        BY <2>3, <1>1, <1>2 DEF TypeOK
      <3>2. \A b \in Agents : copy'[b] = IF b = a THEN <<>> ELSE copy[b]
        BY <2>3, <1>1 DEF TypeOK
      <3> QED BY <3>1, <3>2, <1>2 DEF IInv
    <2> QED BY <2>1, <2>2, <2>3
  <1>5. pc' \in [Agents -> {"idle", "open", "write"}]
    BY <1>1 DEF TypeOK, Truncate, Write, SaveFails, Return
  <1>6. call' \in [Agents -> [kind : Kinds, id : Nat] \cup {NoCall}]
    BY <1>1 DEF TypeOK, Truncate, Write, SaveFails, Return
  <1>7. /\ disturbed' \in BOOLEAN
        /\ ledger' \in [Ids -> {"none", "todo", "done", "skipped"}]
    <2>1. CASE Truncate(a)
      BY <2>1, <1>1 DEF Truncate, TypeOK
    <2>2. CASE SaveFails(a)
      BY <2>2, <1>1, TypeFacts DEF SaveFails
    <2>3. CASE Write(a)
      <3>1. disturbed' = disturbed
            /\ ledger' = IF disturbed THEN NoLedger ELSE Told(call[a])
        BY <2>3 DEF Write, Record
      <3>2. Told(call[a]) \in [Ids -> {"none", "todo", "done", "skipped"}]
        <4>1. ASSUME NEW i \in Ids
              PROVE  Told(call[a])[i] \in {"none", "todo", "done", "skipped"}
          BY <1>1 DEF Told, TypeOK
        <4>2. Told(call[a]) = [i \in Ids |-> Told(call[a])[i]]
          BY DEF Told
        <4> QED BY <4>1, <4>2
      <3> QED BY <3>1, <3>2, <1>1, TypeFacts DEF TypeOK
    <2> QED BY <2>1, <2>2, <2>3
  <1>8. adds' \in 0 .. MaxAdds
    BY <1>1 DEF TypeOK
  <1> QED BY <1>1, <1>3, <1>4, <1>5, <1>6, <1>7, <1>8 DEF IInv, TypeOK

LEMMA InitIInv == Init => IInv
  <1> SUFFICES ASSUME Init PROVE IInv
    OBVIOUS
  <1>1. <<>> \in Seq(Item) /\ GoodFor(adds, <<>>) /\ 0 \in 0 .. MaxAdds
    BY EmptyGood, AddsAssumption DEF Init
  <1> QED BY <1>1 DEF Init, IInv, TypeOK

LEMMA Invariance == Spec => []IInv
  <1>1. IInv /\ [Next]_vars => IInv'
    <2> SUFFICES ASSUME IInv, [Next]_vars PROVE IInv'
      OBVIOUS
    <2>1. CASE UNCHANGED vars
      BY <2>1 DEF vars, IInv, TypeOK
    <2> QED BY <2>1, CallIInv, SaveIInv DEF Next
  <1> QED BY InitIInv, <1>1, PTL DEF Spec

\* The types of the todo tools' state.
THEOREM TypeCorrect == Spec => []TypeOK
  <1>1. IInv => TypeOK
    BY DEF IInv
  <1> QED BY Invariance, <1>1, PTL

\* AllOrdered for every number of agents and items: no copy of the list ever
\* has an ID twice or open items out of order.
THEOREM OrderedCopies == Spec => []AllOrdered
  <1>1. IInv => AllOrdered
    BY DEF IInv, GoodFor, AllOrdered, Copies
  <1> QED BY Invariance, <1>1, PTL

\* What next answers is the first open item, wherever its position lies.
LEMMA NextTodoValue ==
  ASSUME NEW s \in Seq(Item), Ordered(s), NEW x \in Open(s),
         \A y \in Open(s) : x <= y
  PROVE  NextTodo(s) = s[x].id
  <1> DEFINE First(i) == \A j \in Open(s) :
               \/ s[i].position < s[j].position
               \/ s[i].position = s[j].position /\ i <= j
  <1>1. \A i \in Open(s) : i \in DOMAIN s /\ i \in Nat /\ s[i].position \in Int
                           /\ s[i].status = "todo"
    BY ItemFacts DEF Open
  <1>2. ASSUME NEW j \in Open(s), j # x PROVE s[x].position < s[j].position
    <2>1. x < j
      BY <1>1, <1>2
    <2> QED BY <1>1, <2>1 DEF Ordered
  <1>3. First(x)
    <2>1. ASSUME NEW j \in Open(s)
          PROVE  \/ s[x].position < s[j].position
                 \/ s[x].position = s[j].position /\ x <= j
      BY <1>1, <1>2
    <2> QED BY <2>1
  <1>4. ASSUME NEW i \in Open(s), First(i) PROVE i = x
    <2>1. \/ s[i].position < s[x].position
          \/ s[i].position = s[x].position /\ i <= x
      BY <1>4
    <2> QED BY <1>1, <1>2, <2>1
  <1>5. NextTodo(s) = s[CHOOSE i \in Open(s) : First(i)].id
    BY <1>3 DEF NextTodo, Open
  <1> HIDE DEF First
  <1>6. (CHOOSE i \in Open(s) : First(i)) = x
    BY <1>3, <1>4
  <1> QED BY <1>5, <1>6

\* NextIsOldest for every number of agents and items, on every copy.
THEOREM OldestIsNext == Spec => []NextIsOldest
  <1>1. ASSUME NEW s \in Seq(Item), Ordered(s),
               NEW open, open = {s[i].id : i \in {j \in DOMAIN s : s[j].status = "todo"}},
               open # {}
        PROVE  /\ NextTodo(s) \in open
               /\ \A id \in open : NextTodo(s) <= id
    <2>1. Open(s) # {} /\ Open(s) \in SUBSET (1 .. Len(s)) /\ Len(s) \in Nat
          /\ open = {s[i].id : i \in Open(s)}
      BY <1>1 DEF Open
    <2>2. PICK x \in Open(s) : \A y \in Open(s) : x <= y
      BY <2>1, FirstAndLast
    <2>3. NextTodo(s) = s[x].id
      BY <1>1, <2>2, NextTodoValue
    <2>4. ASSUME NEW y \in Open(s) PROVE s[x].id <= s[y].id
      <3>1. x \in DOMAIN s /\ y \in DOMAIN s /\ x \in Nat /\ y \in Nat /\ x <= y
            /\ s[x].id \in Nat /\ s[y].id \in Nat
        BY <2>2, ItemFacts DEF Open
      <3>2. x = y \/ s[x].id < s[y].id
        BY <1>1, <3>1 DEF Ordered
      <3> QED BY <3>1, <3>2
    <2> QED BY <2>1, <2>3, <2>4
  <1>2. IInv => NextIsOldest
    <2> SUFFICES ASSUME IInv, NEW s \in Copies,
                        NEW open, open = {s[i].id : i \in {j \in DOMAIN s : s[j].status = "todo"}},
                        open # {}
                 PROVE  NextTodo(s) \in open /\ \A id \in open : NextTodo(s) <= id
      BY DEF NextIsOldest
    <2>1. s \in Seq(Item) /\ Ordered(s)
      BY DEF IInv, Copies, GoodFor
    <2> QED BY <1>1, <2>1
  <1> QED BY <1>2, Invariance, PTL

-----------------------------------------------------------------------------
(* What the calls told their callers.  What a call will have told when its *)
(* save returns, its copy already says.                                    *)

\* What c adds to what is known: Told, of a ledger.
LEMMA SaysAdd ==
  ASSUME NEW s, NEW n \in Nat, GoodFor(n, s), Says(ledger, s), n + 1 \in Ids
  PROVE  Says(Told([kind |-> "add", id |-> n + 1]), AddItem(s, n + 1))
  <1> DEFINE c == [kind |-> "add", id |-> n + 1]
             t == AddItem(s, n + 1)
             m == Len(s)
  <1>1. s \in Seq(Item) /\ m \in Nat
    BY DEF GoodFor
  <1>2. /\ DOMAIN t = 1 .. m + 1 /\ t[m + 1].id = n + 1 /\ t[m + 1].status = "todo"
        /\ \A k \in 1 .. m : t[k] = s[k]
        /\ DOMAIN s = 1 .. m
    BY <1>1 DEF AddItem
  <1>3. \A i \in Ids : Told(c)[i] = IF i = n + 1 THEN "todo" ELSE ledger[i]
    BY DEF Told
  <1>4. \A k \in 1 .. m + 1 : k \in 1 .. m \/ k = m + 1
    BY <1>1
  <1>5. m + 1 \in 1 .. m + 1 /\ 1 .. m \subseteq 1 .. m + 1
    BY <1>1
  <1> HIDE DEF t, c, m
  <1>6. ASSUME NEW i \in Ids
        PROVE  IF Told(c)[i] = "none" THEN \A k \in DOMAIN t : t[k].id # i
               ELSE \E k \in DOMAIN t : t[k].id = i /\ t[k].status = Told(c)[i]
    <2>1. CASE i = n + 1
      <3>1. Told(c)[i] = "todo"
        BY <1>3, <2>1
      <3> QED BY <1>2, <1>5, <2>1, <3>1
    <2>2. CASE i # n + 1
      <3>1. Told(c)[i] = ledger[i]
        BY <1>3, <2>2
      <3>2. CASE ledger[i] = "none"
        BY <3>1, <3>2, <2>2, <1>2, <1>4 DEF Says
      <3>3. CASE ledger[i] # "none"
        <4>1. PICK k \in 1 .. m : s[k].id = i /\ s[k].status = ledger[i]
          BY <3>3, <1>2 DEF Says
        <4> QED BY <4>1, <3>1, <3>3, <1>2, <1>5
      <3> QED BY <3>2, <3>3
    <2> QED BY <2>1, <2>2
  <1> QED BY <1>6 DEF Says, t, c

LEMMA SaysStatus ==
  ASSUME NEW s, NEW n \in Nat, GoodFor(n, s), Says(ledger, s),
         NEW x \in DOMAIN s, NEW st \in {"done", "skipped"}
  PROVE  Says(Told([kind |-> st, id |-> s[x].id]), WithStatus(s, x, st))
  <1> DEFINE c == [kind |-> st, id |-> s[x].id]
             t == WithStatus(s, x, st)
  <1>1. s \in Seq(Item)
    BY DEF GoodFor
  <1>2. Marked(s, x, st, t)
    BY <1>1, WithStatusValue
  <1>3. \A i \in Ids : Told(c)[i] = IF i = s[x].id THEN st ELSE ledger[i]
    BY DEF Told
  <1>4. st # "none"
    OBVIOUS
  <1> HIDE DEF t, c
  <1>5. ASSUME NEW i \in Ids
        PROVE  IF Told(c)[i] = "none" THEN \A k \in DOMAIN t : t[k].id # i
               ELSE \E k \in DOMAIN t : t[k].id = i /\ t[k].status = Told(c)[i]
    <2>1. CASE i = s[x].id
      <3>1. Told(c)[i] = st
        BY <1>3, <2>1
      <3>2. x \in DOMAIN t /\ t[x].id = i /\ t[x].status = st
        BY <1>2, <2>1 DEF Marked
      <3> QED BY <1>4, <3>1, <3>2
    <2>2. CASE i # s[x].id
      <3>1. Told(c)[i] = ledger[i]
        BY <1>3, <2>2
      <3>2. CASE ledger[i] = "none"
        BY <3>1, <3>2, <1>2 DEF Says, Marked
      <3>3. CASE ledger[i] # "none"
        <4>1. PICK k \in DOMAIN s : s[k].id = i /\ s[k].status = ledger[i]
          BY <3>3 DEF Says
        <4>2. k \in DOMAIN t /\ t[k].id = i /\ t[k].status = ledger[i]
          BY <4>1, <2>2, <1>2 DEF Marked
        <4> QED BY <4>2, <3>1, <3>3
      <3> QED BY <3>2, <3>3
    <2> QED BY <2>1, <2>2
  <1> QED BY <1>5 DEF Says, t, c

LEMMA SaysNote ==
  ASSUME NEW s, Says(ledger, s), NEW id
  PROVE  Says(Told([kind |-> "note", id |-> id]), s)
  <1>1. \A i \in Ids : Told([kind |-> "note", id |-> id])[i] = ledger[i]
    BY DEF Told
  <1> QED BY <1>1 DEF Says

\* Clear forgets the closed items and no other.
LEMMA SaysClear ==
  ASSUME TypeOK, NEW s, NEW n \in Nat, GoodFor(n, s), Says(ledger, s)
  PROVE  Says(Told([kind |-> "clear", id |-> 0]), Cleared(s))
  <1> DEFINE c == [kind |-> "clear", id |-> 0]
             t == Cleared(s)
  <1>1. s \in Seq(Item) /\ DOMAIN s = 1 .. Len(s)
    BY DEF GoodFor
  <1>2. PICK h : Kept(s, Len(s), t, h)
    BY <1>1, ClearedKeeps
  <1>3. \A i \in Ids : Told(c)[i] = IF ledger[i] \in {"done", "skipped"}
                                   THEN "none" ELSE ledger[i]
    BY DEF Told
  <1> HIDE DEF t, c
  <1>4. /\ \A k \in DOMAIN t : /\ h[k] \in DOMAIN s /\ t[k] = s[h[k]]
                               /\ t[k].status \notin {"done", "skipped"}
        /\ \A i \in DOMAIN s : s[i].status \notin {"done", "skipped"} =>
             \E k \in DOMAIN t : h[k] = i
    BY <1>1, <1>2 DEF Kept, Closed
  <1>5. ASSUME NEW i \in Ids
        PROVE  IF Told(c)[i] = "none" THEN \A k \in DOMAIN t : t[k].id # i
               ELSE \E k \in DOMAIN t : t[k].id = i /\ t[k].status = Told(c)[i]
    <2>1. CASE ledger[i] = "none"
      <3>1. Told(c)[i] = "none"
        BY <1>3, <2>1
      <3> QED BY <3>1, <2>1, <1>4 DEF Says
    <2>2. CASE ledger[i] \in {"done", "skipped"}
      <3>1. Told(c)[i] = "none"
        BY <1>3, <2>2
      <3>2. PICK x \in DOMAIN s : s[x].id = i /\ s[x].status = ledger[i]
        BY <2>2 DEF Says
      <3>3. ASSUME NEW k \in DOMAIN t, t[k].id = i PROVE FALSE
        <4>1. h[k] \in DOMAIN s /\ s[h[k]].id = s[x].id /\ h[k] # x
          BY <3>2, <3>3, <2>2, <1>4
        <4>2. h[k] \in Nat /\ x \in Nat /\ s[x].id \in Nat
          BY <4>1, <1>1, ItemFacts
        <4>3. s[h[k]].id < s[x].id \/ s[x].id < s[h[k]].id
          BY <4>1, <4>2 DEF GoodFor, Ordered
        <4> QED BY <4>1, <4>2, <4>3
      <3> QED BY <3>1, <3>3
    <2>3. CASE ledger[i] \notin {"none", "done", "skipped"}
      <3>1. Told(c)[i] = ledger[i]
        BY <1>3, <2>3
      <3>2. PICK x \in DOMAIN s : s[x].id = i /\ s[x].status = ledger[i]
        BY <2>3 DEF Says
      <3>3. PICK k \in DOMAIN t : h[k] = x
        BY <3>2, <2>3, <1>4
      <3>4. t[k].id = i /\ t[k].status = ledger[i]
        BY <3>2, <3>3, <1>4
      <3> QED BY <3>1, <3>3, <3>4, <2>3
    <2> QED BY <2>1, <2>2, <2>3
  <1> QED BY <1>5 DEF Says, t, c

\* A call that begins alone has a copy that says what it will have told.
LEMMA BeginSerial ==
  ASSUME TypeOK, Serial, NEW a \in Agents, NEW kind, NEW id, NEW items,
         Begin(a, kind, id, items),
         ~disturbed' => Says(Told([kind |-> kind, id |-> id]), items)
  PROVE  Serial'
  <1> SUFFICES ASSUME ~disturbed' PROVE Serial'
    BY DEF Serial
  <1>1. ~disturbed /\ \A b \in Agents : pc[b] = "idle"
    BY DEF Begin
  <1>2. /\ ledger' = ledger /\ pc'[a] = "open" /\ copy'[a] = items
        /\ call'[a] = [kind |-> kind, id |-> id]
        /\ \A b \in Agents : b # a => pc'[b] = "idle"
    BY <1>1 DEF Begin, TypeOK
  <1>3. \A c : Told(c)' = Told(c')
    BY <1>2 DEF Told
  <1> QED BY <1>1, <1>2, <1>3 DEF Serial

LEMMA CallSerial ==
  ASSUME IInv, Serial, NEW a \in Agents,
         \/ Add(a) \/ Note(a) \/ Clear(a)
         \/ \E status \in {"done", "skipped"} : SetStatus(a, status)
  PROVE  Serial'
  <1>1. TypeOK /\ adds \in Nat /\ GoodFor(adds, file.items)
    BY TypeFacts DEF IInv
  <1>2. ASSUME NEW kind, NEW id, NEW items, Begin(a, kind, id, items), ~disturbed'
        PROVE  Says(ledger, file.items)
    BY <1>2 DEF Begin, Serial
  <1>3. CASE Add(a)
    <2>1. PICK n \in Nat : n = adds + 1 /\ n \in Ids /\ adds' = n
      BY <1>1, <1>3, AddsAssumption DEF Add, Ids
    <2>2. Begin(a, "add", n, AddItem(file.items, n))
      BY <1>3, <2>1 DEF Add
    <2>3. ~disturbed' => Says(Told([kind |-> "add", id |-> n]), AddItem(file.items, n))
      BY <1>1, <1>2, <2>1, <2>2, SaysAdd
    <2> QED BY <1>1, <2>2, <2>3, BeginSerial
  <1>4. ASSUME NEW i \in DOMAIN file.items, Begin(a, "note", file.items[i].id, file.items)
        PROVE  Serial'
    BY <1>1, <1>2, <1>4, SaysNote, BeginSerial
  <1>5. CASE Clear(a)
    <2>1. Begin(a, "clear", 0, Cleared(file.items))
      BY <1>5 DEF Clear
    <2>2. ~disturbed' => Says(Told([kind |-> "clear", id |-> 0]), Cleared(file.items))
      BY <1>1, <1>2, <2>1, SaysClear
    <2> QED BY <1>1, <2>1, <2>2, BeginSerial
  <1>6. ASSUME NEW st \in {"done", "skipped"}, NEW i \in DOMAIN file.items,
               Begin(a, st, file.items[i].id, WithStatus(file.items, i, st))
        PROVE  Serial'
    <2>1. ~disturbed' => Says(Told([kind |-> st, id |-> file.items[i].id]),
                              WithStatus(file.items, i, st))
      BY <1>1, <1>2, <1>6, SaysStatus
    <2> QED BY <1>1, <1>6, <2>1, BeginSerial
  <1> QED BY <1>3, <1>4, <1>5, <1>6 DEF Note, SetStatus

LEMMA SaveSerial ==
  ASSUME IInv, Serial, NEW a \in Agents, Truncate(a) \/ Write(a) \/ SaveFails(a)
  PROVE  Serial'
  <1>1. CASE SaveFails(a)
    BY <1>1 DEF SaveFails, Serial
  <1>2. CASE Truncate(a)
    <2> SUFFICES ASSUME ~disturbed PROVE Serial'
      BY <1>2 DEF Truncate, Serial
    <2>1. /\ pc[a] # "idle" /\ pc'[a] = "write" /\ file'.kind = "empty"
          /\ \A b \in Agents : b # a => pc'[b] = pc[b] /\ pc[b] = "idle"
          /\ call' = call /\ copy' = copy /\ ledger' = ledger
      BY <1>2 DEF Truncate, Serial, IInv, TypeOK
    <2>2. \A c : Told(c)' = Told(c')
      BY <2>1 DEF Told
    <2>3. Says(Told(call[a]), copy[a])
      BY <2>1 DEF Serial
    <2> QED BY <2>1, <2>2, <2>3 DEF Serial
  <1>3. CASE Write(a)
    <2> SUFFICES ASSUME ~disturbed PROVE Serial'
      BY <1>3 DEF Write, Serial
    <2>1. /\ pc[a] = "write" /\ file' = [kind |-> "json", items |-> copy[a]]
          /\ ledger' = Told(call[a])
      BY <1>3 DEF Write, Record, Serial
    <2>2. \A b \in Agents : pc'[b] = "idle"
      BY <1>3, <2>1 DEF Write, Return, Serial, IInv, TypeOK
    <2>3. Says(ledger', file'.items)
      BY <2>1 DEF Serial
    <2>4. Says(ledger, file.items)'
      BY <2>3 DEF Says
    <2> QED BY <2>2, <2>4 DEF Serial
  <1> QED BY <1>1, <1>2, <1>3

\* SerialCallsExact for every number of agents and items: as long as no two
\* calls overlap and no save is hit, the file says what the calls told.
THEOREM SerialExact == Spec => []SerialCallsExact
  <1>1. Init => Serial
    BY DEF Init, Serial, Says
  <1>2. IInv /\ Serial /\ [Next]_vars => Serial'
    <2> SUFFICES ASSUME IInv, Serial, [Next]_vars PROVE Serial'
      OBVIOUS
    <2>1. CASE UNCHANGED vars
      <3>1. /\ file' = file /\ pc' = pc /\ copy' = copy /\ call' = call
            /\ ledger' = ledger /\ disturbed' = disturbed
        BY <2>1 DEF vars
      <3>2. \A c : Told(c)' = Told(c')
        BY <3>1 DEF Told
      <3> QED BY <3>1, <3>2 DEF Serial, Says
    <2> QED BY <2>1, CallSerial, SaveSerial DEF Next
  <1>3. Serial => SerialCallsExact
    BY DEF Serial, Says, SerialCallsExact
  <1> QED BY <1>1, <1>2, <1>3, Invariance, PTL DEF Spec
=============================================================================
