-------------------------- MODULE SessionStore_proofs --------------------------
(***************************************************************************)
(* What is said under one session key never turns up under another, and    *)
(* what a chat saved stays, for every number of chats, names and messages. *)
(*                                                                         *)
(* A session goes from a file into the memory of a chat and back as a      *)
(* whole, and it is found by the key it carries; only its own chat         *)
(* appends to it, with a number that is new.  Clean says what this keeps   *)
(* of its messages.                                                        *)
(*                                                                         *)
(* For a file that is not mixed, KInv follows the history of its key from  *)
(* the file (Filed) into the one chat that uses it (InUse) and back: the   *)
(* messages there are always an end of what was kept and said since.       *)
(***************************************************************************)
EXTENDS SessionStore, SequenceTheorems, TLAPS

\* Messages of one key, in the order they were said, none of them twice, and
\* none of them numbered above n.
Clean(ms, key, n) ==
  /\ ms \in Seq(Message)
  /\ \A i \in 1 .. Len(ms) : ms[i][1] = key /\ ms[i][2] <= n
  /\ \A i, j \in 1 .. Len(ms) : i < j => ms[i][2] < ms[j][2]

Good(s, key) ==
  s # None => s \in Session /\ s.key = key /\ Clean(s.messages, key, said)

InMemory ==
  /\ mem \in [Chats -> [Keys -> Session \cup {None}]]
  /\ \A c \in Chats, k \in Keys : Good(mem[c][k], k)

OnDisk ==
  /\ disk \in [Files -> Session \cup {None}]
  /\ \A f \in Files :
       disk[f] # None => Sanitize(disk[f].key) = f /\ Good(disk[f], disk[f].key)

IInv ==
  /\ InMemory
  /\ OnDisk
  /\ pc \in [Chats -> {"off", "prompt", "run", "save"}]
  /\ own \in [Chats -> Keys \cup {NoKey}]
  /\ \A c \in Chats : Running(c) => own[c] \in Keys
  /\ said \in 0 .. MaxSaid

-----------------------------------------------------------------------------
LEMMA CleanGrows ==
  ASSUME NEW ms, NEW key, NEW n \in Nat, NEW m \in Nat, n <= m, Clean(ms, key, n)
  PROVE  Clean(ms, key, m)
  <1>1. \A i \in 1 .. Len(ms) : ms[i] \in Message
    BY DEF Clean
  <1>2. \A i \in 1 .. Len(ms) : ms[i][2] \in Nat
    BY <1>1 DEF Message
  <1> QED BY <1>2 DEF Clean

LEMMA CleanAppend ==
  ASSUME NEW key \in Keys, NEW n \in Nat, n < MaxSaid,
         NEW ms, Clean(ms, key, n)
  PROVE  Clean(Append(ms, <<key, n + 1>>), key, n + 1)
  <1> DEFINE new  == <<key, n + 1>>
             more == Append(ms, new)
  <1>1. new \in Message /\ new[1] = key /\ new[2] = n + 1
    BY SaidAssumption DEF Message
  <1>2. \A i \in 1 .. Len(ms) : ms[i] \in Message
    BY DEF Clean
  <1>3. \A i \in 1 .. Len(ms) : ms[i][2] \in Nat
    BY <1>2 DEF Message
  <1> HIDE DEF new
  <1>4. /\ more \in Seq(Message) /\ Len(more) = Len(ms) + 1 /\ Len(ms) \in Nat
        /\ \A i \in 1 .. Len(ms) : more[i] = ms[i]
        /\ more[Len(ms) + 1] = new
    BY <1>1 DEF Clean
  <1> HIDE DEF more
  <1>5. \A i \in 1 .. Len(more) : more[i][1] = key /\ more[i][2] <= n + 1
    BY <1>1, <1>3, <1>4 DEF Clean
  <1>6. ASSUME NEW i \in 1 .. Len(more), NEW j \in 1 .. Len(more), i < j
        PROVE  more[i][2] < more[j][2]
    <2>1. i \in 1 .. Len(ms) /\ more[i] = ms[i]
      BY <1>4, <1>6
    <2>2. ms[i][2] \in Nat /\ ms[i][2] <= n
      BY <2>1, <1>3 DEF Clean
    <2>3. CASE j = Len(ms) + 1
      BY <2>1, <2>2, <2>3, <1>1, <1>4
    <2>4. CASE j # Len(ms) + 1
      <3>1. j \in 1 .. Len(ms) /\ more[j] = ms[j]
        BY <2>4, <1>4
      <3> QED BY <2>1, <3>1, <1>6 DEF Clean
    <2> QED BY <2>3, <2>4
  <1>7. Clean(more, key, n + 1)
    BY <1>4, <1>5, <1>6 DEF Clean
  <1> QED BY <1>7 DEF more, new

LEMMA CleanTruncate ==
  ASSUME NEW key \in Keys, NEW n \in Nat, NEW ms, NEW keep \in Nat, Clean(ms, key, n)
  PROVE  Clean(Truncate(ms, keep), key, n)
  <1>1. CASE keep > 0 /\ Len(ms) > keep
    <2> DEFINE d    == Len(ms) - keep
               last == SubSeq(ms, d + 1, Len(ms))
    <2>1. ms \in Seq(Message) /\ d \in Nat /\ Len(ms) \in Nat /\ d < Len(ms)
      BY <1>1 DEF Clean
    <2>2. Truncate(ms, keep) = last
      BY <1>1 DEF Truncate
    <2> HIDE DEF d
    <2>3. /\ last \in Seq(Message) /\ Len(last) = Len(ms) - d
          /\ \A i \in 1 .. Len(last) : last[i] = ms[i + d] /\ i + d \in 1 .. Len(ms)
      BY <2>1
    <2> HIDE DEF last
    <2>4. \A i \in 1 .. Len(last) : last[i][1] = key /\ last[i][2] <= n
      BY <2>3 DEF Clean
    <2>5. ASSUME NEW i \in 1 .. Len(last), NEW j \in 1 .. Len(last), i < j
          PROVE  last[i][2] < last[j][2]
      <3>1. /\ i + d < j + d /\ i + d \in 1 .. Len(ms) /\ j + d \in 1 .. Len(ms)
            /\ last[i] = ms[i + d] /\ last[j] = ms[j + d]
        BY <2>1, <2>3, <2>5
      <3> QED BY <3>1 DEF Clean
    <2> QED BY <2>2, <2>3, <2>4, <2>5 DEF Clean
  <1>2. CASE ~(keep > 0 /\ Len(ms) > keep)
    BY <1>2 DEF Truncate
  <1> QED BY <1>1, <1>2

\* An update of a session changes the fields it names.
LEMMA SessionUpdates ==
  ASSUME NEW s \in Session, NEW ms \in Seq(Message)
  PROVE  /\ [s EXCEPT !.messages = ms] \in Session
         /\ [s EXCEPT !.messages = ms].key = s.key
         /\ [s EXCEPT !.messages = ms].messages = ms
         /\ [s EXCEPT !.summary = TRUE, !.messages = ms] \in Session
         /\ [s EXCEPT !.summary = TRUE, !.messages = ms].key = s.key
         /\ [s EXCEPT !.summary = TRUE, !.messages = ms].messages = ms
  BY DEF Session

LEMMA NoneIsNoSession == NoKey \notin Keys /\ None.key = NoKey
  BY DEF NoKey, Keys, None

LEMMA GetGood ==
  ASSUME IInv, NEW c \in Chats, own[c] \in Keys
  PROVE  /\ Get(c) \in Session
         /\ Get(c).key = own[c]
         /\ Clean(Get(c).messages, own[c], said)
  <1>1. CASE mem[c][own[c]] = None
    <2> DEFINE s == [key |-> own[c], messages |-> <<>>, summary |-> FALSE]
    <2>1. Get(c) = s
      BY <1>1 DEF Get, None
    <2>2. <<>> \in Seq(Message)
      OBVIOUS
    <2>3. s \in Session
      BY <2>2 DEF Session
    <2>4. Clean(<<>>, own[c], said)
      BY <2>2 DEF Clean
    <2> QED BY <2>1, <2>3, <2>4
  <1>2. CASE mem[c][own[c]] # None
    BY <1>2 DEF Get, IInv, InMemory, Good
  <1> QED BY <1>1, <1>2

-----------------------------------------------------------------------------
LEMMA InitIInv == Init => IInv
  <1> SUFFICES ASSUME Init PROVE IInv
    OBVIOUS
  <1>1. InMemory
    BY DEF Init, InMemory, Good
  <1>2. OnDisk
    BY DEF Init, OnDisk
  <1> QED BY <1>1, <1>2, SaidAssumption DEF Init, IInv, Running

LEMMA StartIInv ==
  ASSUME IInv, NEW c \in Chats, NEW k \in Keys, Start(c, k)
  PROVE  IInv'
  <1>1. /\ pc' = [pc EXCEPT ![c] = "prompt"]
        /\ own' = [own EXCEPT ![c] = k]
        /\ mem' = [mem EXCEPT ![c] = Loaded]
        /\ UNCHANGED <<disk, said>>
    BY DEF Start
  <1>2. ASSUME NEW q \in Keys
        PROVE  Loaded[q] \in Session \cup {None} /\ Good(Loaded[q], q)
    <2>1. CASE \E f \in Files : disk[f].key = q
      <3> DEFINE f == CHOOSE f \in Files : disk[f].key = q
      <3>1. f \in Files /\ disk[f].key = q
        BY <2>1
      <3>2. Loaded[q] = disk[f]
        BY <2>1 DEF Loaded
      <3> HIDE DEF f
      <3> QED BY <3>1, <3>2 DEF IInv, OnDisk, Good
    <2>2. CASE ~\E f \in Files : disk[f].key = q
      <3>1. Loaded[q] = None
        BY <2>2 DEF Loaded
      <3> QED BY <3>1 DEF Good
    <2> QED BY <2>1, <2>2
  <1>3. Loaded \in [Keys -> Session \cup {None}]
    BY <1>2 DEF Loaded
  <1> HIDE DEF Loaded
  <1>4. InMemory'
    <2>1. mem' \in [Chats -> [Keys -> Session \cup {None}]]
      BY <1>1, <1>3 DEF IInv, InMemory
    <2>2. ASSUME NEW d \in Chats, NEW q \in Keys PROVE Good(mem[d][q], q)'
      <3>1. mem'[d] = IF d = c THEN Loaded ELSE mem[d]
        BY <1>1 DEF IInv, InMemory
      <3> QED BY <3>1, <1>1, <1>2 DEF IInv, InMemory, Good
    <2> QED BY <2>1, <2>2 DEF InMemory
  <1>5. OnDisk'
    BY <1>1 DEF IInv, OnDisk, Good
  <1> QED BY <1>1, <1>4, <1>5 DEF IInv, Running

\* A step that puts a good session in the place of the chat's own.
LEMMA OwnChanged ==
  ASSUME IInv, NEW c \in Chats, own[c] \in Keys, NEW s,
         s \in Session, s.key = own[c], Clean(s.messages, own[c], said'),
         said' \in 0 .. MaxSaid, said <= said',
         mem' = [mem EXCEPT ![c][own[c]] = s],
         pc' \in [Chats -> {"off", "prompt", "run", "save"}],
         \A d \in Chats : Running(d)' => Running(d),
         UNCHANGED <<disk, own>>
  PROVE  IInv'
  <1>1. InMemory'
    <2>1. mem' \in [Chats -> [Keys -> Session \cup {None}]]
      BY DEF IInv, InMemory
    <2>2. ASSUME NEW d \in Chats, NEW q \in Keys PROVE Good(mem[d][q], q)'
      <3>1. CASE d = c /\ q = own[c]
        <4>1. mem'[d][q] = s
          BY <3>1 DEF IInv, InMemory
        <4> QED BY <4>1, <3>1 DEF Good
      <3>2. CASE ~(d = c /\ q = own[c])
        <4>1. mem'[d][q] = mem[d][q]
          BY <3>2 DEF IInv, InMemory
        <4>2. mem[d][q] \in Session \cup {None} /\ Good(mem[d][q], q)
          BY DEF IInv, InMemory
        <4>3. Good(mem[d][q], q) => (mem[d][q] # None =>
                mem[d][q] \in Session /\ mem[d][q].key = q
                  /\ Clean(mem[d][q].messages, q, said'))
          BY <4>2, CleanGrows, SaidAssumption DEF Good, IInv
        <4> QED BY <4>1, <4>2, <4>3 DEF Good
      <3> QED BY <3>1, <3>2
    <2> QED BY <2>1, <2>2 DEF InMemory
  <1>2. OnDisk'
    <2>1. ASSUME NEW f \in Files, disk[f] # None
          PROVE  /\ Sanitize(disk[f].key) = f /\ disk[f] \in Session
                 /\ Clean(disk[f].messages, disk[f].key, said')
      BY <2>1, CleanGrows, SaidAssumption DEF IInv, OnDisk, Good
    <2> QED BY <2>1 DEF IInv, OnDisk, Good
  <1> QED BY <1>1, <1>2 DEF IInv

LEMMA TalkIInv ==
  ASSUME IInv, NEW c \in Chats, Ask(c) \/ Answer(c)
  PROVE  IInv'
  <1> DEFINE k  == own[c]
             ms == Append(Get(c).messages, <<k, said + 1>>)
             s  == [Get(c) EXCEPT !.messages = ms]
  <1>1. /\ pc[c] \in {"prompt", "run"} /\ said < MaxSaid /\ said' = said + 1
        /\ pc' = [pc EXCEPT ![c] = "run"] \/ pc' = [pc EXCEPT ![c] = "prompt"]
        /\ mem' = [mem EXCEPT ![c][k] = s]
        /\ UNCHANGED <<disk, own>>
    BY DEF Ask, Answer, AddMessage
  <1>2. k \in Keys /\ said \in Nat
    BY <1>1, SaidAssumption DEF IInv, Running
  <1>3. Clean(ms, k, said + 1)
    BY <1>1, <1>2, GetGood, CleanAppend
  <1>4. ms \in Seq(Message)
    BY <1>3 DEF Clean
  <1> HIDE DEF ms
  <1>5. s \in Session /\ s.key = k /\ s.messages = ms
    BY <1>2, <1>4, GetGood, SessionUpdates
  <1>6. /\ said' \in 0 .. MaxSaid /\ said <= said'
        /\ pc' \in [Chats -> {"off", "prompt", "run", "save"}]
        /\ \A d \in Chats : Running(d)' => Running(d)
    BY <1>1, <1>2, SaidAssumption DEF IInv, Running
  <1> HIDE DEF s
  <1> QED BY <1>1, <1>2, <1>3, <1>5, <1>6, OwnChanged

LEMMA SetSummaryIInv ==
  ASSUME IInv, NEW c \in Chats, NEW n \in KeepLasts, SetSummary(c, n)
  PROVE  IInv'
  <1> DEFINE k  == own[c]
             ms == Truncate(Get(c).messages, n)
             s  == [Get(c) EXCEPT !.summary = TRUE, !.messages = ms]
  <1>1. /\ pc[c] = "prompt"
        /\ mem' = [mem EXCEPT ![c][k] = s]
        /\ UNCHANGED <<disk, pc, own, said>>
    BY DEF SetSummary
  <1>2. k \in Keys /\ said \in Nat /\ n \in Nat
    BY <1>1, SaidAssumption, KeepLastAssumption DEF IInv, Running
  <1>3. Clean(ms, k, said)
    BY <1>2, GetGood, CleanTruncate
  <1>4. ms \in Seq(Message)
    BY <1>3 DEF Clean
  <1> HIDE DEF ms
  <1>5. s \in Session /\ s.key = k /\ s.messages = ms
    BY <1>2, <1>4, GetGood, SessionUpdates
  <1>6. /\ said' \in 0 .. MaxSaid /\ said <= said'
        /\ pc' \in [Chats -> {"off", "prompt", "run", "save"}]
        /\ \A d \in Chats : Running(d)' => Running(d)
    BY <1>1, <1>2 DEF IInv, Running
  <1> HIDE DEF s
  <1> QED BY <1>1, <1>2, <1>3, <1>5, <1>6, OwnChanged

LEMMA RunFailsIInv ==
  ASSUME IInv, NEW c \in Chats, RunFails(c)
  PROVE  IInv'
  BY DEF IInv, InMemory, OnDisk, Good, RunFails, Running

\* The memory of a chat that ends is empty.
LEMMA GoneIInv ==
  ASSUME IInv, NEW c \in Chats, Gone(c), OnDisk'
  PROVE  IInv'
  <1>1. /\ pc' = [pc EXCEPT ![c] = "off"]
        /\ mem' = [mem EXCEPT ![c] = [k \in Keys |-> None]]
        /\ own' = [own EXCEPT ![c] = NoKey]
        /\ said' = said
    BY DEF Gone
  <1>2. InMemory'
    <2>1. mem' \in [Chats -> [Keys -> Session \cup {None}]]
      BY <1>1 DEF IInv, InMemory
    <2>2. ASSUME NEW d \in Chats, NEW q \in Keys PROVE Good(mem[d][q], q)'
      <3>1. mem'[d][q] = IF d = c THEN None ELSE mem[d][q]
        BY <1>1 DEF IInv, InMemory
      <3> QED BY <3>1, <1>1 DEF IInv, InMemory, Good
    <2> QED BY <2>1, <2>2 DEF InMemory
  <1> QED BY <1>1, <1>2 DEF IInv, Running

LEMMA EndIInv ==
  ASSUME IInv, NEW c \in Chats, Exit(c) \/ Rename(c) \/ Die(c)
  PROVE  IInv'
  <1>1. ASSUME Gone(c), disk' = disk PROVE IInv'
    <2>1. OnDisk'
      BY <1>1 DEF IInv, OnDisk, Good, Gone
    <2> QED BY <1>1, <2>1, GoneIInv
  <1>2. CASE Exit(c)
    <2>1. CASE mem[c][own[c]] = None
      BY <1>1, <1>2, <2>1 DEF Exit
    <2>2. CASE mem[c][own[c]] # None
      BY <1>2, <2>2 DEF Exit, IInv, InMemory, OnDisk, Good, Running
    <2> QED BY <2>1, <2>2
  <1>3. CASE Rename(c)
    <2> DEFINE k == own[c]
               f == Sanitize(k)
    <2>1. /\ pc[c] = "save" /\ Gone(c)
          /\ disk' = [disk EXCEPT ![f] = mem[c][k]]
      BY <1>3 DEF Rename
    <2>2. k \in Keys /\ f \in Files
      BY <2>1 DEF IInv, Running, Files
    <2>3. mem[c][k] \in Session \cup {None} /\ Good(mem[c][k], k) /\ said' = said
      BY <2>1, <2>2 DEF IInv, InMemory, Gone
    <2> HIDE DEF f
    <2>4. \A g \in Files : disk'[g] = IF g = f THEN mem[c][k] ELSE disk[g]
      BY <2>1 DEF IInv, OnDisk
    <2>5. ASSUME NEW g \in Files, disk'[g] # None
          PROVE  Sanitize(disk'[g].key) = g /\ Good(disk[g], disk[g].key)'
      <3>1. CASE g = f
        BY <2>3, <2>4, <2>5, <3>1 DEF Good, f
      <3>2. CASE g # f
        BY <2>3, <2>4, <2>5, <3>2 DEF IInv, OnDisk, Good
      <3> QED BY <3>1, <3>2
    <2>6. disk' \in [Files -> Session \cup {None}]
      BY <2>1, <2>3 DEF IInv, OnDisk
    <2> QED BY <2>1, <2>5, <2>6, GoneIInv DEF OnDisk
  <1>4. CASE Die(c)
    BY <1>1, <1>4 DEF Die
  <1> QED BY <1>2, <1>3, <1>4

LEMMA NextIInv == IInv /\ [Next]_vars => IInv'
  <1> SUFFICES ASSUME IInv, [Next]_vars PROVE IInv'
    OBVIOUS
  <1>1. CASE UNCHANGED vars
    BY <1>1 DEF vars, IInv, InMemory, OnDisk, Good, Running
  <1>2. CASE Next
    BY <1>2, StartIInv, TalkIInv, SetSummaryIInv, RunFailsIInv, EndIInv DEF Next
  <1> QED BY <1>1, <1>2

\* Keys that share a file, and chats that overwrite each other's saves, never
\* mix what was said under different keys, nor say a thing twice.
THEOREM KeysApart == Spec => []KeysKeepApart
  <1>1. IInv => KeysKeepApart
    <2> SUFFICES ASSUME IInv PROVE KeysKeepApart
      OBVIOUS
    <2>1. ASSUME NEW s, NEW key, Good(s, key) PROVE Proper(s, key)
      BY <2>1 DEF Good, Clean, Proper
    <2> QED BY <2>1 DEF IInv, InMemory, OnDisk, KeysKeepApart
  <1>2. Spec => []IInv
    BY InitIInv, NextIInv, PTL DEF Spec
  <1> QED BY <1>1, <1>2, PTL

-----------------------------------------------------------------------------
(* What a file keeps of the messages that were saved.                      *)

\* ms is the end of h; only a summary may stand for what is missing of h, and
\* then as many messages are left as it was told to keep.
Ends(ms, summary, h) ==
  /\ Len(ms) <= Len(h)
  /\ \A i \in 1 .. Len(ms) : ms[i] = h[(Len(h) - Len(ms)) + i]
  /\ Len(ms) < Len(h) => summary /\ \E n \in KeepLasts \ {0} : n <= Len(ms)

EndsIn(s, h) == Ends(s.messages, s.summary, h)

\* A file that is not mixed holds what its one key has kept.
Filed(f) ==
  \A k \in Keys : Sanitize(k) = f =>
    /\ kept[k] # <<>> => disk[f].key = k
    /\ disk[f].key = k => EndsIn(disk[f], kept[k])

\* A running chat whose file is not mixed has it for itself, and what it said
\* on top of what was kept.
InUse(c) ==
  Running(c) /\ Sanitize(own[c]) \notin mixed =>
    /\ disk[Sanitize(own[c])].key \in {own[c], NoKey}
    /\ \A d \in Chats : Running(d) /\ Sanitize(own[d]) = Sanitize(own[c]) => d = c
    /\ EndsIn(mem[c][own[c]], kept[own[c]] \o fresh[c])

Histories ==
  /\ fresh \in [Chats -> Seq(Message)]
  /\ kept \in [Keys -> Seq(Message)]
  /\ mixed \subseteq Files

ChatStates ==
  \A c \in Chats :
    /\ Running(c) <=> own[c] # NoKey
    /\ ~Running(c) => fresh[c] = <<>>
    /\ pc[c] \in {"run", "save"} => mem[c][own[c]] # None

KInv ==
  /\ IInv
  /\ Histories
  /\ ChatStates
  /\ \A f \in Files \ mixed : Filed(f)
  /\ \A c \in Chats : InUse(c)

LEMMA EndsAppend ==
  ASSUME NEW ms \in Seq(Message), NEW h \in Seq(Message), NEW m \in Message,
         NEW b, Ends(ms, b, h)
  PROVE  Ends(Append(ms, m), b, Append(h, m))
  <1> DEFINE ms2 == Append(ms, m)
             h2  == Append(h, m)
  <1>1. /\ Len(ms) \in Nat /\ Len(ms2) = Len(ms) + 1 /\ ms2[Len(ms) + 1] = m
        /\ \A i \in 1 .. Len(ms) : ms2[i] = ms[i]
    OBVIOUS
  <1>2. /\ Len(h) \in Nat /\ Len(h2) = Len(h) + 1 /\ h2[Len(h) + 1] = m
        /\ \A i \in 1 .. Len(h) : h2[i] = h[i]
    OBVIOUS
  <1> HIDE DEF ms2, h2
  <1>3. PICK d \in Nat : Len(h) = d + Len(ms)
    <2>1. Len(ms) <= Len(h)
      BY DEF Ends
    <2>2. Len(h) - Len(ms) \in Nat /\ Len(h) = (Len(h) - Len(ms)) + Len(ms)
      BY <1>1, <1>2, <2>1
    <2> QED BY <2>2
  <1>4. Len(h2) - Len(ms2) = d
    BY <1>1, <1>2, <1>3
  <1>5. \A i \in 1 .. Len(ms) : ms[i] = h[d + i]
    <2>1. Len(h) - Len(ms) = d
      BY <1>1, <1>3
    <2> QED BY <2>1 DEF Ends
  <1>6. ASSUME NEW i \in 1 .. Len(ms2) PROVE ms2[i] = h2[d + i]
    <2>1. CASE i = Len(ms) + 1
      <3>1. d + i = Len(h) + 1
        BY <2>1, <1>1, <1>3
      <3> QED BY <2>1, <3>1, <1>1, <1>2
    <2>2. CASE i # Len(ms) + 1
      <3>1. i \in 1 .. Len(ms) /\ d + i \in 1 .. Len(h)
        BY <2>2, <1>1, <1>3
      <3> QED BY <3>1, <1>1, <1>2, <1>5
    <2> QED BY <2>1, <2>2
  <1>7. Len(ms2) <= Len(h2) /\ (Len(ms2) < Len(h2) <=> Len(ms) < Len(h))
    BY <1>1, <1>2, <1>3
  <1>8. ASSUME NEW n \in KeepLasts, n <= Len(ms) PROVE n <= Len(ms2)
    BY <1>1, <1>8, KeepLastAssumption
  <1> QED BY <1>4, <1>6, <1>7, <1>8 DEF Ends, ms2, h2

LEMMA EndsTruncate ==
  ASSUME NEW ms \in Seq(Message), NEW h \in Seq(Message), NEW keep \in KeepLasts,
         NEW b, Ends(ms, b, h)
  PROVE  Ends(Truncate(ms, keep), TRUE, h)
  <1>1. keep \in Nat /\ Len(ms) \in Nat /\ Len(h) \in Nat /\ Len(ms) <= Len(h)
    BY KeepLastAssumption DEF Ends
  <1>2. CASE keep > 0 /\ Len(ms) > keep
    <2> DEFINE last == SubSeq(ms, Len(ms) - keep + 1, Len(ms))
    <2>1. /\ Len(last) = keep
          /\ \A i \in 1 .. keep : last[i] = ms[(Len(ms) - keep) + i]
      BY <1>1, <1>2
    <2>2. Truncate(ms, keep) = last
      BY <1>2 DEF Truncate
    <2> HIDE DEF last
    <2>3. ASSUME NEW i \in 1 .. keep PROVE last[i] = h[(Len(h) - keep) + i]
      <3>1. /\ (Len(ms) - keep) + i \in 1 .. Len(ms)
            /\ (Len(h) - Len(ms)) + ((Len(ms) - keep) + i) = (Len(h) - keep) + i
        BY <1>1, <1>2
      <3>2. ms[(Len(ms) - keep) + i] = h[(Len(h) - Len(ms)) + ((Len(ms) - keep) + i)]
        BY <3>1 DEF Ends
      <3> QED BY <2>1, <3>1, <3>2
    <2>4. keep \in KeepLasts \ {0} /\ keep <= keep /\ keep <= Len(h)
      BY <1>1, <1>2
    <2> QED BY <2>1, <2>2, <2>3, <2>4 DEF Ends
  <1>3. CASE ~(keep > 0 /\ Len(ms) > keep)
    BY <1>3 DEF Ends, Truncate
  <1> QED BY <1>2, <1>3

LEMMA TruncateIsSeq ==
  ASSUME NEW ms \in Seq(Message), NEW keep \in KeepLasts
  PROVE  Truncate(ms, keep) \in Seq(Message)
  <1>1. keep \in Nat /\ Len(ms) \in Nat
    BY KeepLastAssumption
  <1>2. CASE keep > 0 /\ Len(ms) > keep
    <2>1. SubSeq(ms, Len(ms) - keep + 1, Len(ms)) \in Seq(Message)
      BY <1>1, <1>2
    <2> QED BY <1>2, <2>1 DEF Truncate
  <1>3. CASE ~(keep > 0 /\ Len(ms) > keep)
    BY <1>3 DEF Truncate
  <1> QED BY <1>2, <1>3

LEMMA ConcatAppend ==
  ASSUME NEW s \in Seq(Message), NEW t \in Seq(Message), NEW m \in Message
  PROVE  s \o Append(t, m) = Append(s \o t, m)
  <1>1. /\ \A u \in Seq(Message) : Append(u, m) = u \o <<m>>
        /\ <<m>> \in Seq(Message) /\ s \o t \in Seq(Message)
    OBVIOUS
  <1>2. s \o (t \o <<m>>) = (s \o t) \o <<m>>
    BY <1>1, ConcatAssociative
  <1> QED BY <1>1, <1>2

\* The end of a history, as a subsequence of it.
LEMMA EndsIsSubSeq ==
  ASSUME NEW ms \in Seq(Message), NEW h \in Seq(Message), NEW b, Ends(ms, b, h)
  PROVE  ms = SubSeq(h, (Len(h) - Len(ms)) + 1, Len(h))
  <1> DEFINE d == Len(h) - Len(ms)
             t == SubSeq(h, d + 1, Len(h))
  <1>1. Len(ms) \in Nat /\ Len(h) \in Nat /\ d \in Nat /\ d <= Len(h) /\ Len(ms) = Len(h) - d
    BY DEF Ends
  <1> HIDE DEF d
  <1>2. /\ t \in Seq(Message) /\ Len(t) = Len(h) - d
        /\ \A i \in 1 .. Len(t) : t[i] = h[d + i]
    BY <1>1
  <1> HIDE DEF t
  <1>3. \A i \in 1 .. Len(ms) : ms[i] = t[i]
    BY <1>1, <1>2 DEF Ends, d
  <1>4. ms = t
    BY <1>1, <1>2, <1>3, SeqEqual
  <1> QED BY <1>4 DEF t, d
-----------------------------------------------------------------------------
LEMMA InitKInv == Init => KInv
  <1> SUFFICES ASSUME Init PROVE KInv
    OBVIOUS
  <1>1. IInv
    BY InitIInv
  <1>2. Histories /\ ChatStates
    BY DEF Init, Histories, ChatStates, Running
  <1>3. ASSUME NEW f \in Files PROVE Filed(f)
    BY NoneIsNoSession DEF Init, Filed
  <1>4. ASSUME NEW c \in Chats PROVE InUse(c)
    BY DEF Init, InUse, Running
  <1> QED BY <1>1, <1>2, <1>3, <1>4 DEF KInv

\* Who runs has a key, and a session of it or none.
LEMMA OwnSession ==
  ASSUME KInv, NEW c \in Chats, Running(c)
  PROVE  /\ own[c] \in Keys /\ Sanitize(own[c]) \in Files
         /\ mem[c][own[c]] \in Session \cup {None}
         /\ mem[c][own[c]].messages \in Seq(Message)
         /\ mem[c][own[c]] # None => mem[c][own[c]].key = own[c]
         /\ kept[own[c]] \in Seq(Message) /\ fresh[c] \in Seq(Message)
         /\ kept[own[c]] \o fresh[c] \in Seq(Message)
  <1>1. own[c] \in Keys /\ Sanitize(own[c]) \in Files
    BY DEF KInv, IInv, Files
  <1>2. /\ mem[c][own[c]] \in Session \cup {None}
        /\ mem[c][own[c]] # None => mem[c][own[c]].key = own[c]
    BY <1>1 DEF KInv, IInv, InMemory, Good
  <1>3. mem[c][own[c]].messages \in Seq(Message)
    <2>1. None.messages = <<>> /\ <<>> \in Seq(Message)
      BY DEF None
    <2> QED BY <1>2, <2>1 DEF Session
  <1>4. kept[own[c]] \in Seq(Message) /\ fresh[c] \in Seq(Message)
    BY <1>1 DEF KInv, Histories
  <1> QED BY <1>1, <1>2, <1>3, <1>4

LEMMA GetSession ==
  ASSUME KInv, NEW c \in Chats, Running(c)
  PROVE  /\ Get(c) \in Session
         /\ Get(c).messages = mem[c][own[c]].messages
         /\ Get(c).summary = mem[c][own[c]].summary
  <1>1. own[c] \in Keys
    BY OwnSession
  <1>2. Get(c) \in Session
    BY <1>1, GetGood DEF KInv
  <1>3. CASE mem[c][own[c]] = None
    <2>1. Get(c) = [None EXCEPT !.key = own[c]]
      BY <1>3 DEF Get
    <2> QED BY <1>2, <1>3, <2>1 DEF None
  <1>4. CASE mem[c][own[c]] # None
    BY <1>2, <1>4 DEF Get
  <1> QED BY <1>2, <1>3, <1>4

\* A running chat changes its session and says something or nothing.
LEMMA OwnChangedKInv ==
  ASSUME KInv, IInv', NEW c \in Chats, Running(c), NEW s \in Session, NEW told \in Seq(Message),
         NEW p \in {"prompt", "run", "save"}, pc' = [pc EXCEPT ![c] = p],
         mem' = [mem EXCEPT ![c][own[c]] = s], fresh' = [fresh EXCEPT ![c] = told],
         UNCHANGED <<disk, own, kept, mixed>>,
         Sanitize(own[c]) \notin mixed => EndsIn(s, kept[own[c]] \o told)
  PROVE  KInv'
  <1>1. own[c] \in Keys /\ s # None
    BY OwnSession, NoneIsNoSession DEF Session
  <1>2. /\ mem'[c][own[c]] = s /\ fresh'[c] = told /\ pc'[c] = p
        /\ \A d \in Chats : d # c => mem'[d] = mem[d] /\ fresh'[d] = fresh[d] /\ pc'[d] = pc[d]
    BY <1>1 DEF KInv, IInv, InMemory, Histories
  <1>3. \A d \in Chats : Running(d)' <=> Running(d)
    BY <1>2 DEF Running
  <1>4. Histories'
    BY DEF KInv, Histories
  <1>5. ChatStates'
    <2>1. ASSUME NEW d \in Chats
          PROVE  /\ Running(d)' <=> own[d] # NoKey
                 /\ ~Running(d)' => fresh'[d] = <<>>
                 /\ pc'[d] \in {"run", "save"} => mem'[d][own[d]] # None
      BY <1>1, <1>2, <1>3 DEF KInv, ChatStates
    <2> QED BY <2>1 DEF ChatStates
  <1>6. ASSUME NEW f \in Files \ mixed' PROVE Filed(f)'
    BY DEF KInv, Filed
  <1>7. ASSUME NEW d \in Chats PROVE InUse(d)'
    <2>1. CASE d = c
      <3>1. InUse(c)
        BY DEF KInv
      <3> QED BY <2>1, <3>1, <1>2, <1>3 DEF InUse
    <2>2. CASE d # c
      <3>1. InUse(d)
        BY DEF KInv
      <3> QED BY <2>2, <3>1, <1>2, <1>3 DEF InUse
    <2> QED BY <2>1, <2>2
  <1> QED BY <1>4, <1>5, <1>6, <1>7 DEF KInv

LEMMA TalkKInv ==
  ASSUME KInv, NEW c \in Chats, Ask(c) \/ Answer(c)
  PROVE  KInv'
  <1>1. IInv'
    BY TalkIInv DEF KInv
  <1>2. Running(c)
    BY DEF Running, Ask, Answer
  <1> DEFINE m    == <<own[c], said + 1>>
             old  == Get(c).messages
             s    == [Get(c) EXCEPT !.messages = Append(old, m)]
             told == Append(fresh[c], m)
  <1>3. PICK p \in {"prompt", "run", "save"} : pc' = [pc EXCEPT ![c] = p]
    BY DEF Ask, Answer
  <1>4. /\ said < MaxSaid
        /\ mem' = [mem EXCEPT ![c][own[c]] = s]
        /\ fresh' = [fresh EXCEPT ![c] = told]
        /\ UNCHANGED <<disk, own, kept, mixed>>
    BY DEF Ask, Answer, AddMessage
  <1>5. m \in Message
    BY <1>2, <1>4, OwnSession, SaidAssumption DEF Message, KInv, IInv
  <1> HIDE DEF m
  <1>6. /\ Get(c) \in Session /\ old \in Seq(Message)
        /\ fresh[c] \in Seq(Message) /\ kept[own[c]] \in Seq(Message)
        /\ kept[own[c]] \o fresh[c] \in Seq(Message)
        /\ old = mem[c][own[c]].messages /\ Get(c).summary = mem[c][own[c]].summary
    BY <1>2, OwnSession, GetSession
  <1>7. Append(old, m) \in Seq(Message) /\ told \in Seq(Message)
    BY <1>5, <1>6
  <1>8. s \in Session /\ s.messages = Append(old, m) /\ s.summary = Get(c).summary
    BY <1>6, <1>7 DEF Session
  <1>9. ASSUME Sanitize(own[c]) \notin mixed PROVE EndsIn(s, kept[own[c]] \o told)
    <2>1. Ends(old, Get(c).summary, kept[own[c]] \o fresh[c])
      BY <1>2, <1>6, <1>9 DEF KInv, InUse, EndsIn
    <2>2. Ends(Append(old, m), Get(c).summary, Append(kept[own[c]] \o fresh[c], m))
      BY <2>1, <1>5, <1>6, EndsAppend
    <2>3. kept[own[c]] \o told = Append(kept[own[c]] \o fresh[c], m)
      BY <1>5, <1>6, ConcatAppend
    <2> QED BY <2>2, <2>3, <1>8 DEF EndsIn
  <1> HIDE DEF s, told
  <1> QED BY <1>1, <1>2, <1>3, <1>4, <1>7, <1>8, <1>9, OwnChangedKInv

LEMMA SetSummaryKInv ==
  ASSUME KInv, NEW c \in Chats, NEW n \in KeepLasts, SetSummary(c, n)
  PROVE  KInv'
  <1>1. IInv'
    BY SetSummaryIInv DEF KInv
  <1>2. Running(c) /\ pc[c] = "prompt"
    BY DEF Running, SetSummary
  <1> DEFINE old == Get(c).messages
             ms  == Truncate(old, n)
             s   == [Get(c) EXCEPT !.summary = TRUE, !.messages = ms]
  <1>3. /\ mem' = [mem EXCEPT ![c][own[c]] = s]
        /\ UNCHANGED <<disk, pc, own, fresh, kept, mixed>>
    BY DEF SetSummary
  <1>4. /\ Get(c) \in Session /\ old \in Seq(Message)
        /\ fresh[c] \in Seq(Message) /\ kept[own[c]] \o fresh[c] \in Seq(Message)
        /\ old = mem[c][own[c]].messages /\ Get(c).summary = mem[c][own[c]].summary
    BY <1>2, OwnSession, GetSession
  <1>5. ms \in Seq(Message)
    BY <1>4, TruncateIsSeq
  <1> HIDE DEF ms
  <1>6. s \in Session /\ s.messages = ms /\ s.summary = TRUE
    BY <1>4, <1>5 DEF Session
  <1>7. ASSUME Sanitize(own[c]) \notin mixed PROVE EndsIn(s, kept[own[c]] \o fresh[c])
    <2>1. Ends(old, Get(c).summary, kept[own[c]] \o fresh[c])
      BY <1>2, <1>4, <1>7 DEF KInv, InUse, EndsIn
    <2>2. Ends(ms, TRUE, kept[own[c]] \o fresh[c])
      BY <2>1, <1>4, EndsTruncate DEF ms
    <2> QED BY <2>2, <1>6 DEF EndsIn
  <1>8. /\ pc' = [pc EXCEPT ![c] = "prompt"]
        /\ fresh' = [fresh EXCEPT ![c] = fresh[c]]
    BY <1>2, <1>3 DEF KInv, IInv, Histories
  <1> HIDE DEF s
  <1> QED BY <1>1, <1>2, <1>3, <1>4, <1>6, <1>7, <1>8, OwnChangedKInv

\* What a chat loads is what its file holds, if the file is of its key.
LEMMA StartKInv ==
  ASSUME KInv, NEW c \in Chats, NEW k \in Keys, Start(c, k)
  PROVE  KInv'
  <1> DEFINE f == Sanitize(k)
  <1>1. IInv'
    BY StartIInv DEF KInv
  <1>2. /\ ~Running(c)
        /\ pc' = [pc EXCEPT ![c] = "prompt"]
        /\ own' = [own EXCEPT ![c] = k]
        /\ mem' = [mem EXCEPT ![c] = Loaded]
        /\ UNCHANGED <<disk, said, fresh, kept>>
    BY DEF Start
  <1>3. /\ mixed \subseteq mixed' /\ mixed' \subseteq Files
        /\ f \notin mixed' => /\ disk[f].key \in {k, NoKey}
                              /\ \A d \in Chats : Running(d) => Sanitize(own[d]) # f
    <2>1. f \in Files
      BY DEF Files
    <2>2. mixed' = IF \/ disk[f].key \notin {k, NoKey}
                      \/ \E d \in Chats : Running(d) /\ Sanitize(own[d]) = f
                     THEN mixed \cup {f} ELSE mixed
      BY DEF Start
    <2>3. mixed \subseteq Files
      BY DEF KInv, Histories
    <2> HIDE DEF f
    <2> QED BY <2>1, <2>2, <2>3
  <1>4. /\ mem'[c] = Loaded /\ own'[c] = k /\ pc'[c] = "prompt" /\ fresh[c] = <<>>
        /\ \A d \in Chats : d # c => mem'[d] = mem[d] /\ own'[d] = own[d] /\ pc'[d] = pc[d]
    BY <1>2 DEF KInv, IInv, InMemory, ChatStates
  <1>5. f \notin mixed' => EndsIn(Loaded[k], kept[k])
    <2> SUFFICES ASSUME f \notin mixed' PROVE EndsIn(Loaded[k], kept[k])
      OBVIOUS
    <2>1. f \in Files /\ Filed(f) /\ disk[f].key \in {k, NoKey}
      BY <1>3 DEF KInv, Files
    <2>2. \A g \in Files : disk[g].key = k => g = f
      <3>1. ASSUME NEW g \in Files, disk[g].key = k PROVE g = f
        <4>1. disk[g] # None
          BY <3>1, NoneIsNoSession
        <4>2. Sanitize(disk[g].key) = g
          BY <4>1 DEF KInv, IInv, OnDisk
        <4> QED BY <3>1, <4>2
      <3> QED BY <3>1
    <2>3. CASE disk[f].key = k
      <3>1. Loaded[k] = disk[CHOOSE g \in Files : disk[g].key = k]
        BY <2>1, <2>3 DEF Loaded
      <3>2. \E g \in Files : disk[g].key = k
        BY <2>1, <2>3
      <3> HIDE DEF f
      <3>3. Loaded[k] = disk[f]
        BY <2>2, <3>1, <3>2
      <3> QED BY <2>1, <2>3, <3>3 DEF Filed, f
    <2>4. CASE disk[f].key = NoKey
      <3>1. ~\E g \in Files : disk[g].key = k
        BY <2>2, <2>4, NoneIsNoSession
      <3>2. Loaded[k] = None
        BY <3>1 DEF Loaded
      <3>3. kept[k] = <<>>
        BY <2>1, <2>4, NoneIsNoSession DEF Filed
      <3>4. Ends(<<>>, FALSE, <<>>)
        BY DEF Ends
      <3>5. None.messages = <<>> /\ None.summary = FALSE
        BY DEF None
      <3>6. EndsIn(None, <<>>)
        BY <3>4, <3>5 DEF EndsIn
      <3> QED BY <3>2, <3>3, <3>6
    <2> QED BY <2>1, <2>3, <2>4
  <1>6. Histories'
    BY <1>2, <1>3 DEF KInv, Histories
  <1>7. ChatStates'
    <2>1. k # NoKey
      BY NoneIsNoSession
    <2>2. ASSUME NEW d \in Chats
          PROVE  /\ Running(d)' <=> own'[d] # NoKey
                 /\ ~Running(d)' => fresh'[d] = <<>>
                 /\ pc'[d] \in {"run", "save"} => mem'[d][own'[d]] # None
      BY <2>1, <1>2, <1>4 DEF KInv, ChatStates, Running
    <2> QED BY <2>2 DEF ChatStates
  <1>8. ASSUME NEW g \in Files \ mixed' PROVE Filed(g)'
    BY <1>2, <1>3 DEF KInv, Filed
  <1>9. ASSUME NEW d \in Chats PROVE InUse(d)'
    <2>1. CASE d = c
      <3> SUFFICES ASSUME f \notin mixed'
                   PROVE  /\ disk[f].key \in {k, NoKey}
                          /\ \A e \in Chats : Running(e)' /\ Sanitize(own'[e]) = f => e = c
                          /\ EndsIn(Loaded[k], kept[k] \o fresh[c])
        BY <2>1, <1>2, <1>4 DEF InUse, EndsIn
      <3>1. \A e \in Chats : Running(e)' /\ Sanitize(own'[e]) = f => e = c
        BY <1>3, <1>4 DEF Running
      <3>2. kept[k] \o fresh[c] = kept[k]
        <4>1. kept[k] \in Seq(Message)
          BY DEF KInv, Histories
        <4> QED BY <4>1, <1>4, ConcatEmptySeq
      <3> QED BY <3>1, <3>2, <1>3, <1>5
    <2>2. CASE d # c
      <3> SUFFICES ASSUME Running(d)', Sanitize(own'[d]) \notin mixed'
                   PROVE  InUse(d)'
        BY DEF InUse
      <3>1. Running(d) /\ own'[d] = own[d] /\ mem'[d] = mem[d] /\ Sanitize(own[d]) \notin mixed'
        BY <2>2, <1>4 DEF Running
      <3>2. Sanitize(own[d]) # f
        BY <1>3, <3>1
      <3>3. /\ disk[Sanitize(own[d])].key \in {own[d], NoKey}
            /\ \A e \in Chats : Running(e) /\ Sanitize(own[e]) = Sanitize(own[d]) => e = d
            /\ EndsIn(mem[d][own[d]], kept[own[d]] \o fresh[d])
        BY <3>1, <1>3 DEF KInv, InUse
      <3>4. ASSUME NEW e \in Chats, Running(e)', Sanitize(own'[e]) = Sanitize(own[d])
            PROVE  e = d
        <4>1. e # c
          BY <3>2, <3>4, <1>4
        <4> QED BY <4>1, <3>3, <3>4, <1>4 DEF Running
      <3> QED BY <3>1, <3>3, <3>4, <1>2 DEF InUse, EndsIn
    <2> QED BY <2>1, <2>2
  <1> QED BY <1>1, <1>6, <1>7, <1>8, <1>9 DEF KInv

LEMMA RunFailsKInv ==
  ASSUME KInv, NEW c \in Chats, RunFails(c)
  PROVE  KInv'
  <1>1. IInv'
    BY RunFailsIInv DEF KInv
  <1>2. /\ pc[c] = "run" /\ pc' = [pc EXCEPT ![c] = "prompt"]
        /\ UNCHANGED <<disk, mem, own, said, fresh, kept, mixed>>
    BY DEF RunFails
  <1>3. \A d \in Chats : /\ Running(d)' <=> Running(d)
                         /\ pc'[d] \in {"run", "save"} => pc[d] \in {"run", "save"}
    BY <1>2 DEF KInv, IInv, Running
  <1> QED BY <1>1, <1>2, <1>3 DEF KInv, Histories, ChatStates, Filed, InUse, EndsIn

\* A chat ends; what its file holds and its key has kept is whole.
LEMMA GoneKInv ==
  ASSUME KInv, IInv', NEW c \in Chats, Running(c), Gone(c),
         kept' \in [Keys -> Seq(Message)],
         \A f \in Files \ mixed : Filed(f)',
         \A d \in Chats : Running(d) /\ d # c /\ Sanitize(own[d]) \notin mixed
           => /\ disk'[Sanitize(own[d])] = disk[Sanitize(own[d])]
              /\ kept'[own[d]] = kept[own[d]]
  PROVE  KInv'
  <1>1. /\ pc' = [pc EXCEPT ![c] = "off"]
        /\ mem' = [mem EXCEPT ![c] = [k \in Keys |-> None]]
        /\ fresh' = [fresh EXCEPT ![c] = <<>>]
        /\ own' = [own EXCEPT ![c] = NoKey]
        /\ UNCHANGED <<said, mixed>>
    BY DEF Gone
  <1>2. /\ pc'[c] = "off" /\ fresh'[c] = <<>> /\ own'[c] = NoKey
        /\ \A d \in Chats : d # c => /\ mem'[d] = mem[d] /\ own'[d] = own[d]
                                     /\ pc'[d] = pc[d] /\ fresh'[d] = fresh[d]
    BY <1>1 DEF KInv, IInv, InMemory, Histories
  <1>3. Histories'
    <2>1. <<>> \in Seq(Message)
      OBVIOUS
    <2> QED BY <1>1, <2>1 DEF KInv, Histories
  <1>4. ChatStates'
    <2>1. ASSUME NEW d \in Chats
          PROVE  /\ Running(d)' <=> own'[d] # NoKey
                 /\ ~Running(d)' => fresh'[d] = <<>>
                 /\ pc'[d] \in {"run", "save"} => mem'[d][own'[d]] # None
      BY <1>2 DEF KInv, ChatStates, Running
    <2> QED BY <2>1 DEF ChatStates
  <1>5. ASSUME NEW d \in Chats PROVE InUse(d)'
    <2> SUFFICES ASSUME Running(d)', Sanitize(own'[d]) \notin mixed PROVE InUse(d)'
      BY <1>1 DEF InUse
    <2>1. d # c /\ Running(d) /\ own'[d] = own[d] /\ mem'[d] = mem[d] /\ fresh'[d] = fresh[d]
      BY <1>2 DEF Running
    <2>2. /\ disk'[Sanitize(own[d])] = disk[Sanitize(own[d])]
          /\ kept'[own[d]] = kept[own[d]]
      BY <2>1
    <2>3. /\ disk[Sanitize(own[d])].key \in {own[d], NoKey}
          /\ \A e \in Chats : Running(e) /\ Sanitize(own[e]) = Sanitize(own[d]) => e = d
          /\ EndsIn(mem[d][own[d]], kept[own[d]] \o fresh[d])
      BY <2>1 DEF KInv, InUse
    <2>4. \A e \in Chats : Running(e)' => Running(e) /\ own'[e] = own[e]
      BY <1>2 DEF Running
    <2> QED BY <2>1, <2>2, <2>3, <2>4 DEF InUse, EndsIn
  <1> QED BY <1>1, <1>3, <1>4, <1>5 DEF KInv

LEMMA LeaveKInv ==
  ASSUME KInv, IInv', NEW c \in Chats, Running(c), Gone(c), UNCHANGED <<disk, kept>>
  PROVE  KInv'
  <1>1. kept' \in [Keys -> Seq(Message)]
    BY DEF KInv, Histories
  <1>2. \A f \in Files \ mixed : Filed(f)'
    BY DEF KInv, Filed, EndsIn
  <1> QED BY <1>1, <1>2, GoneKInv

LEMMA ExitKInv ==
  ASSUME KInv, NEW c \in Chats, Exit(c)
  PROVE  KInv'
  <1>1. IInv' /\ Running(c) /\ pc[c] = "prompt"
    BY EndIInv DEF KInv, Running, Exit
  <1>2. CASE mem[c][own[c]] = None
    BY <1>1, <1>2, LeaveKInv DEF Exit
  <1>3. CASE mem[c][own[c]] # None
    <2>1. /\ pc' = [pc EXCEPT ![c] = "save"]
          /\ UNCHANGED <<disk, mem, own, said, fresh, kept, mixed>>
      BY <1>3 DEF Exit
    <2>2. \A d \in Chats : /\ Running(d)' <=> Running(d)
                           /\ pc'[d] \in {"run", "save"} => d = c \/ pc[d] \in {"run", "save"}
      BY <1>1, <2>1 DEF KInv, IInv, Running
    <2> QED BY <1>1, <1>3, <2>1, <2>2
            DEF KInv, Histories, ChatStates, Filed, InUse, EndsIn
  <1> QED BY <1>2, <1>3

LEMMA RenameKInv ==
  ASSUME KInv, NEW c \in Chats, Rename(c)
  PROVE  KInv'
  <1>1. IInv' /\ Running(c) /\ pc[c] = "save" /\ Gone(c)
    BY EndIInv DEF KInv, Running, Rename
  <1>2. PICK k \in Keys, f \in Files, s \in Session, told \in Seq(Message) :
          /\ k = own[c] /\ f = Sanitize(k) /\ s = mem[c][k] /\ s.key = k
          /\ told = kept[k] \o fresh[c]
    BY <1>1, OwnSession DEF KInv, ChatStates
  <1>3. /\ disk' = [disk EXCEPT ![f] = s] /\ kept' = [kept EXCEPT ![k] = told]
    BY <1>2 DEF Rename
  <1>4. /\ disk'[f] = s /\ kept'[k] = told
        /\ \A g \in Files : g # f => disk'[g] = disk[g]
        /\ \A q \in Keys : q # k => kept'[q] = kept[q]
        /\ kept' \in [Keys -> Seq(Message)]
    BY <1>3 DEF KInv, IInv, OnDisk, Histories
  <1>5. ASSUME NEW g \in Files \ mixed PROVE Filed(g)'
    <2>1. CASE g = f
      <3>1. /\ disk[f].key \in {k, NoKey}
            /\ EndsIn(s, told)
        BY <2>1, <1>1, <1>2 DEF KInv, InUse
      <3>2. ASSUME NEW q \in Keys, Sanitize(q) = f, q # k PROVE kept'[q] = <<>>
        BY <2>1, <3>1, <3>2, <1>4, NoneIsNoSession DEF KInv, Filed
      <3> QED BY <2>1, <3>1, <3>2, <1>2, <1>4 DEF Filed, EndsIn
    <2>2. CASE g # f
      <3>1. \A q \in Keys : Sanitize(q) = g => q # k
        BY <2>2, <1>2
      <3> QED BY <2>2, <3>1, <1>4 DEF KInv, Filed, EndsIn
    <2> QED BY <2>1, <2>2
  <1>6. ASSUME NEW d \in Chats, Running(d), d # c, Sanitize(own[d]) \notin mixed
        PROVE  /\ disk'[Sanitize(own[d])] = disk[Sanitize(own[d])]
               /\ kept'[own[d]] = kept[own[d]]
    <2>1. own[d] \in Keys /\ Sanitize(own[d]) \in Files
      BY <1>6, OwnSession
    <2>2. Sanitize(own[d]) # f
      BY <1>1, <1>2, <1>6 DEF KInv, InUse
    <2> QED BY <2>1, <2>2, <1>2, <1>4
  <1> QED BY <1>1, <1>4, <1>5, <1>6, GoneKInv

LEMMA NextKInv == KInv /\ [Next]_vars => KInv'
  <1> SUFFICES ASSUME KInv, [Next]_vars PROVE KInv'
    OBVIOUS
  <1>1. CASE UNCHANGED vars
    <2>1. IInv'
      BY <1>1, NextIInv DEF KInv
    <2> QED BY <1>1, <2>1
            DEF vars, KInv, Histories, ChatStates, Filed, InUse, EndsIn, Running
  <1>2. ASSUME NEW c \in Chats, Die(c) PROVE KInv'
    <2>1. IInv'
      BY <1>2, EndIInv DEF KInv
    <2> QED BY <1>2, <2>1, LeaveKInv DEF Die
  <1>3. CASE Next
    BY <1>2, <1>3, StartKInv, TalkKInv, SetSummaryKInv, RunFailsKInv, ExitKInv, RenameKInv
       DEF Next
  <1> QED BY <1>1, <1>3

LEMMA Kept == Spec => []KInv
  BY InitKInv, NextKInv, PTL DEF Spec

\* TypeOK: the types; who waits for an answer or saves has a session.
THEOREM TypeCorrect == Spec => []TypeOK
  <1>1. KInv => TypeOK
    BY DEF KInv, IInv, InMemory, OnDisk, Histories, ChatStates, TypeOK
  <1> QED BY <1>1, Kept, PTL

\* However chats start, save and die, a file that was one chat's and one key's
\* at a time holds the end of all that was saved under it, and only a summary
\* makes the end shorter than the whole.
THEOREM HistoryKept == Spec => []SavedHistoryKept
  <1>1. KInv => SavedHistoryKept
    <2> SUFFICES ASSUME KInv, NEW f \in Files \ mixed, NEW k \in Keys,
                        Sanitize(k) = f, kept[k] # <<>>
                 PROVE  LET messages == disk[f].messages
                            cut      == Len(kept[k]) - Len(messages)
                        IN  /\ disk[f].key = k
                            /\ cut >= 0 /\ messages = SubSeq(kept[k], cut + 1, Len(kept[k]))
                            /\ cut > 0 => disk[f].summary
                            /\ cut > 0 => \E n \in KeepLasts \ {0} : Len(messages) >= n
      BY DEF SavedHistoryKept
    <2>1. disk[f].key = k /\ EndsIn(disk[f], kept[k])
      BY DEF KInv, Filed
    <2>2. disk[f] \in Session
      BY <2>1, NoneIsNoSession DEF KInv, IInv, OnDisk
    <2>3. PICK ms \in Seq(Message), h \in Seq(Message), b \in BOOLEAN :
            ms = disk[f].messages /\ h = kept[k] /\ b = disk[f].summary
      BY <2>2 DEF Session, KInv, Histories
    <2>4. Ends(ms, b, h)
      BY <2>1, <2>3 DEF EndsIn
    <2>5. ms = SubSeq(h, (Len(h) - Len(ms)) + 1, Len(h))
      BY <2>4, EndsIsSubSeq
    <2>6. /\ Len(h) - Len(ms) >= 0
          /\ Len(h) - Len(ms) > 0 => b
          /\ Len(h) - Len(ms) > 0 => \E n \in KeepLasts \ {0} : Len(ms) >= n
      <3>1. Len(h) \in Nat /\ Len(ms) \in Nat /\ KeepLasts \subseteq Nat
        BY KeepLastAssumption
      <3>2. Len(ms) <= Len(h)
        BY <2>4 DEF Ends
      <3>3. Len(h) - Len(ms) > 0 => Len(ms) < Len(h)
        BY <3>1
      <3>4. \A n \in KeepLasts : n <= Len(ms) => Len(ms) >= n
        BY <3>1
      <3> QED BY <3>1, <3>2, <3>3, <3>4, <2>4 DEF Ends
    <2> QED BY <2>1, <2>3, <2>5, <2>6
  <1> QED BY <1>1, Kept, PTL
=============================================================================
