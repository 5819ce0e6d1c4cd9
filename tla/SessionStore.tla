----------------------------- MODULE SessionStore -----------------------------
(***************************************************************************)
(* pkg/session/session.go as `teeny chat` (cmd/teeny/main.go) uses it: a   *)
(* chat loads every session of the directory when it starts, adds to its   *)
(* own while it runs, and replaces one file when it ends.  Chats are       *)
(* processes that know nothing of each other.                              *)
(*                                                                         *)
(* SetSummary is offered by the package and called by no command; a chat   *)
(* may call it here between two turns.  The other commands load the        *)
(* sessions and neither read nor save them.                                *)
(*                                                                         *)
(* Abstracted: a message is <<key it was said under, number>>, a summary   *)
(* is whether there is one; time stamps are left out.  A key is a name and *)
(* the character that separates its halves.                                *)
(***************************************************************************)
EXTENDS Integers, Sequences

CONSTANTS
  Chats,      \* processes that may run `teeny chat`
  Names,      \* session keys up to their separator
  KeepLasts,  \* values of SetSummary's keepLast
  MaxSaid     \* bound on the messages of all chats

ASSUME SaidAssumption     == MaxSaid \in Nat
ASSUME KeepLastAssumption == KeepLasts \subseteq Nat

Keys  == [name : Names, sep : {":", "_"}]

\* Mutant: keys that differ in the separator keep files of their own.
Sanitize_Identity(key) == key

\* sanitize: the name of the file a key is saved in.
Sanitize(key) == [key EXCEPT !.sep = "_"]

Files == {Sanitize(key) : key \in Keys}

VARIABLES
  disk,    \* per file: the session in it
  mem,     \* per chat: Manager.sessions, a session for every key
  pc,      \* per chat: "off", "prompt", "run" (in Agent.Run), "save"
  own,     \* per chat: the key given with --session
  said,    \* history: how many messages were said; the last one's number
  fresh,   \* history: per chat, the messages it has said
  kept,    \* history: per key, the messages of the chats that saved
  mixed    \* history: files used by two running chats, or under two keys

vars == <<disk, mem, pc, own, said, fresh, kept, mixed>>

Message == Keys \X (1 .. MaxSaid)
Session == [key : Keys, messages : Seq(Message), summary : BOOLEAN]
NoKey   == [name |-> "none", sep |-> "none"]
None    == [key |-> NoKey, messages |-> <<>>, summary |-> FALSE]

Running(c) == pc[c] # "off"

Init ==
  /\ disk = [f \in Files |-> None]
  /\ mem = [c \in Chats |-> [k \in Keys |-> None]]
  /\ pc = [c \in Chats |-> "off"]
  /\ own = [c \in Chats |-> NoKey]
  /\ said = 0
  /\ fresh = [c \in Chats |-> <<>>]
  /\ kept = [k \in Keys |-> <<>>]
  /\ mixed = {}

-----------------------------------------------------------------------------
\* Mutant: a session is found by its file's name, not by the key in it.
Loaded_ByFileName == [k \in Keys |-> disk[Sanitize(k)]]

\* loadAll: every file, under the key it holds.
Loaded ==
  [k \in Keys |->
    IF \E f \in Files : disk[f].key = k
      THEN disk[CHOOSE f \in Files : disk[f].key = k] ELSE None]

\* getOrCreate
Get(c) == IF mem[c][own[c]] = None THEN [None EXCEPT !.key = own[c]]
                                   ELSE mem[c][own[c]]

\* A chat starts under key k.
Start(c, k) ==
  LET f == Sanitize(k) IN
  /\ ~Running(c)
  /\ pc' = [pc EXCEPT ![c] = "prompt"]
  /\ own' = [own EXCEPT ![c] = k]
  /\ mem' = [mem EXCEPT ![c] = Loaded]
  /\ mixed' = IF \/ disk[f].key \notin {k, NoKey}
                 \/ \E d \in Chats : Running(d) /\ Sanitize(own[d]) = f
                THEN mixed \cup {f} ELSE mixed
  /\ UNCHANGED <<disk, said, fresh, kept>>

\* AddMessage in chat c.
AddMessage(c) ==
  LET k == own[c]  m == <<k, said + 1>> IN
  /\ said < MaxSaid
  /\ said' = said + 1
  /\ fresh' = [fresh EXCEPT ![c] = Append(@, m)]
  /\ mem' = [mem EXCEPT ![c][k] = [Get(c) EXCEPT !.messages = Append(@, m)]]
  /\ UNCHANGED <<disk, own, kept, mixed>>

\* The user's message is added before the agent runs ...
Ask(c) ==
  /\ pc[c] = "prompt"
  /\ pc' = [pc EXCEPT ![c] = "run"]
  /\ AddMessage(c)

\* ... and its answer afterwards ...
Answer(c) ==
  /\ pc[c] = "run"
  /\ pc' = [pc EXCEPT ![c] = "prompt"]
  /\ AddMessage(c)

\* ... unless the run fails: the question stays without an answer.
RunFails(c) ==
  /\ pc[c] = "run"
  /\ pc' = [pc EXCEPT ![c] = "prompt"]
  /\ UNCHANGED <<disk, mem, own, said, fresh, kept, mixed>>

\* Mutant: the first messages are kept.
Truncate_Head(messages, keepLast) ==
  IF keepLast > 0 /\ Len(messages) > keepLast
    THEN SubSeq(messages, 1, keepLast) ELSE messages

Truncate(messages, keepLast) ==
  IF keepLast > 0 /\ Len(messages) > keepLast
    THEN SubSeq(messages, Len(messages) - keepLast + 1, Len(messages)) ELSE messages

SetSummary(c, keepLast) ==
  /\ pc[c] = "prompt"
  /\ mem' = [mem EXCEPT ![c][own[c]] =
               [Get(c) EXCEPT !.summary = TRUE, !.messages = Truncate(@, keepLast)]]
  /\ UNCHANGED <<disk, pc, own, said, fresh, kept, mixed>>

\* The process ends and with it all it has in memory.
Gone(c) ==
  /\ pc' = [pc EXCEPT ![c] = "off"]
  /\ mem' = [mem EXCEPT ![c] = [k \in Keys |-> None]]
  /\ fresh' = [fresh EXCEPT ![c] = <<>>]
  /\ own' = [own EXCEPT ![c] = NoKey]
  /\ UNCHANGED <<said, mixed>>

\* Mutant: nobody looks whether there is a session.
Exit_Unguarded(c) ==
  /\ pc[c] = "prompt"
  /\ pc' = [pc EXCEPT ![c] = "save"]
  /\ UNCHANGED <<disk, mem, own, said, fresh, kept, mixed>>

\* "exit", or the end of the input: Save writes a temporary file, if there is
\* a session to save.
Exit(c) ==
  /\ pc[c] = "prompt"
  /\ IF mem[c][own[c]] = None
       THEN Gone(c) /\ UNCHANGED <<disk, kept>>
       ELSE /\ pc' = [pc EXCEPT ![c] = "save"]
            /\ UNCHANGED <<disk, mem, own, said, fresh, kept, mixed>>

\* The temporary file replaces the session's file.
Rename(c) ==
  LET k == own[c] IN
  /\ pc[c] = "save"
  /\ disk' = [disk EXCEPT ![Sanitize(k)] = mem[c][k]]
  /\ kept' = [kept EXCEPT ![k] = @ \o fresh[c]]
  /\ Gone(c)

\* The save fails with a warning, or the process dies at any point: what it
\* was told is lost, and a temporary file left behind is not loaded.
Die(c) ==
  /\ Running(c)
  /\ Gone(c)
  /\ UNCHANGED <<disk, kept>>

Next ==
  \E c \in Chats :
    \/ \E k \in Keys : Start(c, k)
    \/ Ask(c) \/ Answer(c) \/ RunFails(c)
    \/ \E n \in KeepLasts : SetSummary(c, n)
    \/ Exit(c) \/ Rename(c) \/ Die(c)

Spec == Init /\ [][Next]_vars

-----------------------------------------------------------------------------
\* TypeOK: the types of the variables; who waits for an answer or saves has a
\* session.
TypeOK ==
  /\ disk \in [Files -> Session \cup {None}]
  /\ mem \in [Chats -> [Keys -> Session \cup {None}]]
  /\ pc \in [Chats -> {"off", "prompt", "run", "save"}]
  /\ own \in [Chats -> Keys \cup {NoKey}]
  /\ said \in 0 .. MaxSaid
  /\ fresh \in [Chats -> Seq(Message)]
  /\ kept \in [Keys -> Seq(Message)]
  /\ mixed \subseteq Files
  /\ \A c \in Chats : Running(c) <=> own[c] # NoKey
  /\ \A c \in Chats : pc[c] \in {"run", "save"} => mem[c][own[c]] # None

\* A session holds messages of its own key only, in the order they were said
\* and none of them twice.
Proper(session, key) ==
  session # None =>
    /\ session.key = key
    /\ \A i \in DOMAIN session.messages :
         session.messages[i][1] = key /\ session.messages[i][2] <= said
    /\ \A i, j \in DOMAIN session.messages :
         i < j => session.messages[i][2] < session.messages[j][2]

\* Although keys share files, and chats overwrite each other's saves, no
\* session ever takes up what was said under another key, or says a thing
\* twice; a file is found again under the name its key has.
KeysKeepApart ==
  /\ \A c \in Chats, k \in Keys : Proper(mem[c][k], k)
  /\ \A f \in Files : disk[f] # None =>
       Sanitize(disk[f].key) = f /\ Proper(disk[f], disk[f].key)

\* A file that was never used by two chats at once, or under two keys, holds
\* every message of every chat that saved; what a summary stands for is cut
\* off at the front.  Chats that die lose only what they were told themselves.
SavedHistoryKept ==
  \A f \in Files \ mixed, k \in Keys :
    Sanitize(k) = f /\ kept[k] # <<>> =>
      LET messages == disk[f].messages
          cut      == Len(kept[k]) - Len(messages)
      IN  /\ disk[f].key = k
          /\ cut >= 0 /\ messages = SubSeq(kept[k], cut + 1, Len(kept[k]))
          /\ cut > 0 => disk[f].summary
          /\ cut > 0 => \E n \in KeepLasts \ {0} : Len(messages) >= n
=============================================================================
