---------------------------- MODULE ContextBuilder ----------------------------
(***************************************************************************)
(* pkg/context/builder.go: the files, tools, learnings and summary that go *)
(* into a system prompt, and what is cut.  Wire builds a Builder for every *)
(* command; the agent does not use it.                                     *)
(*                                                                         *)
(* A text is its number of bytes.  Headings and separators are left out of *)
(* the counts, as they are in the code.                                    *)
(***************************************************************************)
EXTENDS Integers, Sequences

CONSTANTS
  NumFiles,      \* AGENTS.md, SOUL.md, ... in the order of the list
  Sizes,         \* sizes of a file or of the learnings
  PerFileCap,    \* BootstrapMaxChars
  TotalCap,      \* BootstrapTotalMaxChars
  LearningsCap,  \* LearningsMaxChars
  Marker         \* the length of "\n\n[... truncated]"

ASSUME NumFilesAssumption == NumFiles \in Nat
ASSUME SizesAssumption    == Sizes \subseteq Nat
ASSUME CapsAssumption     ==
  PerFileCap \in Nat /\ TotalCap \in Nat /\ LearningsCap \in Nat /\ Marker \in Nat

Unreadable == -1
Files == 1 .. NumFiles

VARIABLES
  size,     \* workspace: per file, its size or Unreadable
  next,     \* the file the loop comes to
  total,    \* totalChars
  parts,    \* per file: [size, cut] of what was taken, or Left
  prompt    \* the sections of the prompt, in order: [name, size]; <<>> before

vars == <<size, next, total, parts, prompt>>

Part == [size : Nat, cut : BOOLEAN]
Left == [size |-> 0, cut |-> FALSE]

-----------------------------------------------------------------------------
\* Mutant: the cut text is one byte too long.
Capped_OffByOne(part, cap) ==
  IF part.size > cap + 1 THEN [size |-> cap + Marker + 1, cut |-> TRUE] ELSE part

\* content[:cap] and the marker, if the text is longer than the cap.
Capped(part, cap) ==
  IF part.size > cap THEN [size |-> cap + Marker, cut |-> TRUE] ELSE part

Init ==
  /\ size \in [Files -> Sizes \cup {Unreadable}]
  /\ next = 1
  /\ total = 0
  /\ parts = [f \in Files |-> Left]
  /\ prompt = <<>>

\* The loop goes on with its next file; a full budget ends it.
More == next \in Files /\ total < TotalCap

Skip ==
  /\ More /\ size[next] = Unreadable
  /\ next' = next + 1
  /\ UNCHANGED <<size, total, parts, prompt>>

\* What is taken of a text of n bytes: the file's cap, then what remains.
Taken(n) == Capped(Capped([size |-> n, cut |-> FALSE], PerFileCap), TotalCap - total)

Take ==
  /\ More /\ size[next] # Unreadable
  /\ parts' = [parts EXCEPT ![next] = Taken(size[next])]
  /\ total' = total + Taken(size[next]).size
  /\ next' = next + 1
  /\ UNCHANGED <<size, prompt>>

Section(name, n) == <<[name |-> name, size |-> n]>>

\* BuildSystemPrompt, once the files are read.
Assemble(tools, learnings, summary) ==
  LET taken == {f \in Files : f < next /\ size[f] # Unreadable} IN
  /\ ~More /\ prompt = <<>>
  /\ prompt' = Section("identity", 0)
       \o (IF taken # {} THEN Section("files", total) ELSE <<>>)
       \o (IF tools THEN Section("tools", 0) ELSE <<>>)
       \o (IF learnings = 0 THEN <<>>
           ELSE Section("learnings",
                        Capped([size |-> learnings, cut |-> FALSE], LearningsCap).size))
       \o (IF summary THEN Section("summary", 0) ELSE <<>>)
  /\ UNCHANGED <<size, next, total, parts>>

Next ==
  \/ Skip \/ Take
  \/ \E tools, summary \in BOOLEAN, n \in Sizes \cup {0} : Assemble(tools, n, summary)

Spec == Init /\ [][Next]_vars

-----------------------------------------------------------------------------
\* The caps bound what is taken, but for the markers, which they do not count:
\* of the two cuts a file can meet, each adds one.
CapsKept ==
  /\ total <= TotalCap + Marker
  /\ \A f \in Files : parts[f].size <= PerFileCap + 2 * Marker
  /\ \A s \in DOMAIN prompt :
       /\ prompt[s].name = "files" => prompt[s].size <= TotalCap + Marker
       /\ prompt[s].name = "learnings" => prompt[s].size <= LearningsCap + Marker

\* Whatever comes later, a file the loop has passed is there whole if it fits
\* its own cap and the budget, and carries the marker otherwise; a file is left
\* out only if it cannot be read or the earlier ones have used the budget up.
NothingLostSilently ==
  /\ \A f \in Files :
       /\ f < next /\ size[f] # Unreadable =>
            parts[f].cut \/ parts[f].size = size[f]
       /\ parts[f].cut => size[f] > PerFileCap \/ total >= TotalCap
  /\ prompt # <<>> /\ next \in Files => total >= TotalCap

\* BudgetKept: the caps hold and nothing is lost without a marker.
BudgetKept == CapsKept /\ NothingLostSilently
=============================================================================
