------------------------ MODULE ProcessManager_proofs ------------------------
(***************************************************************************)
(* The safety of the process manager, for every set of session IDs and     *)
(* every limit.                                                            *)
(*                                                                         *)
(* Sessions meet only in the limit.  Sound(s) says of one session where    *)
(* its goroutine, its process, its context and its status may be together; *)
(* every step keeps it for the session it belongs to and leaves the others *)
(* alone.  The limit is about the statuses of all, so it has an invariant  *)
(* and an argument by cardinalities of its own.                            *)
(***************************************************************************)
EXTENDS ProcessManager, FiniteSetTheorems, TLAPS

Final == {"done", "failed", "timed_out"}

\* A session before Spawn, after a failed one, and while its goroutine runs;
\* Reap and Report have seen the exit.
Phases(s) ==
  /\ status[s] = "absent" => gor[s] = "none" /\ child[s] = "none"
  /\ gor[s] = "none" <=> child[s] = "none"
  /\ gor[s] = "none" => status[s] \in {"absent", "running", "killed", "failed"}
  /\ IF gor[s] = "none" THEN ctx[s] # "live" ELSE ctx[s] # "none"
  /\ gor[s] \in {"capture", "reap", "report"} => status[s] \in {"running", "killed"}
  /\ gor[s] \in {"report", "end"} => child[s] \in {"ok", "bad"}
  /\ gor[s] = "end" => status[s] \in Final /\ ctx[s] # "live"

\* What cmd.Wait has returned, until Report makes its verdict of it.
Errors(s) ==
  gor[s] = "report" =>
    /\ child[s] = "bad" => err[s]
    /\ child[s] = "ok" /\ err[s] => ctx[s] \in {"canceled", "expired"}

\* VerdictsMatchFates and WaitIsFinalUnlessKilled, of one session.
Verdicts(s) ==
  /\ status[s] = "done" => child[s] = "ok"
  /\ status[s] = "timed_out" => ctx[s] = "expired" /\ child[s] \in {"ok", "bad"}
  /\ status[s] = "failed" =>
       child[s] \in {"none", "bad"} \/ (child[s] = "ok" /\ ctx[s] = "canceled")
  /\ status[s] = "killed" => s \in killed
  /\ s \notin killed /\ seen[s] # "none" => status[s] = seen[s] /\ status[s] \in Final

Sound(s) == Phases(s) /\ Errors(s) /\ Verdicts(s)

IInv == TypeOK /\ \A s \in Ids : Sound(s)

\* The limit counts what is running, until a session leaves that status.
Limited == Cardinality(RunningIds) <= MaxConcurrent

-----------------------------------------------------------------------------
LEMMA InitIInv == Init => IInv
  BY DEF Init, IInv, TypeOK, Sound, Phases, Errors, Verdicts

\* A session none of whose variables changes stays sound.
LEMMA OthersSound ==
  ASSUME NEW t \in Ids, Sound(t),
         status'[t] = status[t], child'[t] = child[t], ctx'[t] = ctx[t],
         gor'[t] = gor[t], err'[t] = err[t], seen'[t] = seen[t],
         t \in killed' <=> t \in killed
  PROVE  Sound(t)'
  BY DEF Sound, Phases, Errors, Verdicts, Final

\* What one session's step changes is that session's.
Elsewhere(s) ==
  \A t \in Ids \ {s} :
    /\ status'[t] = status[t] /\ child'[t] = child[t] /\ ctx'[t] = ctx[t]
    /\ gor'[t] = gor[t] /\ err'[t] = err[t] /\ seen'[t] = seen[t]
    /\ t \in killed' <=> t \in killed

LEMMA OneSession ==
  ASSUME NEW s \in Ids, IInv, TypeOK', Elsewhere(s), Sound(s)'
  PROVE  IInv'
  <1>1. ASSUME NEW t \in Ids, t # s PROVE Sound(t)'
    BY <1>1, OthersSound DEF IInv, Elsewhere
  <1> QED BY <1>1 DEF IInv

LEMMA SpawnIInv ==
  ASSUME IInv, NEW s \in Ids, Spawn(s) \/ SpawnStartFails(s) \/ SpawnPipeFails(s)
  PROVE  IInv'
  <1> USE DEF IInv, TypeOK, Admits
  <1>1. CASE Spawn(s)
    <2>1. TypeOK' /\ Elsewhere(s)
      BY <1>1 DEF Spawn, Elsewhere
    <2>2. Sound(s)'
      BY <1>1 DEF Spawn, Sound, Phases, Errors, Verdicts, Final
    <2> QED BY <2>1, <2>2, OneSession
  <1>2. CASE SpawnStartFails(s)
    <2>1. TypeOK' /\ Elsewhere(s)
      BY <1>2 DEF SpawnStartFails, Elsewhere
    <2>2. Sound(s)'
      BY <1>2 DEF SpawnStartFails, Sound, Phases, Errors, Verdicts, Final
    <2> QED BY <2>1, <2>2, OneSession
  <1>3. CASE SpawnPipeFails(s)
    <2>1. TypeOK' /\ Elsewhere(s)
      BY <1>3 DEF SpawnPipeFails, Elsewhere
    <2>2. Sound(s)'
      BY <1>3 DEF SpawnPipeFails, Sound, Phases, Errors, Verdicts, Final
    <2> QED BY <2>1, <2>2, OneSession
  <1> QED BY <1>1, <1>2, <1>3

LEMMA KillIInv ==
  ASSUME IInv, NEW s \in Ids, Kill(s)
  PROVE  IInv'
  <1>1. TypeOK' /\ Elsewhere(s)
    BY DEF IInv, TypeOK, Kill, Elsewhere
  <1>2. Sound(s)'
    BY DEF IInv, TypeOK, Kill, Sound, Phases, Errors, Verdicts, Final
  <1> QED BY <1>1, <1>2, OneSession

LEMMA WaitIInv ==
  ASSUME IInv, NEW s \in Ids, WaitReturns(s)
  PROVE  IInv'
  <1>1. TypeOK' /\ Elsewhere(s)
    BY DEF IInv, TypeOK, WaitReturns, Elsewhere
  <1>2. Sound(s)'
    BY DEF IInv, TypeOK, WaitReturns, Sound, Phases, Errors, Verdicts, Final
  <1> QED BY <1>1, <1>2, OneSession

LEMMA GoroutineIInv ==
  ASSUME IInv, NEW s \in Ids, CaptureDone(s) \/ Reap(s) \/ Report(s)
  PROVE  IInv'
  <1> USE DEF IInv, TypeOK
  <1>1. CASE CaptureDone(s)
    <2>1. TypeOK' /\ Elsewhere(s)
      BY <1>1 DEF CaptureDone, Elsewhere
    <2>2. Sound(s)'
      BY <1>1 DEF CaptureDone, Sound, Phases, Errors, Verdicts, Final
    <2> QED BY <2>1, <2>2, OneSession
  <1>2. CASE Reap(s)
    <2>1. PICK e \in BOOLEAN :
            /\ child[s] = "bad" => e
            /\ child[s] = "ok" /\ ctx[s] = "live" => ~e
            /\ err' = [err EXCEPT ![s] = e]
      BY <1>2 DEF Reap
    <2>2. TypeOK' /\ Elsewhere(s)
      BY <1>2, <2>1 DEF Reap, Elsewhere
    <2>3. err'[s] = e
      BY <2>1
    <2>4. ctx[s] # "none"
      BY <1>2 DEF Reap, Sound, Phases
    <2>5. Sound(s)'
      BY <1>2, <2>1, <2>3, <2>4 DEF Reap, Sound, Phases, Errors, Verdicts, Final
    <2> QED BY <2>2, <2>5, OneSession
  <1>3. CASE Report(s)
    <2>1. TypeOK' /\ Elsewhere(s)
      BY <1>3 DEF Report, Elsewhere, Verdict
    <2>2. Sound(s)'
      BY <1>3 DEF Report, Verdict, Sound, Phases, Errors, Verdicts, Final
    <2> QED BY <2>1, <2>2, OneSession
  <1> QED BY <1>1, <1>2, <1>3

LEMMA EnvironmentIInv ==
  ASSUME IInv, NEW s \in Ids,
         \/ ChildExits(s) \/ KillByContext(s) \/ HolderExits(s)
         \/ \E how \in {"canceled", "expired"} : ContextEnds(s, how)
  PROVE  IInv'
  <1> USE DEF IInv, TypeOK
  <1>1. CASE ChildExits(s)
    <2>1. TypeOK' /\ Elsewhere(s)
      BY <1>1 DEF ChildExits, Elsewhere
    <2>2. Sound(s)'
      BY <1>1 DEF ChildExits, Sound, Phases, Errors, Verdicts, Final
    <2> QED BY <2>1, <2>2, OneSession
  <1>2. CASE KillByContext(s)
    <2>1. TypeOK' /\ Elsewhere(s)
      BY <1>2 DEF KillByContext, Elsewhere
    <2>2. Sound(s)'
      BY <1>2 DEF KillByContext, Sound, Phases, Errors, Verdicts, Final
    <2> QED BY <2>1, <2>2, OneSession
  <1>3. CASE HolderExits(s)
    <2>1. TypeOK' /\ Elsewhere(s)
      BY <1>3 DEF HolderExits, Elsewhere
    <2>2. Sound(s)'
      BY <1>3 DEF HolderExits, Sound, Phases, Errors, Verdicts, Final
    <2> QED BY <2>1, <2>2, OneSession
  <1>4. ASSUME NEW how \in {"canceled", "expired"}, ContextEnds(s, how)
        PROVE  IInv'
    <2>1. TypeOK' /\ Elsewhere(s)
      BY <1>4 DEF ContextEnds, Elsewhere
    <2>2. Sound(s)'
      BY <1>4 DEF ContextEnds, Sound, Phases, Errors, Verdicts, Final
    <2> QED BY <2>1, <2>2, OneSession
  <1> QED BY <1>1, <1>2, <1>3, <1>4

LEMMA NextIInv == IInv /\ [Next]_vars => IInv'
  <1> SUFFICES ASSUME IInv, [Next]_vars PROVE IInv'
    OBVIOUS
  <1>1. CASE UNCHANGED vars
    BY <1>1 DEF vars, IInv, TypeOK, Sound, Phases, Errors, Verdicts
  <1>2. CASE Next
    BY <1>2, SpawnIInv, KillIInv, WaitIInv, GoroutineIInv, EnvironmentIInv DEF Next
  <1> QED BY <1>1, <1>2

LEMMA Invariance == Spec => []IInv
  BY InitIInv, NextIInv, PTL DEF Spec

-----------------------------------------------------------------------------
\* TypeOK: the variables keep their types.
THEOREM TypeCorrect == Spec => []TypeOK
  <1>1. IInv => TypeOK
    BY DEF IInv
  <1> QED BY <1>1, Invariance, PTL

\* A verdict is never better than the fate of the process, and never given
\* while it lives.
THEOREM TrueVerdicts == Spec => []VerdictsMatchFates
  <1>1. IInv => VerdictsMatchFates
    BY DEF IInv, Sound, Phases, Verdicts, VerdictsMatchFates, Final
  <1> QED BY <1>1, Invariance, PTL

\* What Wait has reported of a session that nobody killed is the last word.
THEOREM FinalWait == Spec => []WaitIsFinalUnlessKilled
  <1>1. IInv => WaitIsFinalUnlessKilled
    BY DEF IInv, TypeOK, Sound, Phases, Verdicts, WaitIsFinalUnlessKilled, Final
  <1> QED BY <1>1, Invariance, PTL

-----------------------------------------------------------------------------
LEMMA RunningFinite == IsFiniteSet(RunningIds) /\ Cardinality(RunningIds) \in Nat
  BY IdsAssumption, FS_Subset, FS_CardinalityType DEF RunningIds

\* A set that takes in at most one session while there is room stays limited.
LEMMA LimitKept ==
  ASSUME Limited, NEW R, NEW s,
         \/ R \subseteq RunningIds
         \/ R \subseteq RunningIds \cup {s} /\ Cardinality(RunningIds) < MaxConcurrent
  PROVE  Cardinality(R) <= MaxConcurrent
  <1>1. CASE R \subseteq RunningIds
    <2>1. Cardinality(R) \in Nat /\ Cardinality(R) <= Cardinality(RunningIds)
      BY <1>1, RunningFinite, FS_Subset, FS_CardinalityType
    <2> QED BY <2>1, RunningFinite, MaxAssumption DEF Limited
  <1>2. CASE R \subseteq RunningIds \cup {s} /\ Cardinality(RunningIds) < MaxConcurrent
    <2>1. /\ IsFiniteSet(RunningIds \cup {s})
          /\ Cardinality(RunningIds \cup {s}) \in Nat
          /\ Cardinality(RunningIds \cup {s}) <= Cardinality(RunningIds) + 1
      <3>1. IsFiniteSet(RunningIds) /\ Cardinality(RunningIds) \in Nat
        BY RunningFinite
      <3>2. CASE s \in RunningIds
        <4>1. RunningIds \cup {s} = RunningIds
          BY <3>2
        <4> QED BY <3>1, <4>1
      <3>3. CASE s \notin RunningIds
        <4>1. /\ IsFiniteSet(RunningIds \cup {s})
              /\ Cardinality(RunningIds \cup {s}) = Cardinality(RunningIds) + 1
          BY <3>1, <3>3, FS_AddElement
        <4> QED BY <3>1, <4>1
      <3> QED BY <3>2, <3>3
    <2>2. Cardinality(R) \in Nat /\ Cardinality(R) <= Cardinality(RunningIds \cup {s})
      BY <1>2, <2>1, FS_Subset, FS_CardinalityType
    <2> QED BY <1>2, <2>1, <2>2, RunningFinite, MaxAssumption
  <1> QED BY <1>1, <1>2

LEMMA InitLimited == Init => Limited
  <1> SUFFICES ASSUME Init PROVE Limited
    OBVIOUS
  <1>1. RunningIds = {}
    BY DEF Init, RunningIds
  <1> QED BY <1>1, FS_EmptySet, MaxAssumption DEF Limited

\* Only Spawn makes a session running, and it has looked at the limit.
LEMMA NextLimited == IInv /\ Limited /\ [Next]_vars => Limited'
  <1> SUFFICES ASSUME IInv, Limited, [Next]_vars PROVE Limited'
    OBVIOUS
  <1>1. CASE UNCHANGED vars
    BY <1>1 DEF vars, Limited, RunningIds
  <1>2. ASSUME NEW s \in Ids,
               Spawn(s) \/ SpawnStartFails(s) \/ SpawnPipeFails(s)
        PROVE  Limited'
    <2>1. RunningIds' \subseteq RunningIds \cup {s}
      BY <1>2 DEF IInv, TypeOK, Spawn, SpawnStartFails, SpawnPipeFails, RunningIds
    <2>2. Cardinality(RunningIds) < MaxConcurrent
      BY <1>2 DEF Spawn, SpawnStartFails, SpawnPipeFails, Admits
    <2> QED BY <2>1, <2>2, LimitKept DEF Limited
  <1>3. ASSUME NEW s \in Ids, Kill(s) \/ Report(s)
        PROVE  Limited'
    <2>1. RunningIds' \subseteq RunningIds
      BY <1>3 DEF IInv, TypeOK, Kill, Report, Verdict, RunningIds
    <2> QED BY <2>1, LimitKept DEF Limited
  <1>4. ASSUME NEW s \in Ids,
               \/ WaitReturns(s) \/ CaptureDone(s) \/ Reap(s)
               \/ ChildExits(s) \/ KillByContext(s) \/ HolderExits(s)
               \/ \E how \in {"canceled", "expired"} : ContextEnds(s, how)
        PROVE  Limited'
    <2>1. status' = status
      BY <1>4 DEF WaitReturns, CaptureDone, Reap, ChildExits, KillByContext,
                  HolderExits, ContextEnds
    <2> QED BY <2>1 DEF Limited, RunningIds
  <1> QED BY <1>1, <1>2, <1>3, <1>4 DEF Next

\* The limit bounds real processes: one that lives and was not killed is
\* still counted.
THEOREM BoundedProcesses == Spec => []ProcessesBounded
  <1>1. IInv /\ Limited => ProcessesBounded
    <2> SUFFICES ASSUME IInv, Limited PROVE ProcessesBounded
      OBVIOUS
    <2> DEFINE alive == {s \in Ids : child[s] = "alive" /\ s \notin killed}
    <2>1. alive \subseteq RunningIds
      BY DEF IInv, TypeOK, Sound, Phases, Verdicts, Final, RunningIds
    <2> HIDE DEF alive
    <2>2. Cardinality(alive) <= MaxConcurrent
      BY <2>1, LimitKept
    <2> QED BY <2>2 DEF alive, ProcessesBounded
  <1>2. Spec => []Limited
    <2>1. Spec => []IInv /\ Init /\ [][Next]_vars
      BY Invariance, PTL DEF Spec
    <2> QED BY <2>1, InitLimited, NextLimited, PTL
  <1> QED BY <1>1, <1>2, Invariance, PTL
=============================================================================
