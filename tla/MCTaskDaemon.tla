---------------------------- MODULE MCTaskDaemon ----------------------------
(***************************************************************************)
(* Instances of TaskDaemon for TLC: one daemon slot (the daemon may end    *)
(* and start again as often as it likes), and one or two commands at a     *)
(* time.  Symmetry is for the run without liveness only.                   *)
(***************************************************************************)
EXTENDS TaskDaemon, TLC

CONSTANTS d1, c1, c2

MCDaemons == {d1}
MCOneCli  == {c1}
MCClis    == {c1, c2}

CliSymmetry == Permutations(MCClis)
=============================================================================
