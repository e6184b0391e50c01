--------------------------- MODULE MCSlayerTasks ---------------------------
(***************************************************************************)
(* The instance of SlayerTasks for TLC: a player close to his tenth task.  *)
(***************************************************************************)
EXTENDS SlayerTasks, TLC

Symmetry == Permutations(Calls) \cup Permutations(Tasks)
=============================================================================
