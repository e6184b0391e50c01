--------------------------- MODULE MCCommandGate ---------------------------
(***************************************************************************)
(* Instances of CommandGate for TLC.                                       *)
(***************************************************************************)
EXTENDS CommandGate, TLC

Symmetry == Permutations(Commands) \cup Permutations(Users)

\* The slice in which queries succeed and no moderator is at work: nothing but
\* a refused button can release what was not acquired.
OnlyRefusalsEnd ==
  \A c \in Commands :
    /\ cmd'[c].kind # "admin"
    /\ cmd[c].phase = "fetch" /\ cmd'[c] = Idle => Refused(c)

RefusingSpec == GateInit /\ [][GateNext /\ OnlyRefusalsEnd]_gateVars
=============================================================================
