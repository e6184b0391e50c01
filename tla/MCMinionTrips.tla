--------------------------- MODULE MCMinionTrips ---------------------------
(***************************************************************************)
(* Instances of MinionTrips for TLC.                                       *)
(***************************************************************************)
EXTENDS MinionTrips, TLC

Solo == {}
Pairs == {S \in SUBSET Users : Cardinality(S) = 2}

\* Everybody types commands.
AllType == [u \in Users |-> {"slash"}]

\* A player whose commands can start others, and a moderator.
PlayerAndModerator == [u \in Users |-> IF u = "player" THEN {"slash", "nested"} ELSE {"admin"}]

Symmetry == Permutations(Commands) \cup Permutations(Trips) \cup Permutations(Users)
=============================================================================
