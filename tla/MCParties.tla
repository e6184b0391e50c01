------------------------------ MODULE MCParties ------------------------------
(***************************************************************************)
(* Instances of Parties for TLC.                                           *)
(***************************************************************************)
EXTENDS Parties

(* Up to the names of the users, who are alike: one leads the mass, and    *)
(* another the raid.                                                       *)
FirstHosts == [l \in Lobbies |-> IF l \in Sliced THEN {"bob"} ELSE {"ann"}]
=============================================================================
