------------------------------- MODULE Gathering -------------------------------
(***************************************************************************)
(* What a party promises the command that asks for one: it gathers around  *)
(* its leader, who stays; it either departs with enough members or is      *)
(* called off; what is over stays over.                                    *)
(***************************************************************************)
EXTENDS Integers, FiniteSets

CONSTANTS
  Users,    \* discord users
  Lobbies,  \* slots for the parties that are set up
  NoUser,   \* the leader of an unused slot
  MinSize   \* members a party needs to depart

VARIABLES
  host,     \* who leads each party
  party,    \* who is in it; nobody when it was called off
  outcome   \* how far it is

gatheringVars == <<host, party, outcome>>

Outcomes == {"none", "gathering", "departed", "off"}

GatheringInit ==
  /\ host = [l \in Lobbies |-> NoUser]
  /\ party = [l \in Lobbies |-> {}]
  /\ outcome = [l \in Lobbies |-> "none"]

Gathers(l, u) ==
  /\ outcome[l] = "none"
  /\ host' = [host EXCEPT ![l] = u]
  /\ party' = [party EXCEPT ![l] = {u}]
  /\ outcome' = [outcome EXCEPT ![l] = "gathering"]

Joins(l, u) ==
  /\ outcome[l] = "gathering"
  /\ party' = [party EXCEPT ![l] = @ \cup {u}]
  /\ UNCHANGED <<host, outcome>>

Leaves(l, u) ==
  /\ outcome[l] = "gathering"
  /\ u # host[l]
  /\ party' = [party EXCEPT ![l] = @ \ {u}]
  /\ UNCHANGED <<host, outcome>>

DepartsTogether(l) ==
  /\ outcome[l] = "gathering"
  /\ Cardinality(party[l]) >= MinSize
  /\ outcome' = [outcome EXCEPT ![l] = "departed"]
  /\ UNCHANGED <<host, party>>

CalledOff(l) ==
  /\ outcome[l] = "gathering"
  /\ outcome' = [outcome EXCEPT ![l] = "off"]
  /\ party' = [party EXCEPT ![l] = {}]
  /\ UNCHANGED host

GatheringNext ==
  \E l \in Lobbies :
    \/ DepartsTogether(l)
    \/ CalledOff(l)
    \/ \E u \in Users : Gathers(l, u) \/ Joins(l, u) \/ Leaves(l, u)

GatheringSpec == GatheringInit /\ [][GatheringNext]_gatheringVars
=============================================================================
