----------------------------- MODULE MCGiveaways -----------------------------
(***************************************************************************)
(* Instances of Giveaways for TLC: a hostess with two logs; whoever wins   *)
(* one can give it away in turn.                                           *)
(***************************************************************************)
EXTENDS Giveaways

CONSTANTS hostess, alice, bob, logs

OneLog == { [items |-> [i \in {logs} |-> 1], coins |-> 0] }

SomeLogs ==
  [u \in Users |-> [i \in {logs} |-> IF u = hostess THEN 2 ELSE 0]]

\* The hostess clicks Repeat once while she is busy.
HostessOnce == [u \in Users |-> IF u = hostess THEN 1 ELSE 0]
=============================================================================
