----------------------------- MODULE MCUserBank -----------------------------
(***************************************************************************)
(* Instances of UserBank for TLC: one user, since queues and rows of two   *)
(* users never meet, an ordinary item and a clue scroll.                   *)
(***************************************************************************)
EXTENDS UserBank, TLC

CONSTANTS user, logs, clue

Some(i, n) == [j \in {logs, clue} |-> IF j = i THEN n ELSE 0]
None == Some(logs, 0)

Ask(add, remove, coinsAdd, coinsRemove, log) ==
  [user |-> user, add |-> add, remove |-> remove,
   coinsAdd |-> coinsAdd, coinsRemove |-> coinsRemove, log |-> log]

\* Loot, clues from nowhere, a reward bought with a clue and coins, a sale,
\* a clue that is handed in for another one.
SampleRequests == {
  Ask([j \in {logs, clue} |-> 1], None, 2, 0, TRUE),
  Ask(Some(clue, 2), None, 0, 0, FALSE),
  Ask(Some(logs, 1), Some(clue, 1), 0, 2, TRUE),
  Ask(None, Some(logs, 1), 1, 0, FALSE),
  Ask(Some(clue, 1), Some(clue, 1), 1, 2, TRUE) }

Symmetry == Permutations(Calls) \cup Permutations(Wagers)
=============================================================================
