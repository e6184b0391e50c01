----------------------------- MODULE AtomicBank -----------------------------
(***************************************************************************)
(* What transactItems promises: every transaction on a user's bank and     *)
(* coins happens at one instant, as a whole or not at all.                 *)
(***************************************************************************)
EXTENDS Integers

CONSTANTS
  Users,
  Items,     \* item kinds other than coins
  Clues,     \* the clue scrolls among them: nobody may own two of a tier
  Requests   \* the transactions that are asked for

NoItems == [i \in Items |-> 0]

Banks == [Items -> Nat]

\* A bundle of goods.
Purses == [items : Banks, coins : Nat]

RequestType ==
  [user : Users, add : Banks, remove : Banks, coinsAdd : Nat, coinsRemove : Nat, log : BOOLEAN]

ASSUME BankAssumption ==
  /\ Clues \subseteq Items
  /\ Requests \subseteq RequestType

VARIABLES
  bank,  \* the items each user owns
  gp     \* the coins each user owns

ledger == <<bank, gp>>

-----------------------------------------------------------------------------
Less(b, c) == [i \in Items |-> IF b[i] > c[i] THEN b[i] - c[i] ELSE 0]

Removes(r) == r.remove # NoItems \/ r.coinsRemove > 0

\* A slip: the loot is not deduplicated.
GainsEverything(b, r) == r.add

(* deduplicateClueScrolls: none to a bank that keeps one, else a single.   *)
Gains(b, r) ==
  [i \in Items |->
     IF i \in Clues /\ r.add[i] > 0
       THEN IF Less(b, r.remove)[i] > 0 THEN 0 ELSE 1
       ELSE r.add[i]]

\* A slip: only the items are checked.
GrantedByItems(b, coins, r) == \A i \in Items : b[i] + Gains(b, r)[i] >= r.remove[i]

(* The coins are compared net of the loot, the items after it was added.   *)
Granted(b, coins, r) ==
  /\ Removes(r) => coins >= r.coinsRemove - r.coinsAdd
  /\ \A i \in Items : b[i] + Gains(b, r)[i] >= r.remove[i]

BankAfter(b, r) == [i \in Items |-> b[i] + Gains(b, r)[i] - r.remove[i]]

CoinChange(r) == r.coinsAdd - r.coinsRemove

Has(u, p) == gp[u] >= p.coins /\ \A i \in Items : bank[u][i] >= p.items[i]

\* removeItemsFromBank and addItemsToBank as transactions.
Out(u, p) ==
  [user |-> u, add |-> NoItems, remove |-> p.items, coinsAdd |-> 0, coinsRemove |-> p.coins,
   log |-> FALSE]

In(u, p) ==
  [user |-> u, add |-> p.items, remove |-> NoItems, coinsAdd |-> p.coins, coinsRemove |-> 0,
   log |-> FALSE]

-----------------------------------------------------------------------------
BankInit ==
  /\ bank = [u \in Users |-> NoItems]
  /\ gp = [u \in Users |-> 0]

Transaction(r) ==
  /\ Granted(bank[r.user], gp[r.user], r)
  /\ bank' = [bank EXCEPT ![r.user] = BankAfter(bank[r.user], r)]
  /\ gp' = [gp EXCEPT ![r.user] = @ + CoinChange(r)]

BankNext == \E r \in Requests : Transaction(r)

BankSpec == BankInit /\ [][BankNext]_ledger

-----------------------------------------------------------------------------
(* No one owns a negative number of an item or of coins.                   *)
Solvent ==
  /\ bank \in [Users -> Banks]
  /\ gp \in [Users -> Nat]

(* No one owns two clue scrolls of a tier (clueUtils.ts:9-23).             *)
OneClueOfATier == \A u \in Users : \A i \in Clues : bank[u][i] <= 1
=============================================================================
