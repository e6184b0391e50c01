---------------------------- MODULE MCPlayerDeals ----------------------------
(***************************************************************************)
(* Instances of PlayerDeals for TLC: two players, an item and coins.       *)
(***************************************************************************)
EXTENDS PlayerDeals

CONSTANTS alice, bob, logs

Coins(n) == [items |-> NoItems, coins |-> n]
Log == [items |-> [i \in Items |-> 1], coins |-> 0]

Offer(kind, from, to, give, take) ==
  [kind |-> kind, from |-> from, to |-> to, give |-> give, take |-> take]

\* Each kind of deal, and deals that cross each other.
SampleOffers == {
  Offer("pay", alice, bob, Coins(10), Nothing),
  Offer("pay", bob, alice, Coins(20), Nothing),
  Offer("trade", alice, bob, Log, Coins(10)),
  Offer("trade", bob, alice, Coins(20), Log),
  Offer("duel", bob, alice, Coins(10), Coins(10)) }

\* Other commands spend coins and use up the item.
Spendings == { Out(bob, Coins(10)), Out(alice, Log), Out(alice, Coins(10)), In(bob, Log) }

StartBank == [u \in {alice, bob} |-> IF u = alice THEN [i \in {logs} |-> 1] ELSE [i \in {logs} |-> 0]]
StartCoins == [u \in {alice, bob} |-> IF u = alice THEN 10 ELSE 20]
=============================================================================
