----------------------------- MODULE PlayerDeals -----------------------------
(***************************************************************************)
(* Deals between two players: /pay, /trade and duels for coins.            *)
(*                                                                         *)
(* A deal checks what the parties own, asks for confirmation, checks again *)
(* (/pay does not), and then moves the goods by a sequence of transactions *)
(* on one user each.  Every one of them is atomic; the sequence is not:    *)
(* other commands, other deals and the end of the process come in between. *)
(***************************************************************************)
EXTENDS AtomicBank, Sequences, FiniteSets, Functions

CONSTANTS
  Deals,         \* slots for deals
  Offers,        \* the deals players propose in this instance
  NoOffer,
  InitialBank,   \* what each user owns in the beginning
  InitialCoins,
  MaxOthers      \* bound: transactions of other commands

Nothing == [items |-> NoItems, coins |-> 0]

DealKinds == {"pay", "trade", "duel"}

\* from gives "give", to gives "take"; in a duel these are the stakes.
OfferType ==
  [kind : DealKinds, from : Users, to : Users, give : Purses, take : Purses]

ASSUME DealAssumption ==
  /\ Offers \subseteq OfferType
  /\ NoOffer \notin Offers
  /\ \A o \in Offers :
       /\ o.from # o.to
       /\ \A i \in Clues : o.give.items[i] = 0 /\ o.take.items[i] = 0
       /\ o.kind = "pay" => o.give.items = NoItems /\ o.take = Nothing
       /\ o.kind = "duel" => o.give.items = NoItems /\ o.take = o.give
  /\ InitialBank \in [Users -> Banks]
  /\ InitialCoins \in [Users -> Nat]
  /\ MaxOthers \in Nat
  /\ IsFiniteSet(Deals)

VARIABLES
  deal,    \* what each slot is doing
  others,  \* transactions of other commands so far
  raced    \* ghost: the parties somebody else's transaction got at since the deal checked them

dealVars == <<bank, gp, deal, others, raced>>

DealPhases == {"unused", "asked", "agreed", "synced", "moving", "over"}
Replies == {"none", "done", "refused", "cancelled", "error"}

\* next counts the transactions, sound is what the check of the sender found.
DealStates ==
  [offer : Offers \cup {NoOffer}, at : DealPhases, next : 1..5, sound : BOOLEAN, reply : Replies]
Deal(o, phase) == [offer |-> o, at |-> phase, next |-> 1, sound |-> FALSE, reply |-> "none"]
UnusedDeal == Deal(NoOffer, "unused")

Live(d) == deal[d].at \notin {"unused", "over"}

DealTypeOK ==
  /\ bank \in [Users -> [Items -> Int]]
  /\ gp \in [Users -> Int]
  /\ deal \in [Deals -> DealStates]
  /\ \A d \in Deals : deal[d].at # "unused" => deal[d].offer \in Offers
  /\ others \in 0..MaxOthers
  /\ raced \subseteq Deals \X Users

-----------------------------------------------------------------------------
\* Both stakes less five percent; the stakes of an instance are multiples
\* of ten, so this is a whole number.
Winnings(o) == [items |-> NoItems, coins |-> (19 * o.give.coins) \div 10]

\* A slip: the buyer gets the goods before he pays.
LegsGivenFirst(o, winner) ==
  CASE o.kind = "pay"   -> << In(o.to, o.give), Out(o.from, o.give) >>
    [] o.kind = "trade" -> << Out(o.from, o.give), In(o.to, o.give), Out(o.to, o.take), In(o.from, o.take) >>
    [] o.kind = "duel"  -> << Out(o.from, o.give), Out(o.to, o.take), In(winner, Winnings(o)) >>

Legs(o, winner) ==
  CASE o.kind = "pay"   -> << Out(o.from, o.give), In(o.to, o.give) >>
    [] o.kind = "trade" -> << Out(o.from, o.give), Out(o.to, o.take), In(o.from, o.take), In(o.to, o.give) >>
    [] o.kind = "duel"  -> << Out(o.from, o.give), Out(o.to, o.take), In(winner, Winnings(o)) >>

Winners(o) == IF o.kind = "duel" THEN {o.from, o.to} ELSE {o.from}

Leg(d, winner) == Legs(deal[d].offer, winner)[deal[d].next]

Goes(d, phase) == deal' = [deal EXCEPT ![d].at = phase]

Closes(d, reply) == deal' = [deal EXCEPT ![d].at = "over", ![d].reply = reply]

Touch(u, mine) == raced' = raced \cup {<<e, u>> : e \in {e \in Deals : Live(e)} \ mine}

-----------------------------------------------------------------------------
DealInit ==
  /\ bank = InitialBank
  /\ gp = InitialCoins
  /\ deal = [d \in Deals |-> UnusedDeal]
  /\ others = 0
  /\ raced = {}

(* The command looks at what its user owns, a duel at the target too.      *)
Opens(d, o) ==
  /\ deal[d].at = "unused"
  /\ Has(o.from, o.give)
  /\ o.kind = "duel" => Has(o.to, o.take)
  /\ deal' = [deal EXCEPT ![d] = Deal(o, "asked")]
  /\ UNCHANGED <<bank, gp, others, raced>>

(* Cancelled, declined or not answered in time.                            *)
Declined(d) ==
  /\ deal[d].at = "asked"
  /\ Closes(d, "cancelled")
  /\ UNCHANGED <<bank, gp, others, raced>>

(* Confirmed; /pay, which asks only about large amounts, goes straight on. *)
Agrees(d) ==
  /\ deal[d].at = "asked"
  /\ Goes(d, IF deal[d].offer.kind = "pay" THEN "moving" ELSE "agreed")
  /\ UNCHANGED <<bank, gp, others, raced>>

(* The sender's row is read again ...                                      *)
SyncFrom(d) ==
  LET o == deal[d].offer IN
  /\ deal[d].at = "agreed"
  /\ deal' = [deal EXCEPT ![d].at = "synced", ![d].sound = Has(o.from, o.give)]
  /\ raced' = raced \ {<<d, o.from>>}
  /\ UNCHANGED <<bank, gp, others>>

\* A slip: the other party's goods are not checked again.
SyncToUnchecked(d) ==
  LET o == deal[d].offer IN
  /\ deal[d].at = "synced"
  /\ IF deal[d].sound THEN Goes(d, "moving") ELSE Closes(d, "refused")
  /\ raced' = raced \ {<<d, o.to>>}
  /\ UNCHANGED <<bank, gp, others>>

(* ... then the other party's, and both are checked.                       *)
SyncTo(d) ==
  LET o == deal[d].offer IN
  /\ deal[d].at = "synced"
  /\ IF deal[d].sound /\ Has(o.to, o.take) THEN Goes(d, "moving") ELSE Closes(d, "refused")
  /\ raced' = raced \ {<<d, o.to>>}
  /\ UNCHANGED <<bank, gp, others>>

(* The next transaction of the sequence; the last one ends the deal.       *)
LegRuns(d, winner) ==
  LET last == deal[d].next = Len(Legs(deal[d].offer, winner)) IN
  /\ deal[d].at = "moving"
  /\ winner \in Winners(deal[d].offer)
  /\ Transaction(Leg(d, winner))
  /\ deal' = [deal EXCEPT ![d].next = @ + 1,
                          ![d].at = IF last THEN "over" ELSE @,
                          ![d].reply = IF last THEN "done" ELSE @]
  /\ Touch(Leg(d, winner).user, {d})
  /\ UNCHANGED others

\* A slip: a refused transaction is tried again until it goes through.
LegIsRetried(d) ==
  /\ deal[d].at = "moving"
  /\ UNCHANGED dealVars

(* A transaction is refused, or any query throws.  What the deal has taken *)
(* is not given back, and a duel is reported as not accepted in time.      *)
DealFails(d) ==
  /\ deal[d].at \in {"agreed", "synced", "moving"}
  /\ Closes(d, IF deal[d].offer.kind = "duel" THEN "cancelled" ELSE "error")
  /\ UNCHANGED <<bank, gp, others, raced>>

(* A transaction of any other command.                                     *)
Others(r) ==
  /\ others < MaxOthers
  /\ others' = others + 1
  /\ Transaction(r)
  /\ Touch(r.user, {})
  /\ UNCHANGED deal

(* The process dies: no deal is ever taken up again.                       *)
DealsDie ==
  /\ deal' = [d \in Deals |-> IF Live(d) THEN [deal[d] EXCEPT !.at = "over"] ELSE deal[d]]
  /\ UNCHANGED <<bank, gp, others, raced>>

-----------------------------------------------------------------------------
DealGoesOn(d) ==
  \/ Declined(d) \/ Agrees(d) \/ SyncFrom(d) \/ SyncTo(d)
  \/ \E winner \in Users : LegRuns(d, winner)
  \/ DealFails(d)

DealNext ==
  \/ \E d \in Deals : DealGoesOn(d) \/ \E o \in Offers : Opens(d, o)
  \/ \E r \in Requests : Others(r)
  \/ DealsDie

DealSafety == DealInit /\ [][DealNext]_dealVars

\* Prompts time out and transactions are answered.
DealSpec == DealSafety /\ \A d \in Deals : WF_dealVars(DealGoesOn(d))

-----------------------------------------------------------------------------
\* What deal d has taken from u and not handed over yet.
Held(d, u) ==
  LET o == deal[d].offer
      next == deal[d].next
  IN
  IF ~Live(d) \/ next = 1 THEN Nothing
  ELSE IF u = o.from THEN o.give
  ELSE IF u = o.to /\ next = 3 THEN o.take
  ELSE Nothing

\* What u owns, counting what deals hold.
Owned(u) ==
  [items |-> [i \in Items |->
                bank[u][i] + SumFunctionOnSet([d \in Deals |-> Held(d, u).items[i]], Deals)],
   coins |-> gp[u] + SumFunctionOnSet([d \in Deals |-> Held(d, u).coins], Deals)]

NoMore(p, q) == p.coins <= q.coins /\ \A i \in Items : p.items[i] <= q.items[i]

Joined(p, q) ==
  [items |-> [i \in Items |-> p.items[i] + q.items[i]], coins |-> p.coins + q.coins]

\* a hands something to b.
HandsOver(a, b) ==
  /\ NoMore(Owned(a)', Owned(a))
  /\ NoMore(Joined(Owned(a)', Owned(b)'), Joined(Owned(a), Owned(b)))
  /\ \A c \in Users \ {a, b} : NoMore(Owned(c)', Owned(c))

(* Goods only change hands: no step of a deal, and no way it can fail,     *)
(* gives one party more than the other one loses                           *)
(* (trade.ts:125-133, pay.ts:62-73, duelCommand.ts:84-121).                *)
GoodsOnlyChangeHands ==
  [][\/ \E r \in Requests : Others(r)
     \/ \A u \in Users : NoMore(Owned(u)', Owned(u))
     \/ \E a, b \in Users : a # b /\ HandsOver(a, b)]_dealVars

(* A deal that got past its checks can be carried out: its transactions    *)
(* are refused only if somebody else's got at the party in between         *)
(* (trade.ts:125-131, duelCommand.ts:77-86, pay.ts:49-67).                 *)
RefusedOnlyByRaces ==
  \A d \in Deals : deal[d].at = "moving" =>
    \A w \in Winners(deal[d].offer) :
      LET r == Leg(d, w) IN
        <<d, r.user>> \notin raced => Granted(bank[r.user], gp[r.user], r)

(* Every deal comes to an end.                                             *)
DealsEnd == \A d \in Deals : Live(d) ~> ~Live(d)
=============================================================================
