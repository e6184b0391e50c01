-------------------------- MODULE PlayerDeals_proofs --------------------------
(***************************************************************************)
(* For any players, offers and transactions of other commands: deals leave *)
(* everyone solvent, a deal that got past its checks is refused only when  *)
(* somebody else got at one of its parties in between, and goods change    *)
(* hands without becoming more.                                            *)
(***************************************************************************)
EXTENDS PlayerDeals, AtomicBank_proofs

-----------------------------------------------------------------------------
(* Transactions of a deal.                                                 *)

(* The fields of an offer.                                                 *)
LEMMA OfferTyped ==
  ASSUME NEW o \in Offers
  PROVE  /\ o.kind \in DealKinds /\ o.from \in Users /\ o.to \in Users /\ o.from # o.to
         /\ o.give \in Purses /\ o.take \in Purses
BY DealAssumption DEF OfferType

(* Whoever has a bundle can hand it over.                                  *)
LEMMA HasGrantsOut ==
  ASSUME NEW u \in Users, NEW p \in Purses, Solvent, Has(u, p)
  PROVE  Granted(bank[u], gp[u], Out(u, p))
<1>1. Out(u, p) \in RequestType /\ gp[u] \in Nat /\ p.coins \in Nat
  BY OutInTyped DEF Solvent, Purses
<1>2. Gains(bank[u], Out(u, p)) \in Banks
  BY <1>1, GainsTyped
<1>3. ASSUME NEW i \in Items
      PROVE  bank[u][i] + Gains(bank[u], Out(u, p))[i] >= Out(u, p).remove[i]
  <2>1. bank[u][i] \in Nat /\ p.items[i] \in Nat /\ Gains(bank[u], Out(u, p))[i] \in Nat
    BY <1>2 DEF Solvent, Banks, Purses
  <2>2. bank[u][i] >= p.items[i] /\ Out(u, p).remove = p.items
    BY DEF Has, Out
  <2> QED
    BY <2>1, <2>2
<1>4. gp[u] >= Out(u, p).coinsRemove - Out(u, p).coinsAdd
  BY <1>1 DEF Has, Out
<1> QED
  BY <1>3, <1>4 DEF Granted

(* Nobody is refused a bundle he receives.                                 *)
LEMMA InIsGranted ==
  ASSUME NEW u \in Users, NEW p \in Purses, Solvent
  PROVE  Granted(bank[u], gp[u], In(u, p))
<1>1. In(u, p) \in RequestType
  BY OutInTyped
<1>2. Gains(bank[u], In(u, p)) \in Banks
  BY <1>1, GainsTyped
<1>3. ASSUME NEW i \in Items
      PROVE  bank[u][i] + Gains(bank[u], In(u, p))[i] >= In(u, p).remove[i]
  <2>1. bank[u][i] \in Nat /\ Gains(bank[u], In(u, p))[i] \in Nat /\ In(u, p).remove[i] = 0
    BY <1>2 DEF Solvent, Banks, In, NoItems
  <2> QED
    BY <2>1
<1>4. ~Removes(In(u, p))
  BY DEF Removes, In
<1> QED
  BY <1>3, <1>4 DEF Granted

(* The winnings of a duel are a whole number of coins.                     *)
LEMMA WinningsTyped ==
  ASSUME NEW o \in Offers
  PROVE  Winnings(o) \in Purses
<1>1. o.give.coins \in Nat
  BY OfferTyped DEF Purses
<1>2. (19 * o.give.coins) \div 10 \in Nat
  BY <1>1
<1>3. NoItems \in Banks
  BY DEF NoItems, Banks
<1> QED
  BY <1>2, <1>3 DEF Winnings, Purses

(* How many transactions a kind of deal takes.                             *)
Length(o) == CASE o.kind = "pay" -> 2 [] o.kind = "trade" -> 4 [] o.kind = "duel" -> 3

(* A deal takes from its sender first and from the other party next; from  *)
(* then on it only gives.                                                  *)
LEMMA LegShape ==
  ASSUME NEW o \in Offers, NEW w \in Winners(o), NEW n \in 1..Length(o)
  PROVE  /\ Len(Legs(o, w)) = Length(o)
         /\ Length(o) \in 2..4
         /\ n = 1 => Legs(o, w)[n] = Out(o.from, o.give)
         /\ n = 2 /\ o.kind # "pay" => Legs(o, w)[n] = Out(o.to, o.take)
         /\ n > 2 \/ (n = 2 /\ o.kind = "pay") =>
              \E u \in Users : \E p \in Purses : Legs(o, w)[n] = In(u, p)
<1>1. o.kind \in DealKinds
  BY OfferTyped
<1>2. CASE o.kind = "pay"
  <2>1. Legs(o, w) = << Out(o.from, o.give), In(o.to, o.give) >> /\ Length(o) = 2
    BY <1>2 DEF Legs, Length
  <2> QED
    BY <1>2, <2>1, OfferTyped
<1>3. CASE o.kind = "trade"
  <2>1. /\ Legs(o, w) = << Out(o.from, o.give), Out(o.to, o.take),
                           In(o.from, o.take), In(o.to, o.give) >>
        /\ Length(o) = 4
    BY <1>3 DEF Legs, Length
  <2> QED
    BY <1>3, <2>1, OfferTyped
<1>4. CASE o.kind = "duel"
  <2>1. /\ Legs(o, w) = << Out(o.from, o.give), Out(o.to, o.take), In(w, Winnings(o)) >>
        /\ Length(o) = 3
    BY <1>4 DEF Legs, Length
  <2>2. w \in Users /\ Winnings(o) \in Purses
    BY <1>4, OfferTyped, WinningsTyped DEF Winners
  <2> QED
    BY <1>4, <2>1, <2>2
<1> QED
  BY <1>1, <1>2, <1>3, <1>4 DEF DealKinds

(* Each transaction of a deal is a request.                                *)
LEMMA LegTyped ==
  ASSUME NEW o \in Offers, NEW w \in Winners(o), NEW n \in 1..Length(o)
  PROVE  Legs(o, w)[n] \in RequestType
<1>1. CASE n = 1
  BY <1>1, LegShape, OfferTyped, OutInTyped
<1>2. CASE n = 2 /\ o.kind # "pay"
  BY <1>2, LegShape, OfferTyped, OutInTyped
<1>3. CASE n > 2 \/ (n = 2 /\ o.kind = "pay")
  BY <1>3, LegShape, OutInTyped
<1>4. n \in Nat /\ n >= 1
  BY LegShape
<1> QED
  BY <1>1, <1>2, <1>3, <1>4

-----------------------------------------------------------------------------
(* The inductive invariant.                                                *)

\* What a check found holds until somebody else gets at the party.
StillHas(d, u, p) == <<d, u>> \in raced \/ Has(u, p)

\* /pay relies on the check made before its prompt, the others on the check
\* made after it; a party's goods matter until he has handed them over.
CheckedFrom(d) ==
  \/ deal[d].at = "asked" /\ deal[d].offer.kind = "pay"
  \/ deal[d].at = "synced" /\ deal[d].sound
  \/ deal[d].at = "moving" /\ deal[d].next = 1

CheckedTo(d) ==
  deal[d].at = "moving" /\ deal[d].next \in 1..2 /\ deal[d].offer.kind # "pay"

ChecksLast(d) ==
  /\ CheckedFrom(d) => StillHas(d, deal[d].offer.from, deal[d].offer.give)
  /\ CheckedTo(d) => StillHas(d, deal[d].offer.to, deal[d].offer.take)

InSequence(d) ==
  /\ deal[d].at \in {"asked", "agreed", "synced"} => deal[d].next = 1
  /\ deal[d].at = "moving" => deal[d].next \in 1..Length(deal[d].offer)

DealInv == DealTypeOK /\ Solvent /\ \A d \in Deals : ChecksLast(d) /\ InSequence(d)

LEMMA DealInvInit == DealInit => DealInv
<1> SUFFICES ASSUME DealInit
             PROVE  DealInv
  OBVIOUS
<1>1. Solvent
  BY DealAssumption DEF DealInit, Solvent
<1>2. DealTypeOK
  BY <1>1, DealAssumption
  DEF DealInit, DealTypeOK, Solvent, Banks, DealStates, UnusedDeal, Deal, DealPhases, Replies
<1>3. ASSUME NEW d \in Deals
      PROVE  ChecksLast(d) /\ InSequence(d)
  BY DEF DealInit, UnusedDeal, Deal, ChecksLast, CheckedFrom, CheckedTo, InSequence
<1> QED
  BY <1>1, <1>2, <1>3 DEF DealInv

(* A check survives every step that leaves the party's goods alone.        *)
LEMMA StillHasStays ==
  ASSUME NEW d, NEW u, NEW p, StillHas(d, u, p),
         bank'[u] = bank[u], gp'[u] = gp[u], <<d, u>> \in raced => <<d, u>> \in raced'
  PROVE  StillHas(d, u, p)'
BY DEF StillHas, Has

(* A transaction that is not d's own is noticed by d.                      *)
LEMMA OthersAreNoticed ==
  ASSUME DealInv, NEW r \in RequestType, Transaction(r), NEW mine, Touch(r.user, mine),
         NEW d \in Deals \ mine, Live(d), NEW u \in Users, NEW p, StillHas(d, u, p)
  PROVE  StillHas(d, u, p)'
<1>1. CASE u = r.user
  BY <1>1 DEF Touch, StillHas
<1>2. CASE u # r.user
  <2>1. bank'[u] = bank[u] /\ gp'[u] = gp[u]
    BY <1>2 DEF Transaction, DealInv, Solvent
  <2>2. <<d, u>> \in raced => <<d, u>> \in raced'
    BY DEF Touch
  <2> QED
    BY <2>1, <2>2, StillHasStays
<1> QED
  BY <1>1, <1>2

(* Nor does its own disturb what d found about the other party.            *)
LEMMA OwnLegSparesOthers ==
  ASSUME DealInv, NEW r \in RequestType, Transaction(r), NEW mine, Touch(r.user, mine),
         NEW d, NEW u \in Users, u # r.user, NEW p, StillHas(d, u, p)
  PROVE  StillHas(d, u, p)'
<1>1. bank'[u] = bank[u] /\ gp'[u] = gp[u]
  BY DEF Transaction, DealInv, Solvent
<1>2. <<d, u>> \in raced => <<d, u>> \in raced'
  BY DEF Touch
<1> QED
  BY <1>1, <1>2, StillHasStays

(* Somebody else's transaction, seen by a deal that does not move.         *)
LEMMA ChecksSurvive ==
  ASSUME DealInv, NEW r \in RequestType, Transaction(r), NEW mine, Touch(r.user, mine),
         NEW d \in Deals \ mine, deal'[d] = deal[d]
  PROVE  ChecksLast(d)' /\ InSequence(d)'
<1>1. ChecksLast(d) /\ InSequence(d)
  BY DEF DealInv
<1>2. InSequence(d)'
  BY <1>1 DEF InSequence
<1>3. CheckedFrom(d)' => CheckedFrom(d)
  BY DEF CheckedFrom
<1>4. CheckedTo(d)' => CheckedTo(d)
  BY DEF CheckedTo
<1>5. CheckedFrom(d) \/ CheckedTo(d) => Live(d) /\ deal[d].offer \in Offers
  BY DEF CheckedFrom, CheckedTo, Live, DealInv, DealTypeOK
<1>6. ASSUME CheckedFrom(d)
      PROVE  StillHas(d, deal[d].offer.from, deal[d].offer.give)'
  <2>1. deal[d].offer \in Offers /\ deal[d].offer.from \in Users /\ Live(d)
    BY <1>5, <1>6, OfferTyped
  <2>2. StillHas(d, deal[d].offer.from, deal[d].offer.give)
    BY <1>1, <1>6 DEF ChecksLast
  <2>3. (deal[d].offer.from)' = deal[d].offer.from /\ (deal[d].offer.give)' = deal[d].offer.give
    OBVIOUS
  <2>4. ASSUME NEW u \in Users, NEW p, StillHas(d, u, p)
        PROVE  StillHas(d, u, p)'
    BY <2>1, <2>4, OthersAreNoticed
  <2> QED
    BY <2>1, <2>2, <2>3, <2>4 DEF StillHas, Has
<1>7. ASSUME CheckedTo(d)
      PROVE  StillHas(d, deal[d].offer.to, deal[d].offer.take)'
  <2>1. deal[d].offer \in Offers /\ deal[d].offer.to \in Users /\ Live(d)
    BY <1>5, <1>7, OfferTyped
  <2>2. StillHas(d, deal[d].offer.to, deal[d].offer.take)
    BY <1>1, <1>7 DEF ChecksLast
  <2>3. (deal[d].offer.to)' = deal[d].offer.to /\ (deal[d].offer.take)' = deal[d].offer.take
    OBVIOUS
  <2>4. ASSUME NEW u \in Users, NEW p, StillHas(d, u, p)
        PROVE  StillHas(d, u, p)'
    BY <2>1, <2>4, OthersAreNoticed
  <2> QED
    BY <2>1, <2>2, <2>3, <2>4 DEF StillHas, Has
<1> QED
  BY <1>2, <1>3, <1>4, <1>6, <1>7 DEF ChecksLast

(* A step that moves no goods and changes one deal only: the others keep   *)
(* their checks, because only this deal's parties are cleared.             *)
LEMMA QuietStep ==
  ASSUME DealInv, UNCHANGED <<bank, gp>>, NEW d \in Deals,
         \A e \in Deals \ {d} : deal'[e] = deal[e],
         \A e \in Deals \ {d}, u \in Users : <<e, u>> \in raced => <<e, u>> \in raced',
         DealTypeOK', ChecksLast(d)', InSequence(d)'
  PROVE  DealInv'
<1>1. Solvent'
  BY DEF DealInv, Solvent
<1>2. ASSUME NEW e \in Deals \ {d}
      PROVE  ChecksLast(e)' /\ InSequence(e)'
  <2>1. deal'[e] = deal[e] /\ ChecksLast(e) /\ InSequence(e)
    BY DEF DealInv
  <2>2. CheckedFrom(e) \/ CheckedTo(e) =>
          deal[e].offer.from \in Users /\ deal[e].offer.to \in Users
    BY OfferTyped DEF CheckedFrom, CheckedTo, DealInv, DealTypeOK
  <2>3. (CheckedFrom(e)' <=> CheckedFrom(e)) /\ (CheckedTo(e)' <=> CheckedTo(e))
    BY <2>1 DEF CheckedFrom, CheckedTo
  <2> QED
    BY <2>1, <2>2, <2>3 DEF ChecksLast, InSequence, StillHas, Has
<1> QED
  BY <1>1, <1>2 DEF DealInv

(* The deal's own transaction.                                             *)
LEMMA LegStep ==
  ASSUME DealInv, NEW d \in Deals, NEW w \in Users, LegRuns(d, w)
  PROVE  DealInv'
<1> DEFINE o == deal[d].offer
           r == Leg(d, w)
<1>1. o \in Offers /\ deal[d].at = "moving" /\ deal[d].next \in 1..Length(o) /\ w \in Winners(o)
  BY DEF LegRuns, DealInv, DealTypeOK, InSequence
<1>2. r \in RequestType /\ Transaction(r) /\ Touch(r.user, {d})
  BY <1>1, LegTyped DEF LegRuns, Leg
<1>3. r.user \in Users
  BY <1>2 DEF RequestType
<1>4. Solvent'
  BY <1>2, TransactionKeepsSolvent DEF DealInv
<1>5. Len(Legs(o, w)) = Length(o) /\ Length(o) \in 2..4
  BY <1>1, LegShape
<1>6. /\ deal \in [Deals -> DealStates] /\ deal[d] \in DealStates
      /\ deal' = [deal EXCEPT ![d].next = deal[d].next + 1,
                              ![d].at = IF deal[d].next = Length(o) THEN "over" ELSE "moving",
                              ![d].reply = IF deal[d].next = Length(o) THEN "done" ELSE deal[d].reply]
  BY <1>1, <1>5 DEF LegRuns, DealInv, DealTypeOK
<1>7. /\ deal'[d].offer = o /\ deal'[d].next = deal[d].next + 1
      /\ deal'[d].at = IF deal[d].next = Length(o) THEN "over" ELSE "moving"
      /\ \A e \in Deals \ {d} : deal'[e] = deal[e]
  BY <1>6 DEF DealStates
<1>8. DealTypeOK'
  <2>1. deal' \in [Deals -> DealStates]
    <3> DEFINE nx == deal[d].next + 1
               at == IF deal[d].next = Length(o) THEN "over" ELSE "moving"
               reply == IF deal[d].next = Length(o) THEN "done" ELSE deal[d].reply
    <3>1. nx \in 1..5
      BY <1>1, <1>5
    <3>2. at \in DealPhases /\ reply \in Replies
      BY <1>6 DEF DealStates, DealPhases, Replies
    <3>3. deal' = [deal EXCEPT ![d].next = nx, ![d].at = at, ![d].reply = reply]
      BY <1>6
    <3> HIDE DEF nx, at, reply
    <3>4. [deal[d] EXCEPT !.next = nx, !.at = at, !.reply = reply] \in DealStates
      BY <1>6, <3>1, <3>2 DEF DealStates
    <3>5. deal' = [deal EXCEPT ![d] = [deal[d] EXCEPT !.next = nx, !.at = at, !.reply = reply]]
      BY <1>6, <3>3
    <3> QED
      BY <1>6, <3>4, <3>5
  <2>2. \A e \in Deals : deal'[e].at # "unused" => deal'[e].offer \in Offers
    BY <1>1, <1>7 DEF DealInv, DealTypeOK
  <2>3. raced' \subseteq Deals \X Users
    BY <1>2, <1>3 DEF Touch, DealInv, DealTypeOK
  <2>4. others' \in 0..MaxOthers
    BY DEF LegRuns, DealInv, DealTypeOK
  <2> QED
    BY <1>4, <2>1, <2>2, <2>3, <2>4 DEF DealTypeOK, Solvent, Banks
<1>9. InSequence(d)'
  BY <1>1, <1>5, <1>7 DEF InSequence
<1>10. ChecksLast(d)'
  <2>1. ~CheckedFrom(d)'
    BY <1>1, <1>5, <1>7 DEF CheckedFrom
  <2>2. ASSUME CheckedTo(d)'
        PROVE  StillHas(d, o.to, o.take)'
    <3>1. deal[d].next = 1 /\ o.kind # "pay"
      BY <1>1, <1>5, <1>7, <2>2 DEF CheckedTo
    <3>2. StillHas(d, o.to, o.take)
      BY <1>1, <3>1 DEF DealInv, ChecksLast, CheckedTo
    <3>3. r = Out(o.from, o.give)
      BY <1>1, <1>5, <3>1, LegShape DEF Leg
    <3>4. o.to # r.user /\ o.to \in Users
      BY <1>1, <3>3, OfferTyped DEF Out
    <3>5. ASSUME NEW p, StillHas(d, o.to, p)
          PROVE  bank'[o.to] = bank[o.to] /\ gp'[o.to] = gp[o.to]
      BY <1>2, <3>4 DEF Transaction, DealInv, Solvent
    <3>6. <<d, o.to>> \in raced => <<d, o.to>> \in raced'
      BY <1>2 DEF Touch
    <3> QED
      BY <1>7, <3>2, <3>5, <3>6 DEF StillHas, Has
  <2> QED
    BY <1>7, <2>1, <2>2 DEF ChecksLast, StillHas, Has
<1>11. ASSUME NEW e \in Deals \ {d}
       PROVE  ChecksLast(e)' /\ InSequence(e)'
  BY <1>2, <1>7, ChecksSurvive
<1> QED
  BY <1>4, <1>8, <1>9, <1>10, <1>11 DEF DealInv

(* One slot moves to another well-typed state and no goods move.           *)
LEMMA QuietTyped ==
  ASSUME DealTypeOK, NEW d \in Deals, NEW s \in DealStates, s.offer \in Offers,
         deal' = [deal EXCEPT ![d] = s], raced' \subseteq raced, UNCHANGED <<bank, gp, others>>
  PROVE  /\ DealTypeOK'
         /\ deal'[d] = s
         /\ \A e \in Deals \ {d} : deal'[e] = deal[e]
BY DEF DealTypeOK

(* Opening, prompting, reading the rows again and failing.                 *)
LEMMA OpensStep ==
  ASSUME DealInv, NEW d \in Deals, NEW o \in Offers, Opens(d, o)
  PROVE  DealInv'
<1> DEFINE s == Deal(o, "asked")
<1>1. s \in DealStates /\ s.offer = o /\ s.at = "asked" /\ s.next = 1
  <2>1. 1 \in 1..5 /\ "asked" \in DealPhases /\ "none" \in Replies
    BY DEF DealPhases, Replies
  <2> QED
    BY <2>1 DEF Deal, DealStates
<1>2. deal' = [deal EXCEPT ![d] = s] /\ UNCHANGED <<bank, gp, others, raced>> /\ Has(o.from, o.give)
  BY DEF Opens
<1> HIDE DEF s
<1>3. DealTypeOK' /\ deal'[d] = s /\ \A e \in Deals \ {d} : deal'[e] = deal[e]
  BY <1>1, <1>2, QuietTyped DEF DealInv
<1>4. InSequence(d)'
  BY <1>1, <1>3 DEF InSequence
<1>5. ChecksLast(d)'
  BY <1>1, <1>2, <1>3 DEF ChecksLast, CheckedFrom, CheckedTo, StillHas, Has
<1> QED
  BY <1>2, <1>3, <1>4, <1>5, QuietStep

LEMMA ClosesStep ==
  ASSUME DealInv, NEW d \in Deals, Live(d), NEW reply \in Replies, Closes(d, reply),
         raced' \subseteq raced,
         \A e \in Deals \ {d}, u \in Users : <<e, u>> \in raced => <<e, u>> \in raced',
         UNCHANGED <<bank, gp, others>>
  PROVE  DealInv'
<1> DEFINE s == [deal[d] EXCEPT !.at = "over", !.reply = reply]
<1>1. deal \in [Deals -> DealStates] /\ deal[d].offer \in Offers
  BY DEF DealInv, DealTypeOK, Live
<1>2. s \in DealStates /\ s.offer \in Offers /\ s.at = "over"
  BY <1>1 DEF DealStates, DealPhases
<1>3. deal' = [deal EXCEPT ![d] = s]
  BY <1>1 DEF Closes
<1> HIDE DEF s
<1>4. DealTypeOK' /\ deal'[d] = s /\ \A e \in Deals \ {d} : deal'[e] = deal[e]
  BY <1>2, <1>3, QuietTyped DEF DealInv
<1>5. InSequence(d)' /\ ChecksLast(d)'
  BY <1>2, <1>4 DEF InSequence, ChecksLast, CheckedFrom, CheckedTo
<1> QED
  BY <1>4, <1>5, QuietStep

LEMMA AgreesStep ==
  ASSUME DealInv, NEW d \in Deals, Agrees(d)
  PROVE  DealInv'
<1> DEFINE o == deal[d].offer
           at == IF o.kind = "pay" THEN "moving" ELSE "agreed"
           s == [deal[d] EXCEPT !.at = at]
<1>1. deal \in [Deals -> DealStates] /\ o \in Offers /\ deal[d].at = "asked" /\ deal[d].next = 1
  BY DEF DealInv, DealTypeOK, InSequence, Agrees
<1>2. s \in DealStates /\ s.offer = o /\ s.at = at /\ s.next = 1
  BY <1>1 DEF DealStates, DealPhases
<1>3. deal' = [deal EXCEPT ![d] = s] /\ UNCHANGED <<bank, gp, others, raced>>
  BY <1>1 DEF Agrees, Goes
<1> HIDE DEF s
<1>4. DealTypeOK' /\ deal'[d] = s /\ \A e \in Deals \ {d} : deal'[e] = deal[e]
  BY <1>1, <1>2, <1>3, QuietTyped DEF DealInv
<1>5. 1 \in 1..Length(o)
  <2>1. CASE o.kind = "pay"
    BY <2>1 DEF Length
  <2>2. CASE o.kind = "trade"
    BY <2>2 DEF Length
  <2>3. CASE o.kind = "duel"
    BY <2>3 DEF Length
  <2> QED
    BY <1>1, <2>1, <2>2, <2>3, OfferTyped DEF DealKinds
<1>6. InSequence(d)'
  BY <1>2, <1>4, <1>5 DEF InSequence
<1>7. o.kind = "pay" => StillHas(d, o.from, o.give)
  BY <1>1 DEF DealInv, ChecksLast, CheckedFrom
<1>8. ChecksLast(d)'
  BY <1>2, <1>3, <1>4, <1>7 DEF ChecksLast, CheckedFrom, CheckedTo, StillHas, Has
<1> QED
  BY <1>3, <1>4, <1>6, <1>8, QuietStep

LEMMA SyncFromStep ==
  ASSUME DealInv, NEW d \in Deals, SyncFrom(d)
  PROVE  DealInv'
<1> DEFINE o == deal[d].offer
           sound == Has(o.from, o.give)
           s == [deal[d] EXCEPT !.at = "synced", !.sound = sound]
<1>1. deal \in [Deals -> DealStates] /\ o \in Offers /\ deal[d].at = "agreed" /\ deal[d].next = 1
  BY DEF DealInv, DealTypeOK, InSequence, SyncFrom
<1>2. sound \in BOOLEAN
  BY DEF Has
<1>3. /\ deal' = [deal EXCEPT ![d].at = "synced", ![d].sound = sound]
      /\ raced' = raced \ {<<d, o.from>>} /\ UNCHANGED <<bank, gp, others>>
  BY DEF SyncFrom
<1>4. sound => Has(o.from, o.give)
  OBVIOUS
<1> HIDE DEF sound
<1>5. s \in DealStates /\ s.offer = o /\ s.at = "synced" /\ s.next = 1 /\ s.sound = sound
  BY <1>1, <1>2 DEF DealStates, DealPhases
<1>6. deal' = [deal EXCEPT ![d] = s]
  BY <1>1, <1>3
<1> HIDE DEF s
<1>7. DealTypeOK' /\ deal'[d] = s /\ \A e \in Deals \ {d} : deal'[e] = deal[e]
  BY <1>1, <1>3, <1>5, <1>6, QuietTyped DEF DealInv
<1>8. InSequence(d)'
  BY <1>5, <1>7 DEF InSequence
<1>9. ChecksLast(d)'
  BY <1>3, <1>4, <1>5, <1>7 DEF ChecksLast, CheckedFrom, CheckedTo, StillHas, Has
<1> QED
  BY <1>3, <1>7, <1>8, <1>9, QuietStep

LEMMA SyncToStep ==
  ASSUME DealInv, NEW d \in Deals, SyncTo(d)
  PROVE  DealInv'
<1> DEFINE o == deal[d].offer
           s == [deal[d] EXCEPT !.at = "moving"]
<1>1. /\ deal \in [Deals -> DealStates] /\ o \in Offers
      /\ deal[d].at = "synced" /\ deal[d].next = 1 /\ deal[d].sound \in BOOLEAN
  BY DEF DealInv, DealTypeOK, DealStates, InSequence, SyncTo
<1>2. raced' = raced \ {<<d, o.to>>} /\ UNCHANGED <<bank, gp, others>>
  BY DEF SyncTo
<1>3. CASE Closes(d, "refused")
  BY <1>1, <1>2, <1>3, ClosesStep DEF Live, Replies
<1>4. CASE deal[d].sound /\ Has(o.to, o.take) /\ Goes(d, "moving")
  <2>1. s \in DealStates /\ s.offer = o /\ s.at = "moving" /\ s.next = 1
    BY <1>1 DEF DealStates, DealPhases
  <2>2. deal' = [deal EXCEPT ![d] = s]
    BY <1>1, <1>4 DEF Goes
  <2> HIDE DEF s
  <2>3. DealTypeOK' /\ deal'[d] = s /\ \A e \in Deals \ {d} : deal'[e] = deal[e]
    BY <1>1, <1>2, <2>1, <2>2, QuietTyped DEF DealInv
  <2>4. 1 \in 1..Length(o) /\ o.from # o.to
    <3>1. CASE o.kind = "pay"
      BY <1>1, <3>1, OfferTyped DEF Length
    <3>2. CASE o.kind = "trade"
      BY <1>1, <3>2, OfferTyped DEF Length
    <3>3. CASE o.kind = "duel"
      BY <1>1, <3>3, OfferTyped DEF Length
    <3> QED
      BY <1>1, <3>1, <3>2, <3>3, OfferTyped DEF DealKinds
  <2>5. InSequence(d)'
    BY <2>1, <2>3, <2>4 DEF InSequence
  <2>6. StillHas(d, o.from, o.give)
    BY <1>1, <1>4 DEF DealInv, ChecksLast, CheckedFrom
  <2>7. ChecksLast(d)'
    BY <1>2, <1>4, <2>1, <2>3, <2>4, <2>6 DEF ChecksLast, CheckedFrom, CheckedTo, StillHas, Has
  <2> QED
    BY <1>2, <2>3, <2>5, <2>7, QuietStep
<1> QED
  BY <1>3, <1>4 DEF SyncTo

(* A transaction of another command.                                       *)
LEMMA OthersStep ==
  ASSUME DealInv, NEW r \in RequestType, Others(r)
  PROVE  DealInv'
<1>1. Transaction(r) /\ Touch(r.user, {}) /\ deal' = deal /\ r.user \in Users
  BY DEF Others, RequestType
<1>2. Solvent'
  BY <1>1, TransactionKeepsSolvent DEF DealInv
<1>3. raced' \subseteq Deals \X Users
  BY <1>1 DEF Touch, DealInv, DealTypeOK
<1>4. others' \in 0..MaxOthers
  BY DealAssumption DEF Others, DealInv, DealTypeOK
<1>5. DealTypeOK'
  BY <1>1, <1>2, <1>3, <1>4 DEF DealInv, DealTypeOK, Solvent, Banks
<1>6. ASSUME NEW d \in Deals
      PROVE  ChecksLast(d)' /\ InSequence(d)'
  BY <1>1, ChecksSurvive
<1> QED
  BY <1>2, <1>5, <1>6 DEF DealInv

(* The process dies.                                                       *)
LEMMA DealsDieStep ==
  ASSUME DealInv, DealsDie
  PROVE  DealInv'
<1>1. UNCHANGED <<bank, gp, others, raced>> /\ deal \in [Deals -> DealStates]
  BY DEF DealsDie, DealInv, DealTypeOK
<1>2. Solvent'
  BY <1>1 DEF DealInv, Solvent
<1>3. ASSUME NEW d \in Deals
      PROVE  /\ deal'[d] \in DealStates /\ deal'[d].offer = deal[d].offer
             /\ deal'[d].at \in {"unused", "over"}
             /\ deal'[d].at = "unused" => deal[d].at = "unused"
  <2>1. deal[d] \in DealStates
    BY <1>1
  <2>2. deal'[d] = IF Live(d) THEN [deal[d] EXCEPT !.at = "over"] ELSE deal[d]
    BY DEF DealsDie
  <2> QED
    BY <2>1, <2>2 DEF DealStates, DealPhases, Live
<1>4. DealTypeOK'
  <2>1. deal' \in [Deals -> DealStates]
    BY <1>3 DEF DealsDie
  <2>2. ASSUME NEW d \in Deals, deal'[d].at # "unused"
        PROVE  deal'[d].offer \in Offers
    <3>1. deal[d].at # "unused"
      BY <2>2 DEF DealsDie, Live
    <3> QED
      BY <1>3, <3>1 DEF DealInv, DealTypeOK
  <2> QED
    BY <1>1, <2>1, <2>2 DEF DealInv, DealTypeOK
<1>5. ASSUME NEW d \in Deals
      PROVE  ChecksLast(d)' /\ InSequence(d)'
  BY <1>3 DEF ChecksLast, CheckedFrom, CheckedTo, InSequence
<1> QED
  BY <1>2, <1>4, <1>5 DEF DealInv

LEMMA DealInvStep == DealInv /\ [DealNext]_dealVars => DealInv'
<1> SUFFICES ASSUME DealInv, [DealNext]_dealVars
             PROVE  DealInv'
  OBVIOUS
<1>1. ASSUME NEW d \in Deals, NEW o \in Offers, Opens(d, o)
      PROVE  DealInv'
  BY <1>1, OpensStep
<1>2. ASSUME NEW d \in Deals, Declined(d)
      PROVE  DealInv'
  BY <1>2, ClosesStep DEF Declined, Live, Replies
<1>3. ASSUME NEW d \in Deals, Agrees(d)
      PROVE  DealInv'
  BY <1>3, AgreesStep
<1>4. ASSUME NEW d \in Deals, SyncFrom(d)
      PROVE  DealInv'
  BY <1>4, SyncFromStep
<1>5. ASSUME NEW d \in Deals, SyncTo(d)
      PROVE  DealInv'
  BY <1>5, SyncToStep
<1>6. ASSUME NEW d \in Deals, NEW w \in Users, LegRuns(d, w)
      PROVE  DealInv'
  BY <1>6, LegStep
<1>7. ASSUME NEW d \in Deals, DealFails(d)
      PROVE  DealInv'
  BY <1>7, ClosesStep DEF DealFails, Live, Replies
<1>8. ASSUME NEW r \in Requests, Others(r)
      PROVE  DealInv'
  BY <1>8, OthersStep, BankAssumption
<1>9. CASE DealsDie
  BY <1>9, DealsDieStep
<1>10. CASE UNCHANGED dealVars
  BY <1>10 DEF dealVars, DealInv, DealTypeOK, Solvent, ChecksLast, CheckedFrom, CheckedTo,
               StillHas, Has, InSequence
<1> QED
  BY <1>1, <1>2, <1>3, <1>4, <1>5, <1>6, <1>7, <1>8, <1>9, <1>10 DEF DealNext, DealGoesOn

LEMMA DealInvAlways == DealSafety => []DealInv
BY DealInvInit, DealInvStep, PTL DEF DealSafety

-----------------------------------------------------------------------------
(* The state of the deals stays well typed.                                *)
THEOREM DealTypeCorrect == DealSafety => []DealTypeOK
<1>1. DealInv => DealTypeOK
  BY DEF DealInv
<1> QED
  BY <1>1, DealInvAlways, PTL

(* No deal, and no way it can fail, leaves anybody with less than nothing  *)
(* (transactItemsFromBank.ts:44-118).                                      *)
THEOREM DealsKeepSolvent == DealSafety => []Solvent
<1>1. DealInv => Solvent
  BY DEF DealInv
<1> QED
  BY <1>1, DealInvAlways, PTL

(* A deal whose checks passed is refused only if somebody else got at the  *)
(* party since (trade.ts:125-131, duelCommand.ts:77-86, pay.ts:49-67).     *)
THEOREM RefusedOnlyByRacesCorrect == DealSafety => []RefusedOnlyByRaces
<1>1. ASSUME DealInv, NEW d \in Deals, deal[d].at = "moving", NEW w \in Winners(deal[d].offer),
             <<d, Leg(d, w).user>> \notin raced
      PROVE  Granted(bank[Leg(d, w).user], gp[Leg(d, w).user], Leg(d, w))
  <2> DEFINE o == deal[d].offer
             n == deal[d].next
  <2>1. o \in Offers /\ n \in 1..Length(o) /\ Solvent /\ ChecksLast(d) /\ Length(o) \in 2..4
    BY <1>1, LegShape DEF DealInv, DealTypeOK, InSequence
  <2>2. Leg(d, w) = Legs(o, w)[n]
    BY DEF Leg
  <2>3. CASE n = 1
    <3>1. Leg(d, w) = Out(o.from, o.give)
      BY <1>1, <2>1, <2>2, <2>3, LegShape
    <3>2. Leg(d, w).user = o.from
      BY <3>1 DEF Out
    <3>3. Has(o.from, o.give)
      BY <1>1, <2>1, <2>3, <3>2 DEF ChecksLast, CheckedFrom, StillHas
    <3> QED
      BY <2>1, <3>1, <3>2, <3>3, OfferTyped, HasGrantsOut
  <2>4. CASE n = 2 /\ o.kind # "pay"
    <3>1. Leg(d, w) = Out(o.to, o.take)
      BY <1>1, <2>1, <2>2, <2>4, LegShape
    <3>2. Leg(d, w).user = o.to
      BY <3>1 DEF Out
    <3>3. Has(o.to, o.take)
      BY <1>1, <2>1, <2>4, <3>2 DEF ChecksLast, CheckedTo, StillHas
    <3> QED
      BY <2>1, <3>1, <3>2, <3>3, OfferTyped, HasGrantsOut
  <2>5. CASE n > 2 \/ (n = 2 /\ o.kind = "pay")
    <3>1. PICK u \in Users, p \in Purses : Leg(d, w) = In(u, p)
      BY <1>1, <2>1, <2>2, <2>5, LegShape
    <3>2. Leg(d, w).user = u
      BY <3>1 DEF In
    <3> QED
      BY <2>1, <3>1, <3>2, InIsGranted
  <2> QED
    BY <2>1, <2>3, <2>4, <2>5
<1>2. DealInv => RefusedOnlyByRaces
  BY <1>1 DEF RefusedOnlyByRaces
<1> QED
  BY <1>2, DealInvAlways, PTL

-----------------------------------------------------------------------------
(* Why goods only change hands.  A step changes one deal at most, so what a *)
(* user owns moves exactly as his share in that deal moves: what is in his  *)
(* bank and what that one deal holds of his.                                *)

Share(d, u) == Joined([items |-> bank[u], coins |-> gp[u]], Held(d, u))

IntPurses == [items : [Items -> Int], coins : Int]

\* No deal but d moves.
Alone(d) == \A e \in Deals \ {d} : deal'[e] = deal[e]

(* A deal holds a bundle of goods, before and after a step.                *)
LEMMA HeldTyped ==
  ASSUME DealInv, DealInv', NEW d \in Deals, NEW u
  PROVE  Held(d, u) \in Purses /\ Held(d, u)' \in Purses
<1>1. Nothing \in Purses
  BY DEF Nothing, NoItems, Banks, Purses
<1>2. Live(d) => deal[d].offer.give \in Purses /\ deal[d].offer.take \in Purses
  BY OfferTyped DEF DealInv, DealTypeOK, Live
<1>3. Live(d)' => deal'[d].offer.give \in Purses /\ deal'[d].offer.take \in Purses
  BY OfferTyped DEF DealInv, DealTypeOK, Live
<1> QED
  BY <1>1, <1>2, <1>3 DEF Held

(* What a user owns is counted in whole numbers.                           *)
LEMMA PursesAdd ==
  ASSUME NEW p \in IntPurses, NEW q \in IntPurses
  PROVE  /\ Joined(p, q) \in IntPurses
         /\ Joined(p, q).coins = p.coins + q.coins
         /\ \A i \in Items : Joined(p, q).items[i] = p.items[i] + q.items[i]
BY DEF Joined, IntPurses

LEMMA PursesAreInt == Purses \subseteq IntPurses
BY DEF Purses, IntPurses, Banks

LEMMA ShareTyped ==
  ASSUME DealInv, DealInv', NEW d \in Deals, NEW u \in Users
  PROVE  Share(d, u) \in IntPurses /\ Share(d, u)' \in IntPurses
<1>1. Held(d, u) \in IntPurses /\ Held(d, u)' \in IntPurses
  BY HeldTyped, PursesAreInt
<1>2. /\ [items |-> bank[u], coins |-> gp[u]] \in IntPurses
      /\ [items |-> bank'[u], coins |-> gp'[u]] \in IntPurses
  BY DEF DealInv, DealTypeOK, IntPurses
<1>3. Joined([items |-> bank[u], coins |-> gp[u]], Held(d, u)) \in IntPurses
  BY <1>1, <1>2, PursesAdd
<1>4. Joined([items |-> bank'[u], coins |-> gp'[u]], Held(d, u)') \in IntPurses
  BY <1>1, <1>2, PursesAdd
<1> QED
  BY <1>3, <1>4 DEF Share

(* What a user owns in all, as a sum.                                      *)
LEMMA OwnedTyped ==
  ASSUME DealInv, DealInv', NEW u \in Users
  PROVE  Owned(u) \in IntPurses /\ Owned(u)' \in IntPurses
<1>1. ASSUME NEW i \in Items
      PROVE  /\ SumFunctionOnSet([d \in Deals |-> Held(d, u).items[i]], Deals) \in Int
             /\ SumFunctionOnSet([d \in Deals |-> Held(d, u)'.items[i]], Deals) \in Int
  <2>1. \A d \in Deals : Held(d, u).items[i] \in Int /\ Held(d, u)'.items[i] \in Int
    BY HeldTyped, PursesAreInt DEF IntPurses
  <2> QED
    BY <2>1, SumTyped, DealAssumption
<1>2. /\ SumFunctionOnSet([d \in Deals |-> Held(d, u).coins], Deals) \in Int
      /\ SumFunctionOnSet([d \in Deals |-> Held(d, u)'.coins], Deals) \in Int
  <2>1. \A d \in Deals : Held(d, u).coins \in Int /\ Held(d, u)'.coins \in Int
    BY HeldTyped, PursesAreInt DEF IntPurses
  <2> QED
    BY <2>1, SumTyped, DealAssumption
<1>3. /\ \A i \in Items : bank[u][i] \in Int /\ bank'[u][i] \in Int
      /\ gp[u] \in Int /\ gp'[u] \in Int
  BY DEF DealInv, DealTypeOK
<1>4. Owned(u) \in IntPurses
  <2> DEFINE S(i) == SumFunctionOnSet([d \in Deals |-> Held(d, u).items[i]], Deals)
             t == SumFunctionOnSet([d \in Deals |-> Held(d, u).coins], Deals)
  <2>1. Owned(u) = [items |-> [i \in Items |-> bank[u][i] + S(i)], coins |-> gp[u] + t]
    BY DEF Owned
  <2>2. (\A i \in Items : S(i) \in Int) /\ t \in Int
    BY <1>1, <1>2
  <2> HIDE DEF S, t
  <2> QED
    BY <1>3, <2>1, <2>2 DEF IntPurses
<1>5. Owned(u)' \in IntPurses
  <2> DEFINE S(i) == SumFunctionOnSet([d \in Deals |-> Held(d, u)'.items[i]], Deals)
             t == SumFunctionOnSet([d \in Deals |-> Held(d, u)'.coins], Deals)
  <2>1. Owned(u)' = [items |-> [i \in Items |-> bank'[u][i] + S(i)], coins |-> gp'[u] + t]
    BY DEF Owned
  <2>2. (\A i \in Items : S(i) \in Int) /\ t \in Int
    BY <1>1, <1>2
  <2> HIDE DEF S, t
  <2> QED
    BY <1>3, <2>1, <2>2 DEF IntPurses
<1> QED
  BY <1>4, <1>5

(* What a user owns moves as his share in the deal does.                   *)
LEMMA OwnedMoves ==
  ASSUME DealInv, DealInv', NEW d \in Deals, Alone(d), NEW u \in Users
  PROVE  /\ Owned(u)'.coins = Owned(u).coins + (Share(d, u)'.coins - Share(d, u).coins)
         /\ \A i \in Items : Owned(u)'.items[i] =
              Owned(u).items[i] + (Share(d, u)'.items[i] - Share(d, u).items[i])
<1>1. \A e \in Deals \ {d} : Held(e, u)' = Held(e, u)
  BY DEF Alone, Held, Live
<1>2. \A e \in Deals : Held(e, u) \in IntPurses /\ Held(e, u)' \in IntPurses
  BY HeldTyped, PursesAreInt
<1>3. /\ bank \in [Users -> [Items -> Int]] /\ bank' \in [Users -> [Items -> Int]]
      /\ gp \in [Users -> Int] /\ gp' \in [Users -> Int]
  BY DEF DealInv, DealTypeOK
<1>4. /\ Share(d, u).coins = gp[u] + Held(d, u).coins
      /\ Share(d, u)'.coins = gp'[u] + Held(d, u)'.coins
      /\ \A i \in Items : /\ Share(d, u).items[i] = bank[u][i] + Held(d, u).items[i]
                          /\ Share(d, u)'.items[i] = bank'[u][i] + Held(d, u)'.items[i]
  BY DEF Share, Joined
<1>5. Owned(u)'.coins = Owned(u).coins + (Share(d, u)'.coins - Share(d, u).coins)
  <2> DEFINE f == [e \in Deals |-> Held(e, u).coins]
             g == [e \in Deals |-> Held(e, u)'.coins]
  <2>1. /\ \A e \in Deals : f[e] \in Int /\ g[e] \in Int
        /\ \A e \in Deals \ {d} : g[e] = f[e]
    BY <1>1, <1>2 DEF IntPurses
  <2>2. f[d] = Held(d, u).coins /\ g[d] = Held(d, u)'.coins
    OBVIOUS
  <2>3. Owned(u).coins = gp[u] + SumFunctionOnSet(f, Deals)
    BY DEF Owned
  <2>4. Owned(u)'.coins = gp'[u] + SumFunctionOnSet(g, Deals)
    BY DEF Owned
  <2> HIDE DEF f, g
  <2>5. SumFunctionOnSet(g, Deals) = SumFunctionOnSet(f, Deals) + (g[d] - f[d])
    BY <2>1, SumChanges, DealAssumption
  <2>6. SumFunctionOnSet(f, Deals) \in Int
    BY <2>1, SumTyped, DealAssumption
  <2>7. gp[u] \in Int /\ gp'[u] \in Int /\ f[d] \in Int /\ g[d] \in Int
    BY <1>3, <2>1
  <2> QED
    BY <1>4, <2>2, <2>3, <2>4, <2>5, <2>6, <2>7
<1>6. ASSUME NEW i \in Items
      PROVE  Owned(u)'.items[i] =
               Owned(u).items[i] + (Share(d, u)'.items[i] - Share(d, u).items[i])
  <2> DEFINE f == [e \in Deals |-> Held(e, u).items[i]]
             g == [e \in Deals |-> Held(e, u)'.items[i]]
  <2>1. /\ \A e \in Deals : f[e] \in Int /\ g[e] \in Int
        /\ \A e \in Deals \ {d} : g[e] = f[e]
    BY <1>1, <1>2 DEF IntPurses
  <2>2. f[d] = Held(d, u).items[i] /\ g[d] = Held(d, u)'.items[i]
    OBVIOUS
  <2>3. Owned(u).items[i] = bank[u][i] + SumFunctionOnSet(f, Deals)
    BY DEF Owned
  <2>4. Owned(u)'.items[i] = bank'[u][i] + SumFunctionOnSet(g, Deals)
    BY DEF Owned
  <2> HIDE DEF f, g
  <2>5. SumFunctionOnSet(g, Deals) = SumFunctionOnSet(f, Deals) + (g[d] - f[d])
    BY <2>1, SumChanges, DealAssumption
  <2>6. SumFunctionOnSet(f, Deals) \in Int
    BY <2>1, SumTyped, DealAssumption
  <2>7. bank[u][i] \in Int /\ bank'[u][i] \in Int /\ f[d] \in Int /\ g[d] \in Int
    BY <1>3, <2>1
  <2> QED
    BY <1>4, <2>2, <2>3, <2>4, <2>5, <2>6, <2>7
<1> QED
  BY <1>5, <1>6

(* Losing is losing, in a share or in all.                                 *)
LEMMA SharesTell ==
  ASSUME DealInv, DealInv', NEW d \in Deals, Alone(d)
  PROVE  /\ \A u \in Users : NoMore(Share(d, u)', Share(d, u)) => NoMore(Owned(u)', Owned(u))
         /\ \A a, b \in Users :
              NoMore(Joined(Share(d, a)', Share(d, b)'), Joined(Share(d, a), Share(d, b)))
              => NoMore(Joined(Owned(a)', Owned(b)'), Joined(Owned(a), Owned(b)))
<1>1. ASSUME NEW u \in Users
      PROVE  /\ Share(d, u) \in IntPurses /\ Share(d, u)' \in IntPurses
             /\ Owned(u) \in IntPurses /\ Owned(u)' \in IntPurses
             /\ Owned(u)'.coins = Owned(u).coins + (Share(d, u)'.coins - Share(d, u).coins)
             /\ \A i \in Items : Owned(u)'.items[i] =
                  Owned(u).items[i] + (Share(d, u)'.items[i] - Share(d, u).items[i])
  BY ShareTyped, OwnedTyped, OwnedMoves
<1>2. ASSUME NEW s \in IntPurses, NEW t \in IntPurses, NEW p \in IntPurses, NEW q \in IntPurses,
             q.coins = p.coins + (t.coins - s.coins),
             \A i \in Items : q.items[i] = p.items[i] + (t.items[i] - s.items[i]),
             NoMore(t, s)
      PROVE  NoMore(q, p)
  <2>1. /\ s.coins \in Int /\ t.coins \in Int /\ p.coins \in Int /\ q.coins \in Int
        /\ \A i \in Items : /\ s.items[i] \in Int /\ t.items[i] \in Int
                            /\ p.items[i] \in Int /\ q.items[i] \in Int
    BY DEF IntPurses
  <2> QED
    BY <1>2, <2>1 DEF NoMore
<1>3. ASSUME NEW u \in Users, NoMore(Share(d, u)', Share(d, u))
      PROVE  NoMore(Owned(u)', Owned(u))
  BY <1>1, <1>2, <1>3
<1>4. ASSUME NEW a \in Users, NEW b \in Users,
             NoMore(Joined(Share(d, a)', Share(d, b)'), Joined(Share(d, a), Share(d, b)))
      PROVE  NoMore(Joined(Owned(a)', Owned(b)'), Joined(Owned(a), Owned(b)))
  <2> DEFINE s == Joined(Share(d, a), Share(d, b))
             t == Joined(Share(d, a)', Share(d, b)')
             p == Joined(Owned(a), Owned(b))
             q == Joined(Owned(a)', Owned(b)')
  <2>1. /\ s \in IntPurses /\ t \in IntPurses /\ p \in IntPurses /\ q \in IntPurses
        /\ s.coins = Share(d, a).coins + Share(d, b).coins
        /\ t.coins = Share(d, a)'.coins + Share(d, b)'.coins
        /\ p.coins = Owned(a).coins + Owned(b).coins
        /\ q.coins = Owned(a)'.coins + Owned(b)'.coins
        /\ \A i \in Items :
             /\ s.items[i] = Share(d, a).items[i] + Share(d, b).items[i]
             /\ t.items[i] = Share(d, a)'.items[i] + Share(d, b)'.items[i]
             /\ p.items[i] = Owned(a).items[i] + Owned(b).items[i]
             /\ q.items[i] = Owned(a)'.items[i] + Owned(b)'.items[i]
    BY <1>1, PursesAdd
  <2>2. NoMore(t, s)
    BY <1>4
  <2> HIDE DEF s, t, p, q
  <2>3. q.coins = p.coins + (t.coins - s.coins)
    <3>1. /\ Share(d, a).coins \in Int /\ Share(d, a)'.coins \in Int
          /\ Share(d, b).coins \in Int /\ Share(d, b)'.coins \in Int
          /\ Owned(a).coins \in Int /\ Owned(b).coins \in Int
      BY <1>1 DEF IntPurses
    <3> QED
      BY <1>1, <2>1, <3>1
  <2>4. \A i \in Items : q.items[i] = p.items[i] + (t.items[i] - s.items[i])
    <3>1. ASSUME NEW i \in Items
          PROVE  /\ Share(d, a).items[i] \in Int /\ Share(d, a)'.items[i] \in Int
                 /\ Share(d, b).items[i] \in Int /\ Share(d, b)'.items[i] \in Int
                 /\ Owned(a).items[i] \in Int /\ Owned(b).items[i] \in Int
      BY <1>1 DEF IntPurses
    <3> QED
      BY <1>1, <2>1, <3>1
  <2>5. NoMore(q, p)
    BY <1>2, <2>1, <2>2, <2>3, <2>4
  <2> QED
    BY <2>5 DEF p, q
<1> QED
  BY <1>3, <1>4

(* A transaction on a bundle without clues moves just that bundle.         *)
LEMMA BundleMoves ==
  ASSUME DealInv, NEW v \in Users, NEW p \in Purses, \A i \in Clues : p.items[i] = 0
  PROVE  /\ Transaction(Out(v, p)) =>
              /\ gp'[v] = gp[v] - p.coins
              /\ \A i \in Items : bank'[v][i] = bank[v][i] - p.items[i]
              /\ \A u \in Users \ {v} : bank'[u] = bank[u] /\ gp'[u] = gp[u]
         /\ Transaction(In(v, p)) =>
              /\ gp'[v] = gp[v] + p.coins
              /\ \A i \in Items : bank'[v][i] = bank[v][i] + p.items[i]
              /\ \A u \in Users \ {v} : bank'[u] = bank[u] /\ gp'[u] = gp[u]
<1>1. /\ bank \in [Users -> [Items -> Int]] /\ gp \in [Users -> Int] /\ gp[v] \in Int
      /\ p.coins \in Nat /\ \A i \in Items : bank[v][i] \in Int /\ p.items[i] \in Nat
  BY DEF DealInv, DealTypeOK, Purses, Banks
<1>2. ASSUME Transaction(Out(v, p))
      PROVE  /\ gp'[v] = gp[v] - p.coins
             /\ \A i \in Items : bank'[v][i] = bank[v][i] - p.items[i]
             /\ \A u \in Users \ {v} : bank'[u] = bank[u] /\ gp'[u] = gp[u]
  <2>1. /\ bank' = [bank EXCEPT ![v] = BankAfter(bank[v], Out(v, p))]
        /\ gp' = [gp EXCEPT ![v] = gp[v] + CoinChange(Out(v, p))]
    BY <1>1, <1>2 DEF Transaction, Out
  <2>2. CoinChange(Out(v, p)) = 0 - p.coins
    BY DEF CoinChange, Out
  <2>3. ASSUME NEW i \in Items
        PROVE  BankAfter(bank[v], Out(v, p))[i] = bank[v][i] - p.items[i]
    <3>1. Gains(bank[v], Out(v, p))[i] = 0
      BY DEF Gains, Out, NoItems
    <3>2. BankAfter(bank[v], Out(v, p))[i] = bank[v][i] + Gains(bank[v], Out(v, p))[i] - p.items[i]
      BY DEF BankAfter, Out
    <3> QED
      BY <1>1, <3>1, <3>2
  <2> QED
    BY <1>1, <2>1, <2>2, <2>3
<1>3. ASSUME Transaction(In(v, p))
      PROVE  /\ gp'[v] = gp[v] + p.coins
             /\ \A i \in Items : bank'[v][i] = bank[v][i] + p.items[i]
             /\ \A u \in Users \ {v} : bank'[u] = bank[u] /\ gp'[u] = gp[u]
  <2>1. /\ bank' = [bank EXCEPT ![v] = BankAfter(bank[v], In(v, p))]
        /\ gp' = [gp EXCEPT ![v] = gp[v] + CoinChange(In(v, p))]
    BY <1>1, <1>3 DEF Transaction, In
  <2>2. CoinChange(In(v, p)) = p.coins
    BY <1>1 DEF CoinChange, In
  <2>3. ASSUME NEW i \in Items
        PROVE  BankAfter(bank[v], In(v, p))[i] = bank[v][i] + p.items[i]
    <3>1. Gains(bank[v], In(v, p))[i] = p.items[i]
      BY <1>1 DEF Gains, In
    <3>2. BankAfter(bank[v], In(v, p))[i] = bank[v][i] + Gains(bank[v], In(v, p))[i] - 0
      BY DEF BankAfter, In, NoItems
    <3> QED
      BY <1>1, <3>1, <3>2
  <2> QED
    BY <1>1, <2>1, <2>2, <2>3
<1> QED
  BY <1>2, <1>3

(* What the deal takes from a user it holds for him.                       *)
LEMMA TakenIsHeld ==
  ASSUME DealInv, DealInv', NEW d \in Deals, Alone(d), NEW v \in Users, NEW p \in Purses,
         \A i \in Clues : p.items[i] = 0, Transaction(Out(v, p)),
         Held(d, v) = Nothing, Held(d, v)' = p,
         \A u \in Users \ {v} : Held(d, u)' = Held(d, u)
  PROVE  \A u \in Users : NoMore(Owned(u)', Owned(u))
<1>1. /\ gp'[v] = gp[v] - p.coins
      /\ \A i \in Items : bank'[v][i] = bank[v][i] - p.items[i]
      /\ \A u \in Users \ {v} : bank'[u] = bank[u] /\ gp'[u] = gp[u]
  BY BundleMoves
<1>2. ASSUME NEW u \in Users
      PROVE  NoMore(Share(d, u)', Share(d, u))
  <2>1. CASE u = v
    <3>1. /\ gp[v] \in Int /\ p.coins \in Nat
          /\ \A i \in Items : bank[v][i] \in Int /\ p.items[i] \in Nat
      BY DEF DealInv, DealTypeOK, Purses, Banks
    <3>2. /\ Share(d, v).coins = gp[v] + 0
          /\ Share(d, v)'.coins = gp'[v] + p.coins
          /\ \A i \in Items : /\ Share(d, v).items[i] = bank[v][i] + 0
                              /\ Share(d, v)'.items[i] = bank'[v][i] + p.items[i]
      BY DEF Share, Joined, Nothing, NoItems
    <3> QED
      BY <1>1, <2>1, <3>1, <3>2 DEF NoMore
  <2>2. CASE u # v
    <3>1. Share(d, u)' = Share(d, u)
      BY <1>1, <2>2 DEF Share
    <3>2. Share(d, u) \in IntPurses
      BY ShareTyped
    <3> QED
      BY <3>1, <3>2 DEF NoMore, IntPurses
  <2> QED
    BY <2>1, <2>2
<1> QED
  BY <1>2, SharesTell

(* What the deal gives to a user it held for its parties.                  *)
LEMMA GivenWasHeld ==
  ASSUME DealInv, DealInv', NEW d \in Deals, Alone(d),
         NEW g \in Users, NEW v \in Users, g # v, NEW p \in Purses,
         \A i \in Clues : p.items[i] = 0, Transaction(In(v, p)),
         \A u \in Users \ {v} : NoMore(Held(d, u)', Held(d, u)),
         NoMore(Joined(p, Joined(Held(d, g)', Held(d, v)')), Joined(Held(d, g), Held(d, v)))
  PROVE  HandsOver(g, v)
<1>1. /\ gp'[v] = gp[v] + p.coins
      /\ \A i \in Items : bank'[v][i] = bank[v][i] + p.items[i]
      /\ \A u \in Users \ {v} : bank'[u] = bank[u] /\ gp'[u] = gp[u]
  BY BundleMoves
<1>2. ASSUME NEW u \in Users
      PROVE  /\ gp[u] \in Int /\ gp'[u] \in Int
             /\ Held(d, u).coins \in Int /\ Held(d, u)'.coins \in Int
             /\ Share(d, u).coins = gp[u] + Held(d, u).coins
             /\ Share(d, u)'.coins = gp'[u] + Held(d, u)'.coins
             /\ \A i \in Items :
                  /\ bank[u][i] \in Int /\ bank'[u][i] \in Int
                  /\ Held(d, u).items[i] \in Int /\ Held(d, u)'.items[i] \in Int
                  /\ Share(d, u).items[i] = bank[u][i] + Held(d, u).items[i]
                  /\ Share(d, u)'.items[i] = bank'[u][i] + Held(d, u)'.items[i]
  <2>1. Held(d, u) \in IntPurses /\ Held(d, u)' \in IntPurses
    BY HeldTyped, PursesAreInt
  <2>2. gp[u] \in Int /\ gp'[u] \in Int /\ \A i \in Items : bank[u][i] \in Int /\ bank'[u][i] \in Int
    BY DEF DealInv, DealTypeOK
  <2>3. /\ Share(d, u).coins = gp[u] + Held(d, u).coins
        /\ \A i \in Items : Share(d, u).items[i] = bank[u][i] + Held(d, u).items[i]
    BY DEF Share, Joined
  <2>4. /\ Share(d, u)'.coins = gp'[u] + Held(d, u)'.coins
        /\ \A i \in Items : Share(d, u)'.items[i] = bank'[u][i] + Held(d, u)'.items[i]
    BY DEF Share, Joined
  <2> QED
    BY <2>1, <2>2, <2>3, <2>4 DEF IntPurses
<1>3. ASSUME NEW u \in Users \ {v}
      PROVE  NoMore(Share(d, u)', Share(d, u))
  BY <1>1, <1>2 DEF NoMore
<1>4. p.coins \in Int /\ \A i \in Items : p.items[i] \in Int
  BY DEF Purses, Banks
<1>5. /\ p.coins + (Held(d, g)'.coins + Held(d, v)'.coins) <= Held(d, g).coins + Held(d, v).coins
      /\ \A i \in Items : p.items[i] + (Held(d, g)'.items[i] + Held(d, v)'.items[i])
                            <= Held(d, g).items[i] + Held(d, v).items[i]
  BY DEF NoMore, Joined
<1>6. NoMore(Joined(Share(d, g)', Share(d, v)'), Joined(Share(d, g), Share(d, v)))
  <2>1. Share(d, g)'.coins + Share(d, v)'.coins <= Share(d, g).coins + Share(d, v).coins
    BY <1>1, <1>2, <1>4, <1>5
  <2>2. ASSUME NEW i \in Items
        PROVE  Share(d, g)'.items[i] + Share(d, v)'.items[i]
                 <= Share(d, g).items[i] + Share(d, v).items[i]
    BY <1>1, <1>2, <1>4, <1>5
  <2> QED
    BY <2>1, <2>2 DEF NoMore, Joined
<1> QED
  BY <1>3, <1>6, SharesTell DEF HandsOver

(* A step that moves no goods: a deal can only let go of what it holds,    *)
(* and when it does, that is lost.                                         *)
LEMMA NothingIsGained ==
  ASSUME DealInv, DealInv', UNCHANGED <<bank, gp>>,
         \A d \in Deals, u \in Users : Held(d, u)' = Held(d, u) \/ Held(d, u)' = Nothing,
         NEW u \in Users
  PROVE  NoMore(Owned(u)', Owned(u))
<1>1. ASSUME NEW d \in Deals
      PROVE  /\ Held(d, u).coins \in Int /\ Held(d, u)'.coins \in Int
             /\ Held(d, u)'.coins <= Held(d, u).coins
             /\ \A i \in Items :
                  /\ Held(d, u).items[i] \in Int /\ Held(d, u)'.items[i] \in Int
                  /\ Held(d, u)'.items[i] <= Held(d, u).items[i]
  <2>1. Held(d, u) \in Purses /\ Held(d, u)' \in Purses
    BY HeldTyped
  <2>2. Held(d, u)' = Held(d, u) \/ Held(d, u)' = Nothing
    OBVIOUS
  <2> QED
    BY <2>1, <2>2 DEF Purses, Banks, Nothing, NoItems
<1>2. Owned(u) \in IntPurses /\ Owned(u)' \in IntPurses
  BY OwnedTyped
<1>3. Owned(u)'.coins <= Owned(u).coins
  <2> DEFINE f == [d \in Deals |-> Held(d, u)'.coins]
             g == [d \in Deals |-> Held(d, u).coins]
  <2>1. \A d \in Deals : f[d] \in Int /\ g[d] \in Int /\ f[d] <= g[d]
    BY <1>1
  <2>2. /\ Owned(u)'.coins = gp[u] + SumFunctionOnSet(f, Deals)
        /\ Owned(u).coins = gp[u] + SumFunctionOnSet(g, Deals)
    BY DEF Owned
  <2> HIDE DEF f, g
  <2>3. /\ SumFunctionOnSet(f, Deals) <= SumFunctionOnSet(g, Deals)
        /\ SumFunctionOnSet(f, Deals) \in Int /\ SumFunctionOnSet(g, Deals) \in Int
    BY <2>1, SumGrows, SumTyped, DealAssumption
  <2>4. gp[u] \in Int
    BY DEF DealInv, DealTypeOK
  <2> QED
    BY <2>2, <2>3, <2>4
<1>4. ASSUME NEW i \in Items
      PROVE  Owned(u)'.items[i] <= Owned(u).items[i]
  <2> DEFINE f == [d \in Deals |-> Held(d, u)'.items[i]]
             g == [d \in Deals |-> Held(d, u).items[i]]
  <2>1. \A d \in Deals : f[d] \in Int /\ g[d] \in Int /\ f[d] <= g[d]
    BY <1>1
  <2>2. /\ Owned(u)'.items[i] = bank[u][i] + SumFunctionOnSet(f, Deals)
        /\ Owned(u).items[i] = bank[u][i] + SumFunctionOnSet(g, Deals)
    BY DEF Owned
  <2> HIDE DEF f, g
  <2>3. /\ SumFunctionOnSet(f, Deals) <= SumFunctionOnSet(g, Deals)
        /\ SumFunctionOnSet(f, Deals) \in Int /\ SumFunctionOnSet(g, Deals) \in Int
    BY <2>1, SumGrows, SumTyped, DealAssumption
  <2>4. bank[u][i] \in Int
    BY DEF DealInv, DealTypeOK
  <2> QED
    BY <2>2, <2>3, <2>4
<1> QED
  BY <1>3, <1>4 DEF NoMore

(* Before its first transaction, and once it is over, a deal holds nothing.*)
LEMMA HoldsNothing ==
  ASSUME NEW d \in Deals, NEW u
  PROVE  /\ ~Live(d) \/ deal[d].next = 1 => Held(d, u) = Nothing
         /\ ~Live(d)' \/ deal'[d].next = 1 => Held(d, u)' = Nothing
BY DEF Held

(* Opening, prompting, reading rows, failing and dying gain nobody a thing.*)
LEMMA QuietStepsGainNothing ==
  ASSUME DealInv, DealInv', NEW u \in Users,
         \/ \E d \in Deals : \/ \E o \in Offers : Opens(d, o)
                             \/ Declined(d) \/ Agrees(d) \/ SyncFrom(d) \/ SyncTo(d)
                             \/ DealFails(d)
         \/ DealsDie
  PROVE  NoMore(Owned(u)', Owned(u))
<1>1. UNCHANGED <<bank, gp>>
  BY DEF Opens, Declined, Agrees, SyncFrom, SyncTo, DealFails, DealsDie
<1>2. deal \in [Deals -> DealStates]
  BY DEF DealInv, DealTypeOK
<1>3. ASSUME NEW d \in Deals,
             \/ \E o \in Offers : Opens(d, o)
             \/ Declined(d) \/ Agrees(d) \/ SyncFrom(d) \/ SyncTo(d) \/ DealFails(d)
      PROVE  /\ Alone(d)
             /\ ~Live(d)' \/ deal'[d].next = 1
  <2>1. ASSUME NEW o \in Offers, Opens(d, o)
        PROVE  Alone(d) /\ deal'[d].next = 1
    BY <1>2, <2>1 DEF Opens, Deal, Alone
  <2>2. ASSUME NEW reply, Closes(d, reply)
        PROVE  Alone(d) /\ ~Live(d)'
    BY <1>2, <2>2 DEF Closes, Alone, Live, DealStates
  <2>3. ASSUME NEW phase, Goes(d, phase), deal[d].next = 1
        PROVE  Alone(d) /\ deal'[d].next = 1
    BY <1>2, <2>3 DEF Goes, Alone, DealStates
  <2>4. deal[d].at \in {"asked", "agreed", "synced"} => deal[d].next = 1
    BY DEF DealInv, InSequence
  <2>5. CASE Declined(d) \/ DealFails(d)
    BY <2>2, <2>5 DEF Declined, DealFails
  <2>6. CASE Agrees(d) \/ SyncTo(d)
    BY <2>2, <2>3, <2>4, <2>6 DEF Agrees, SyncTo
  <2>7. CASE SyncFrom(d)
    BY <1>2, <2>4, <2>7 DEF SyncFrom, Alone, DealStates
  <2> QED
    BY <1>3, <2>1, <2>5, <2>6, <2>7
<1>4. CASE \E d \in Deals : \/ \E o \in Offers : Opens(d, o)
                            \/ Declined(d) \/ Agrees(d) \/ SyncFrom(d) \/ SyncTo(d)
                            \/ DealFails(d)
  <2>1. PICK d \in Deals : Alone(d) /\ (~Live(d)' \/ deal'[d].next = 1)
    BY <1>3, <1>4
  <2>2. \A e \in Deals \ {d}, v \in Users : Held(e, v)' = Held(e, v)
    BY <2>1 DEF Alone, Held, Live
  <2>3. \A v \in Users : Held(d, v)' = Nothing
    BY <2>1, HoldsNothing
  <2> QED
    BY <1>1, <2>2, <2>3, NothingIsGained
<1>5. CASE DealsDie
  <2>1. \A d \in Deals : ~Live(d)'
    BY <1>2, <1>5 DEF DealsDie, Live, DealStates
  <2> QED
    BY <1>1, <2>1, HoldsNothing, NothingIsGained
<1> QED
  BY <1>4, <1>5

(* The transactions of each kind of deal, one by one.                      *)
LEMMA LegsInDetail ==
  ASSUME NEW o \in Offers, NEW w \in Winners(o)
  PROVE  /\ o.kind = "pay" =>
              Len(Legs(o, w)) = 2 /\ Legs(o, w)[1] = Out(o.from, o.give)
              /\ Legs(o, w)[2] = In(o.to, o.give)
         /\ o.kind = "trade" =>
              Len(Legs(o, w)) = 4 /\ Legs(o, w)[1] = Out(o.from, o.give)
              /\ Legs(o, w)[2] = Out(o.to, o.take) /\ Legs(o, w)[3] = In(o.from, o.take)
              /\ Legs(o, w)[4] = In(o.to, o.give)
         /\ o.kind = "duel" =>
              Len(Legs(o, w)) = 3 /\ Legs(o, w)[1] = Out(o.from, o.give)
              /\ Legs(o, w)[2] = Out(o.to, o.take) /\ Legs(o, w)[3] = In(w, Winnings(o))
<1>1. CASE o.kind = "pay"
  <2>1. Legs(o, w) = << Out(o.from, o.give), In(o.to, o.give) >>
    BY <1>1 DEF Legs
  <2> QED
    BY <1>1, <2>1
<1>2. CASE o.kind = "trade"
  <2>1. Legs(o, w) = << Out(o.from, o.give), Out(o.to, o.take),
                        In(o.from, o.take), In(o.to, o.give) >>
    BY <1>2 DEF Legs
  <2> QED
    BY <1>2, <2>1
<1>3. CASE o.kind = "duel"
  <2>1. Legs(o, w) = << Out(o.from, o.give), Out(o.to, o.take), In(w, Winnings(o)) >>
    BY <1>3 DEF Legs
  <2> QED
    BY <1>3, <2>1
<1> QED
  BY <1>1, <1>2, <1>3

(* The stakes of a duel pay for its winnings.                              *)
LEMMA StakesCoverWinnings ==
  ASSUME NEW o \in Offers, o.kind = "duel"
  PROVE  NoMore(Winnings(o), Joined(o.give, o.take))
<1>1. /\ o.take = o.give /\ o.give.coins \in Nat
      /\ \A i \in Items : o.give.items[i] = 0
  BY DealAssumption, OfferTyped DEF Purses, NoItems
<1>2. (19 * o.give.coins) \div 10 <= o.give.coins + o.give.coins
  BY <1>1
<1> QED
  BY <1>1, <1>2 DEF NoMore, Joined, Winnings, NoItems

(* Taking leaves everyone what he owns, giving hands on what was held.     *)
LEMMA LegHandsOver ==
  ASSUME DealInv, DealInv', NEW d \in Deals, NEW w \in Users, LegRuns(d, w)
  PROVE  \/ \A u \in Users : NoMore(Owned(u)', Owned(u))
         \/ \E a, b \in Users : a # b /\ HandsOver(a, b)
<1>0. PICK o \in Offers, n \in 1..5 : o = deal[d].offer /\ n = deal[d].next
  BY DEF LegRuns, DealInv, DealTypeOK, DealStates
<1> DEFINE last == n = Length(o)
<1>1. /\ deal[d].at = "moving" /\ n \in 1..Length(o) /\ w \in Winners(o)
      /\ Len(Legs(o, w)) = Length(o) /\ Length(o) \in 2..4 /\ Transaction(Legs(o, w)[n])
  BY <1>0, LegShape DEF LegRuns, Leg, DealInv, DealTypeOK, InSequence
<1>2. /\ o.from \in Users /\ o.to \in Users /\ o.from # o.to /\ o.kind \in DealKinds
      /\ o.give \in Purses /\ o.take \in Purses
      /\ \A i \in Clues : o.give.items[i] = 0 /\ o.take.items[i] = 0
  BY <1>1, OfferTyped, DealAssumption
<1>3. /\ deal'[d].offer = o /\ deal'[d].next = n + 1
      /\ deal'[d].at = IF last THEN "over" ELSE "moving"
      /\ Alone(d)
  BY <1>0, <1>1 DEF LegRuns, DealInv, DealTypeOK, DealStates, Alone
<1>4. Live(d) /\ (Live(d)' <=> ~last)
  BY <1>1, <1>3 DEF Live
<1>5. ASSUME NEW u \in Users
      PROVE  /\ Held(d, u) = IF n = 1 THEN Nothing
                             ELSE IF u = o.from THEN o.give
                             ELSE IF u = o.to /\ n = 3 THEN o.take ELSE Nothing
             /\ Held(d, u)' = IF last THEN Nothing
                              ELSE IF u = o.from THEN o.give
                              ELSE IF u = o.to /\ n = 2 THEN o.take ELSE Nothing
  <2>1. n + 1 # 1 /\ (n + 1 = 3 <=> n = 2)
    BY <1>1
  <2>2. Held(d, u) = IF n = 1 THEN Nothing
                     ELSE IF u = o.from THEN o.give
                     ELSE IF u = o.to /\ n = 3 THEN o.take ELSE Nothing
    BY <1>0, <1>4 DEF Held
  <2>3. Held(d, u)' = IF last THEN Nothing
                      ELSE IF u = o.from THEN o.give
                      ELSE IF u = o.to /\ n = 2 THEN o.take ELSE Nothing
    BY <1>3, <1>4, <2>1 DEF Held
  <2> QED
    BY <2>2, <2>3
<1>6. ASSUME NEW p \in Purses
      PROVE  NoMore(p, p) /\ NoMore(Nothing, p)
  BY DEF NoMore, Nothing, NoItems, Purses, Banks
<1>7. Nothing \in Purses
  BY DEF Nothing, NoItems, Purses, Banks
<1>8. CASE n = 1
  <2>1. Transaction(Out(o.from, o.give)) /\ ~last
    BY <1>1, <1>2, <1>8, LegShape
  <2>2. Held(d, o.from) = Nothing /\ Held(d, o.from)' = o.give
    BY <1>2, <1>5, <1>8, <2>1
  <2>3. \A u \in Users \ {o.from} : Held(d, u)' = Held(d, u)
    BY <1>5, <1>8, <2>1
  <2> QED
    BY <1>2, <1>3, <2>1, <2>2, <2>3, TakenIsHeld
<1>9. CASE n = 2 /\ o.kind # "pay"
  <2>1. Transaction(Out(o.to, o.take)) /\ ~last
    BY <1>1, <1>2, <1>9, LegShape DEF Length, DealKinds
  <2>2. Held(d, o.to) = Nothing /\ Held(d, o.to)' = o.take
    BY <1>2, <1>5, <1>9, <2>1
  <2>3. \A u \in Users \ {o.to} : Held(d, u)' = Held(d, u)
    BY <1>5, <1>9, <2>1
  <2> QED
    BY <1>2, <1>3, <2>1, <2>2, <2>3, TakenIsHeld
<1>10. CASE (n = 2 /\ o.kind = "pay") \/ (n = 4 /\ o.kind = "trade")
  <2>1. Transaction(In(o.to, o.give)) /\ last
    BY <1>1, <1>10, LegsInDetail
  <2>2. /\ Held(d, o.from) = o.give /\ Held(d, o.from)' = Nothing
        /\ Held(d, o.to) = Nothing /\ Held(d, o.to)' = Nothing
    BY <1>2, <1>5, <1>10, <2>1
  <2>3. \A u \in Users \ {o.to} : NoMore(Held(d, u)', Held(d, u))
    BY <1>2, <1>5, <1>6, <1>7, <1>10, <2>1
  <2>4. NoMore(Joined(o.give, Joined(Held(d, o.from)', Held(d, o.to)')),
               Joined(Held(d, o.from), Held(d, o.to)))
    BY <1>2, <2>2 DEF NoMore, Joined, Nothing, NoItems, Purses, Banks
  <2>5. HandsOver(o.from, o.to)
    BY <1>2, <1>3, <2>1, <2>3, <2>4, GivenWasHeld
  <2> QED
    BY <1>2, <2>5
<1>11. CASE n = 3 /\ o.kind = "trade"
  <2>1. Transaction(In(o.from, o.take)) /\ ~last
    BY <1>1, <1>11, LegsInDetail
  <2>2. /\ Held(d, o.from) = o.give /\ Held(d, o.from)' = o.give
        /\ Held(d, o.to) = o.take /\ Held(d, o.to)' = Nothing
    BY <1>2, <1>5, <1>11, <2>1
  <2>3. \A u \in Users \ {o.from} : NoMore(Held(d, u)', Held(d, u))
    BY <1>2, <1>5, <1>6, <1>7, <1>11, <2>1
  <2>4. NoMore(Joined(o.take, Joined(Held(d, o.to)', Held(d, o.from)')),
               Joined(Held(d, o.to), Held(d, o.from)))
    BY <1>2, <2>2 DEF NoMore, Joined, Nothing, NoItems, Purses, Banks
  <2>5. HandsOver(o.to, o.from)
    BY <1>2, <1>3, <2>1, <2>3, <2>4, GivenWasHeld
  <2> QED
    BY <1>2, <2>5
<1>12. CASE n = 3 /\ o.kind = "duel"
  <2>1. Transaction(In(w, Winnings(o))) /\ last
    BY <1>1, <1>12, LegsInDetail
  <2>2. /\ Held(d, o.from) = o.give /\ Held(d, o.to) = o.take
        /\ \A u \in Users : Held(d, u)' = Nothing
    BY <1>2, <1>5, <1>12, <2>1
  <2>3. \A u \in Users : NoMore(Held(d, u)', Held(d, u))
    BY <1>6, <2>2, HeldTyped
  <2>4. PICK g \in Users : g # w /\ {g, w} = {o.from, o.to}
    BY <1>1, <1>2, <1>12 DEF Winners
  <2>5. NoMore(Winnings(o), Joined(o.give, o.take))
    BY <1>1, <1>12, StakesCoverWinnings
  <2>6. Winnings(o) \in Purses /\ \A i \in Clues : Winnings(o).items[i] = 0
    BY <1>1, WinningsTyped, BankAssumption DEF Winnings, NoItems
  <2>7. NoMore(Joined(Winnings(o), Joined(Nothing, Nothing)), Joined(o.give, o.take))
    <3>1. \A i \in Items : Nothing.items[i] = 0
      BY DEF Nothing, NoItems
    <3>2. Winnings(o).coins \in Nat /\ \A i \in Items : Winnings(o).items[i] \in Nat
      BY <2>6 DEF Purses, Banks
    <3> QED
      BY <2>5, <3>1, <3>2 DEF NoMore, Joined, Nothing
  <2>8. Joined(Held(d, g), Held(d, w)) = Joined(o.give, o.take)
    <3>1. Joined(o.give, o.take) = Joined(o.take, o.give)
      BY <1>2 DEF Joined, Purses, Banks
    <3>2. (g = o.from /\ w = o.to) \/ (g = o.to /\ w = o.from)
      BY <1>2, <2>4
    <3> QED
      BY <2>2, <3>1, <3>2
  <2>9. NoMore(Joined(Winnings(o), Joined(Held(d, g)', Held(d, w)')), Joined(Held(d, g), Held(d, w)))
    BY <2>2, <2>4, <2>7, <2>8
  <2>10. HandsOver(g, w)
    BY <1>3, <2>1, <2>3, <2>4, <2>6, <2>9, GivenWasHeld
  <2> QED
    BY <2>4, <2>10
<1>13. \/ n = 1
       \/ n = 2 /\ o.kind # "pay"
       \/ n = 2 /\ o.kind = "pay"
       \/ n = 4 /\ o.kind = "trade"
       \/ n = 3 /\ o.kind = "trade"
       \/ n = 3 /\ o.kind = "duel"
  <2>1. CASE o.kind = "pay"
    BY <1>1, <2>1 DEF Length
  <2>2. CASE o.kind = "trade"
    BY <1>1, <2>2 DEF Length
  <2>3. CASE o.kind = "duel"
    BY <1>1, <2>3 DEF Length
  <2> QED
    BY <1>2, <2>1, <2>2, <2>3 DEF DealKinds
<1> QED
  BY <1>8, <1>9, <1>10, <1>11, <1>12, <1>13

(* No step gives one user more than another one loses, but for the         *)
(* transactions of other commands.                                         *)
LEMMA StepsAreBalanced ==
  ASSUME DealInv, DealInv', DealNext
  PROVE  \/ \E r \in Requests : Others(r)
         \/ \A u \in Users : NoMore(Owned(u)', Owned(u))
         \/ \E a, b \in Users : a # b /\ HandsOver(a, b)
<1>1. CASE \E r \in Requests : Others(r)
  BY <1>1
<1>2. CASE \E d \in Deals, w \in Users : LegRuns(d, w)
  BY <1>2, LegHandsOver
<1>3. CASE \/ \E d \in Deals : \/ \E o \in Offers : Opens(d, o)
                               \/ Declined(d) \/ Agrees(d) \/ SyncFrom(d) \/ SyncTo(d)
                               \/ DealFails(d)
           \/ DealsDie
  BY <1>3, QuietStepsGainNothing
<1> QED
  BY <1>1, <1>2, <1>3 DEF DealNext, DealGoesOn

(* Goods only change hands: no step of a deal, and no way it can fail,     *)
(* gives one party more than the other one loses                           *)
(* (trade.ts:125-133, pay.ts:62-73, duelCommand.ts:84-121).                *)
THEOREM GoodsOnlyChangeHandsCorrect == DealSafety => GoodsOnlyChangeHands
<1> DEFINE Balanced == \/ \E r \in Requests : Others(r)
                       \/ \A u \in Users : NoMore(Owned(u)', Owned(u))
                       \/ \E a, b \in Users : a # b /\ HandsOver(a, b)
<1>1. DealInv /\ DealInv' /\ [DealNext]_dealVars => [Balanced]_dealVars
  BY StepsAreBalanced
<1> QED
  BY <1>1, DealInvInit, DealInvStep, PTL DEF DealSafety, GoodsOnlyChangeHands

-----------------------------------------------------------------------------
\* All the coins there are, and all the items of a kind: what the players own
\* and what deals hold of theirs.
TotalCoins == SumFunctionOnSet([u \in Users |-> Owned(u).coins], Users)
Total(i) == SumFunctionOnSet([u \in Users |-> Owned(u).items[i]], Users)

\* No deal makes anything out of nothing.
DealsMakeNothing ==
  [][\/ \E r \in Requests : Others(r)
     \/ TotalCoins' <= TotalCoins /\ \A i \in Items : Total(i)' <= Total(i)]_dealVars

LEMMA TotalsShrink ==
  ASSUME IsFiniteSet(Users), DealInv, DealInv',
         \/ \A u \in Users : NoMore(Owned(u)', Owned(u))
         \/ \E a, b \in Users : a # b /\ HandsOver(a, b)
  PROVE  TotalCoins' <= TotalCoins /\ \A i \in Items : Total(i)' <= Total(i)
<1>1. \A u \in Users : Owned(u) \in IntPurses /\ Owned(u)' \in IntPurses
  BY OwnedTyped
<1>2. TotalCoins' <= TotalCoins
  <2> DEFINE f == [u \in Users |-> Owned(u).coins]
             g == [u \in Users |-> Owned(u)'.coins]
  <2>1. TotalCoins = SumFunctionOnSet(f, Users) /\ TotalCoins' = SumFunctionOnSet(g, Users)
    BY DEF TotalCoins
  <2>2. \A u \in Users : f[u] \in Int /\ g[u] \in Int
    BY <1>1 DEF IntPurses
  <2>3. (\A u \in Users : g[u] <= f[u])
        \/ \E a, b \in Users : /\ a # b /\ g[a] + g[b] <= f[a] + f[b]
                               /\ \A u \in Users \ {a, b} : g[u] <= f[u]
    BY DEF NoMore, HandsOver, Joined
  <2> HIDE DEF f, g
  <2> QED
    BY <2>1, <2>2, <2>3, SumGrows, SumHandedOver
<1>3. ASSUME NEW i \in Items
      PROVE  Total(i)' <= Total(i)
  <2> DEFINE f == [u \in Users |-> Owned(u).items[i]]
             g == [u \in Users |-> Owned(u)'.items[i]]
  <2>1. Total(i) = SumFunctionOnSet(f, Users) /\ Total(i)' = SumFunctionOnSet(g, Users)
    BY DEF Total
  <2>2. \A u \in Users : f[u] \in Int /\ g[u] \in Int
    BY <1>1 DEF IntPurses
  <2>3. (\A u \in Users : g[u] <= f[u])
        \/ \E a, b \in Users : /\ a # b /\ g[a] + g[b] <= f[a] + f[b]
                               /\ \A u \in Users \ {a, b} : g[u] <= f[u]
    BY DEF NoMore, HandsOver, Joined
  <2> HIDE DEF f, g
  <2> QED
    BY <2>1, <2>2, <2>3, SumGrows, SumHandedOver
<1> QED
  BY <1>2, <1>3

(* Among finitely many players, no step of any deal and no way it can fail *)
(* makes more of the coins or of an item: no deal duplicates goods         *)
(* (trade.ts:125-133, pay.ts:62-73, duelCommand.ts:84-121).                *)
THEOREM DealsMakeNothingCorrect ==
  ASSUME IsFiniteSet(Users)
  PROVE  DealSafety => DealsMakeNothing
<1> DEFINE Kept == \/ \E r \in Requests : Others(r)
                   \/ TotalCoins' <= TotalCoins /\ \A i \in Items : Total(i)' <= Total(i)
<1>1. ASSUME DealInv, DealInv', DealNext
      PROVE  Kept
  BY <1>1, StepsAreBalanced, TotalsShrink
<1>2. DealInv /\ DealInv' /\ [DealNext]_dealVars => [Kept]_dealVars
  BY <1>1
<1> QED
  BY <1>2, DealInvInit, DealInvStep, PTL DEF DealSafety, DealsMakeNothing
=============================================================================
